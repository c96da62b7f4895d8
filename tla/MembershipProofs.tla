-------------------------- MODULE MembershipProofs --------------------------
(***************************************************************************)
(* Theorems about Membership for any number of orders, payments, requests  *)
(* and crons, any length of the clock's steps and any number of crashes.   *)
(***************************************************************************)
EXTENDS Membership, TLAPS

-----------------------------------------------------------------------------
(* Types *)

(* A job of the right type stays one when it moves on. *)
LEMMA JobMoves ==
    ASSUME TypeOK, NEW h \in Handlers, NEW j \in Job, job' = [job EXCEPT ![h] = j]
    PROVE  job' \in [Handlers -> Job]
BY DEF TypeOK

(* A month after a day is a day. *)
LEMMA AfterIsADay ==
    ASSUME NEW d \in Days
    PROVE  After(d) \in Nat /\ After(d) \in Days
BY DEF After, Days, SUBSCRIPTION_DURATION_DAYS

(* The price of days that are left is a number. *)
LEMMA RoundUpIsInt ==
    ASSUME NEW t \in Tiers, NEW d \in Int
    PROVE  roundUpVnd(t, d) \in Int
<1>1. TIER_PRICES[t] \in Nat BY DEF TIER_PRICES, Tiers
<1>2. TIER_PRICES[t] * d \in Int BY <1>1
<1>3. \A n \in Int : (n + 29) \div 30 \in Int OBVIOUS
<1>4. roundUpVnd(t, d) = (TIER_PRICES[t] * d + 29) \div 30
  <2>1. \A n \in Int : n + 30 - 1 = n + 29 OBVIOUS
  <2> QED BY <1>2, <2>1 DEF roundUpVnd, SUBSCRIPTION_DURATION_DAYS
<1> QED BY <1>2, <1>3, <1>4

LEMMA PriceIsNat ==
    ASSUME TypeOK, NEW t \in Tiers, NEW c \in Orders
    PROVE  Price(t, c) \in Nat
<1>1. sub[c].tier \in Tiers /\ sub[c].expiresAt - today \in Int
  BY DEF TypeOK, Sub, Days
<1>2. TIER_PRICES[t] \in Nat BY DEF TIER_PRICES, Tiers
<1>3. \A a, b \in Int : a - b > 0 => a - b \in Nat OBVIOUS
<1>4. roundUpVnd(t, sub[c].expiresAt - today) \in Int
      /\ roundUpVnd(sub[c].tier, sub[c].expiresAt - today) \in Int
  BY <1>1, RoundUpIsInt
<1>5. calcUpgradeProration(sub[c].tier, t, sub[c].expiresAt - today) \in Nat
  BY <1>3, <1>4 DEF calcUpgradeProration
<1> QED BY <1>2, <1>5 DEF Price

(* The types of all tables and requests hold in every step. *)
LEMMA RowsTyped ==
    ASSUME TypeOK, [Next]_vars
    PROVE  TypeOK'
<1> USE DEF At, Env, rows, users, Done, Set, Start
<1>a. NoJob \in Job /\ NoSub \in Sub /\ NoOrder \in Order
  BY DEF NoJob, NoSub, NoOrder, Job, Sub, Order, Days, Tiers
<1>d. Handlers = Payers \cup Customers \cup Nights \cup Reminders BY DEF Handlers
<1>m. \A p \in Orders : Unused \subseteq Orders BY DEF Unused
<1>p. TIER_PRICES["MEMBER"] \in Nat /\ \A t \in Tiers : TIER_PRICES[t] \in Nat
  BY DEF TIER_PRICES, Tiers
<1>c. ASSUME NEW h \in Handlers, NEW o \in Orders, NEW t \in Tiers, NEW n \in Nat,
             Create(h, o, t, n), Set(h, [job[h] EXCEPT !.at = "LINK", !.order = {o}])
      PROVE  TypeOK'
  <2>1. [job[h] EXCEPT !.at = "LINK", !.order = {o}] \in Job BY DEF TypeOK, Job
  <2>2. job' \in [Handlers -> Job] BY <1>c, <2>1, JobMoves
  <2>3. [status |-> "CREATED", tier |-> t, amount |-> n, linked |-> FALSE] \in Order
    BY DEF Order
  <2>4. order' \in [Orders -> Order] BY <1>c, <2>3 DEF Create, TypeOK
  <2> QED BY <1>c, <2>2, <2>4 DEF TypeOK, Create
<1>s. ASSUME NEW h \in Handlers, NEW j \in Job, job' = [job EXCEPT ![h] = j],
             tier' \in Tiers, tierExpiresAt' \in Days, order' \in [Orders -> Order],
             sub' \in [Orders -> Sub], UNCHANGED <<today, errors>>
      PROVE  TypeOK'
  <2>1. job' \in [Handlers -> Job] BY <1>s, JobMoves
  <2> QED BY <1>s, <2>1 DEF TypeOK
<1>k. TypeOK => /\ tier \in Tiers /\ tierExpiresAt \in Days /\ order \in [Orders -> Order]
                /\ sub \in [Orders -> Sub] /\ job \in [Handlers -> Job]
  BY DEF TypeOK
<1>1. ASSUME NEW h \in Customers, CustomerStep(h) PROVE TypeOK'
  <2>h. h \in Handlers BY <1>d
  <2>1. ASSUME NEW t \in Tiers, CheckoutRead(h, t) PROVE TypeOK'
    <3>1. [NoJob EXCEPT !.at = "CREATE", !.tier = t] \in Job BY <1>a DEF Job, NoJob
    <3> QED BY <1>k, <1>s, <2>1, <2>h, <3>1 DEF CheckoutRead
  <2>2. ASSUME NEW o \in Orders, CheckoutCreate(h, o) PROVE TypeOK'
    <3>1. job[h].tier \in Tiers BY <2>h DEF TypeOK, Job
    <3>2. \A c \in Latest(Running) : c \in Orders BY DEF Latest, Running, InStatus
    <3> QED BY <1>c, <1>p, <2>2, <2>h, <3>1, <3>2, PriceIsNat DEF CheckoutCreate
  <2>3. ASSUME NEW o \in Orders, CheckoutLink(h, o) PROVE TypeOK'
    <3>1. [job[h] EXCEPT !.at = "MARK"] \in Job BY <2>h DEF TypeOK, Job
    <3>2. order' \in [Orders -> Order] BY <2>3 DEF CheckoutLink, TypeOK, Order
    <3> QED BY <1>a, <1>k, <1>s, <2>3, <2>h, <3>1, <3>2 DEF CheckoutLink
  <2>4. ASSUME NEW on \in BOOLEAN, ToggleRead(h, on) PROVE TypeOK'
    <3>1. PICK c \in Latest(Running) :
            Start(h, [NoJob EXCEPT !.at = IF on THEN "TOGGLE_ON" ELSE "TOGGLE_OFF", !.current = {c}])
      BY <2>4 DEF ToggleRead
    <3>2. c \in Orders BY DEF Latest, Running, InStatus
    <3>3. [NoJob EXCEPT !.at = IF on THEN "TOGGLE_ON" ELSE "TOGGLE_OFF", !.current = {c}] \in Job
      BY <1>a, <3>2 DEF Job, NoJob
    <3> QED BY <1>k, <1>s, <2>4, <2>h, <3>1, <3>3 DEF ToggleRead
  <2>5. CASE Toggle(h)
    <3>1. sub' \in [Orders -> Sub] BY <2>5 DEF Toggle, TypeOK, Sub
    <3> QED BY <1>a, <1>k, <1>s, <2>5, <2>h, <3>1 DEF Toggle
  <2>6. CASE UnscheduleRead(h)
    <3>1. PICK c \in Earliest(InStatus({"SCHEDULED"})) :
            Start(h, [NoJob EXCEPT !.at = "DROP", !.current = {c}])
      BY <2>6 DEF UnscheduleRead
    <3>2. c \in Orders BY DEF Earliest, InStatus
    <3>3. [NoJob EXCEPT !.at = "DROP", !.current = {c}] \in Job
      BY <1>a, <3>2 DEF Job, NoJob
    <3> QED BY <1>k, <1>s, <2>6, <2>h, <3>1, <3>3 DEF UnscheduleRead
  <2>7. CASE Unschedule(h)
    <3>1. [job[h] EXCEPT !.at = "RESUME", !.current = {}] \in Job BY <2>h DEF TypeOK, Job
    <3>2. sub' \in [Orders -> Sub] BY <2>7 DEF Unschedule, TypeOK, Sub
    <3> QED BY <1>a, <1>k, <1>s, <2>7, <2>h, <3>1, <3>2 DEF Unschedule
  <2>8. CASE ResumeRead(h)
    <3>1. \A c \in Latest(Running) : c \in Orders BY DEF Latest, Running, InStatus
    <3>2. \A c \in Orders : [job[h] EXCEPT !.current = {c}] \in Job BY <2>h DEF TypeOK, Job
    <3> QED BY <1>a, <1>k, <1>s, <2>8, <2>h, <3>1, <3>2 DEF ResumeRead
  <2> QED BY <1>1, <2>1, <2>2, <2>3, <2>4, <2>5, <2>6, <2>7, <2>8 DEF CustomerStep
<1>2. ASSUME NEW h \in Payers, PayerStep(h) PROVE TypeOK'
  <2>h. h \in Handlers BY <1>d
  <2>1. ASSUME NEW o \in Orders, PayRead(h, o) PROVE TypeOK'
    <3>1. \A c \in Latest(InStatus({"ACTIVE", "SCHEDULED"})) : c \in Orders /\ sub[c] \in Sub
      BY DEF Latest, InStatus, TypeOK
    <3>2. [NoJob EXCEPT !.at = "PAY", !.order = {o}] \in Job
      BY <1>a DEF Job, NoJob
    <3>3. ASSUME NEW c \in Orders, sub[c] \in Sub
          PROVE [NoJob EXCEPT !.at = "PAY", !.order = {o}, !.current = {c}, !.row = sub[c]] \in Job
      BY <1>a, <3>3 DEF Job, NoJob
    <3> QED BY <1>k, <1>s, <2>1, <2>h, <3>1, <3>2, <3>3 DEF PayRead
  <2>2. ASSUME NEW o \in Orders, NEW t \in Tiers,
               PayExtend(h, o, t) \/ PayUpgrade(h, o, t) \/ PayDowngrade(h, o, t)
        PROVE  TypeOK'
    <3>0. order' = [order EXCEPT ![o].status = "COMPLETED"]
      BY <2>2 DEF PayExtend, PayUpgrade, PayDowngrade, Pay
    <3>1. order' \in [Orders -> Order] BY <3>0 DEF TypeOK, Order
    <3>2. UNCHANGED <<today, errors>> /\ job' = [job EXCEPT ![h] = NoJob]
      BY <2>2 DEF PayExtend, PayUpgrade, PayDowngrade, Pay
    <3>3. job[h].row.expiresAt \in Days BY <2>h DEF TypeOK, Job, Sub
    <3>4. today \in Days BY DEF TypeOK, Days
    <3>5. ASSUME NEW st \in {"ACTIVE", "SCHEDULED"}, NEW from \in Days, NEW to \in Days
          PROVE  NewRow(t, st, from, to) \in Sub
      BY DEF NewRow, Sub
    <3>6. CASE PayExtend(h, o, t)
      <4> DEFINE from == IF job[h].row.status = "ACTIVE" /\ job[h].row.expiresAt > today
                         THEN job[h].row.expiresAt ELSE today
      <4>1. from \in Days BY <3>3, <3>4
      <4>2. After(from) \in Days BY <4>1, AfterIsADay
      <4>3. NewRow(t, "ACTIVE", from, After(from)) \in Sub BY <3>5, <4>1, <4>2
      <4>4. /\ sub' = [sub EXCEPT ![o] = NewRow(t, "ACTIVE", from, After(from))]
            /\ tier' = t /\ tierExpiresAt' = After(from)
        BY <3>6 DEF PayExtend
      <4>5. sub' \in [Orders -> Sub] BY <1>k, <4>3, <4>4
      <4> QED BY <1>a, <1>s, <2>h, <3>1, <3>2, <4>2, <4>4, <4>5
    <3>7. CASE PayUpgrade(h, o, t)
      <4> DEFINE end == IF job[h].row.expiresAt <= today THEN After(today) ELSE job[h].row.expiresAt
      <4>1. end \in Days BY <3>3, <3>4, AfterIsADay
      <4>2. NewRow(t, "ACTIVE", today, end) \in Sub BY <3>4, <3>5, <4>1
      <4>3. PICK s : sub' = [p \in Orders |->
                CASE p = o -> NewRow(t, "ACTIVE", today, end)
                  [] p \in job[h].current ->
                        [sub[p] EXCEPT !.status = "CANCELLED", !.autoRenew = FALSE,
                                       !.expiresAt = today]
                  [] p \in s -> [sub[p] EXCEPT !.status = "CANCELLED"]
                  [] OTHER -> sub[p]]
        BY <3>7 DEF PayUpgrade
      <4>4. \A p \in Orders : sub'[p] \in Sub BY <3>4, <4>2, <4>3 DEF TypeOK, Sub
      <4>5. sub' \in [Orders -> Sub] BY <4>3, <4>4
      <4>6. tier' = t /\ tierExpiresAt' = end BY <3>7 DEF PayUpgrade
      <4> QED BY <1>a, <1>s, <2>h, <3>1, <3>2, <4>1, <4>5, <4>6
    <3>8. CASE PayDowngrade(h, o, t)
      <4>1. NewRow(t, "SCHEDULED", job[h].row.expiresAt, After(job[h].row.expiresAt)) \in Sub
        BY <3>3, <3>5, AfterIsADay
      <4>2. sub' = [p \in Orders |->
              CASE p = o -> NewRow(t, "SCHEDULED", job[h].row.expiresAt, After(job[h].row.expiresAt))
                [] p \in job[h].current -> [sub[p] EXCEPT !.autoRenew = FALSE]
                [] OTHER -> sub[p]]
        BY <3>8 DEF PayDowngrade
      <4>3. \A p \in Orders : sub'[p] \in Sub BY <4>1, <4>2 DEF TypeOK, Sub
      <4>4. sub' \in [Orders -> Sub] BY <4>2, <4>3
      <4> QED BY <1>a, <1>k, <1>s, <2>h, <3>1, <3>2, <3>8, <4>4 DEF PayDowngrade
    <3> QED BY <2>2, <3>6, <3>7, <3>8
  <2> QED BY <1>2, <2>1, <2>2 DEF PayerStep, PayWrite
<1>3. ASSUME NEW h \in Nights, NightStep(h) PROVE TypeOK'
  <2>h. h \in Handlers BY <1>d
  <2>1. CASE CronRead(h)
    <3>1. Due \in SUBSET Orders BY DEF Due, InStatus
    <3>2. [NoJob EXCEPT !.at = "START", !.due = Due] \in Job BY <1>a, <3>1 DEF Job, NoJob
    <3> QED BY <1>k, <1>s, <2>1, <2>h, <3>2 DEF CronRead
  <2>2. CASE EndSubscriptions(h)
    <3>1. [job[h] EXCEPT !.at = "FREE"] \in Job BY <2>h DEF TypeOK, Job
    <3>2. sub' \in [Orders -> Sub] BY <2>2 DEF EndSubscriptions, TypeOK, Sub
    <3> QED BY <1>k, <1>s, <2>2, <2>h, <3>1, <3>2 DEF EndSubscriptions
  <2>3. CASE EndTier(h)
    <3>1. "FREE" \in Tiers /\ -1 \in Days BY DEF Tiers, Days
    <3> QED BY <1>a, <1>k, <1>s, <2>3, <2>h, <3>1 DEF EndTier
  <2>4. ASSUME NEW o \in Orders, ActivateRow(h, o) PROVE TypeOK'
    <3>1. sub[o].startsAt \in Days /\ today \in Days BY DEF TypeOK, Sub, Days
    <3>2. After(IF sub[o].startsAt > today THEN sub[o].startsAt ELSE today) \in Days
      BY <3>1, AfterIsADay
    <3>3. sub' \in [Orders -> Sub] BY <2>4, <3>2 DEF ActivateRow, TypeOK, Sub
    <3>4. [job[h] EXCEPT !.at = "GRANT", !.order = {o}, !.due = @ \ {o}] \in Job
      BY <2>h DEF TypeOK, Job
    <3> QED BY <1>k, <1>s, <2>4, <2>h, <3>3, <3>4 DEF ActivateRow
  <2>5. ASSUME NEW o \in Orders, ActivateUser(h, o) PROVE TypeOK'
    <3>1. today \in Days /\ sub[o].tier \in Tiers BY DEF TypeOK, Sub, Days
    <3>2. After(today) \in Days BY <3>1, AfterIsADay
    <3>3. [job[h] EXCEPT !.at = "START", !.order = {}] \in Job BY <2>h DEF TypeOK, Job
    <3> QED BY <1>k, <1>s, <2>5, <2>h, <3>1, <3>2, <3>3 DEF ActivateUser
  <2> QED BY <1>3, <2>1, <2>2, <2>3, <2>4, <2>5 DEF NightStep
<1>4. ASSUME NEW h \in Reminders, ReminderStep(h) PROVE TypeOK'
  <2>h. h \in Handlers BY <1>d
  <2>0. [job[h] EXCEPT !.at = "MARK"] \in Job BY <2>h DEF TypeOK, Job
  <2>1. CASE RemindReuse(h) BY <1>k, <1>s, <2>0, <2>1, <2>h DEF RemindReuse
  <2>2. CASE RemindMark(h)
    <3>1. sub' \in [Orders -> Sub] BY <2>2 DEF RemindMark, TypeOK, Sub
    <3> QED BY <1>a, <1>k, <1>s, <2>2, <2>h, <3>1 DEF RemindMark
  <2>3. ASSUME NEW o \in Orders, RemindRead(h, o) PROVE TypeOK'
    <3>1. sub[o].tier \in Tiers BY DEF TypeOK, Sub
    <3>2. [NoJob EXCEPT !.at = "REMIND", !.current = {o}, !.tier = sub[o].tier] \in Job
      BY <1>a, <3>1 DEF Job, NoJob
    <3> QED BY <1>k, <1>s, <2>3, <2>h, <3>2 DEF RemindRead
  <2>4. ASSUME NEW o \in Orders, RemindCreate(h, o) PROVE TypeOK'
    <3>1. job[h].tier \in Tiers BY <2>h DEF TypeOK, Job
    <3> QED BY <1>c, <1>p, <2>4, <2>h, <3>1 DEF RemindCreate
  <2>5. ASSUME NEW o \in Orders, CheckoutLink(h, o) PROVE TypeOK'
    <3>1. order' \in [Orders -> Order] BY <2>5 DEF CheckoutLink, TypeOK, Order
    <3> QED BY <1>a, <1>k, <1>s, <2>0, <2>5, <2>h, <3>1 DEF CheckoutLink
  <2> QED BY <1>4, <2>1, <2>2, <2>3, <2>4, <2>5 DEF ReminderStep
<1>5. ASSUME NEW o \in Orders, CloseOrder(o) PROVE TypeOK'
  <2>1. order' \in [Orders -> Order] BY <1>5 DEF CloseOrder, TypeOK, Order
  <2> QED BY <1>5, <2>1 DEF CloseOrder, TypeOK
<1>6. ASSUME NEW h \in Handlers, Crash(h) PROVE TypeOK'
  <2>1. job' \in [Handlers -> Job] BY <1>6, <1>a, JobMoves DEF Crash
  <2>2. errors' \in 0..MaxErrors BY <1>6, MembershipAssumption DEF Crash, TypeOK
  <2> QED BY <1>6, <2>1, <2>2 DEF Crash, TypeOK
<1>7. CASE DayPasses
  <2>1. today' \in 0..LastDay BY <1>7, MembershipAssumption DEF DayPasses, TypeOK
  <2>2. order' \in [Orders -> Order] BY <1>7 DEF DayPasses, TypeOK, Order
  <2> QED BY <1>7, <2>1, <2>2 DEF DayPasses, TypeOK
<1>8. CASE UNCHANGED vars BY <1>8 DEF vars, TypeOK
<1> QED BY <1>1, <1>2, <1>3, <1>4, <1>5, <1>6, <1>7, <1>8 DEF Next

-----------------------------------------------------------------------------
(* The invariant: what the rows say of the dates, and what a request knows *)

HeldStatuses == {"ACTIVE", "SCHEDULED"}
\* A request that will make an order, or holds one: every plan that waits then waits for
\* a day that has not passed, as no order is made while an older plan waits.
Ordering == {"CREATE", "REMIND", "PAY"}
Future == \A o \in Orders : sub[o].status = "SCHEDULED" => sub[o].startsAt >= today

\* A plan runs until then.
Promised(day) == \E w \in Orders : sub[w].status = "ACTIVE" /\ sub[w].expiresAt >= day

\* A plan on the cron's list.
DueRow(o) ==
    /\ o \in Orders /\ sub[o].status # "NONE" /\ sub[o].startsAt <= today
    /\ sub[o].status = "ACTIVE" => sub[o].expiresAt = After(today)

\* The copy r of row c that a payment has.
ReadRow(r, c) ==
    /\ sub[c].status # "NONE"
    /\ r.status \in HeldStatuses /\ r.startsAt = sub[c].startsAt
    /\ r.status = "SCHEDULED" => r.startsAt >= today /\ r.expiresAt = After(r.startsAt)
    /\ r.status = "ACTIVE" => sub[c].status # "SCHEDULED"
    /\ sub[c].status \in HeldStatuses => sub[c].expiresAt = r.expiresAt

GoodJob(j) ==
    /\ j.due # {} => j.at \in {"START", "GRANT"}
    /\ \A o \in j.due : DueRow(o)
    /\ j.at \in Ordering => Future
    /\ j.at = "GRANT" => Promised(After(today))
    /\ j.at = "PAY" =>
         /\ \A o \in j.order : order[o].status = "CREATED"
         /\ j.current = {} => j.row = NoSub
         /\ \A c \in j.current : ReadRow(j.row, c)

Tables ==
    /\ \A o \in Orders : sub[o].status = "SCHEDULED" => sub[o].expiresAt = After(sub[o].startsAt)
    /\ \A o \in Orders : order[o].status \in {"NONE", "CREATED"} => sub[o].status = "NONE"
    /\ \A o \in Orders : order[o].status = "CREATED" => Future
    /\ tierExpiresAt <= today \/ Promised(tierExpiresAt)

\* No order is paid by two requests, and a running plan that a payment read and the
\* cron has on its list was started today.
PayApart(h) ==
    At(h, "PAY") =>
        /\ h \in Payers
        /\ \A g \in Handlers \ {h} : At(g, "PAY") => job[g].order \cap job[h].order = {}
        /\ job[h].row.status = "ACTIVE" =>
             \A g \in Handlers : job[h].current \cap job[g].due # {}
                                   => job[h].row.expiresAt = After(today)

DatesInv ==
    /\ Tables
    /\ \A h \in Handlers : GoodJob(job[h]) /\ PayApart(h)

-----------------------------------------------------------------------------
(* Steps in which plans only end *)

Fades(o) ==
    /\ sub'[o].startsAt = sub[o].startsAt /\ sub'[o].expiresAt = sub[o].expiresAt
    /\ \/ sub'[o].status = sub[o].status
       \/ /\ sub'[o].status \in {"CANCELLED", "EXPIRED"}
          /\ sub[o].status = "SCHEDULED" \/ (sub[o].status = "ACTIVE" /\ sub[o].expiresAt < today)

\* What a request may turn into without reading the plans for a payment, or starting one.
Moves(g) ==
    \/ job'[g] = job[g]
    \/ /\ job'[g].at \notin {"PAY", "GRANT"}
       /\ job'[g].due # {} => job'[g].at = "START"
       /\ \A o \in job'[g].due : \/ o \in job[g].due
                                 \/ o \in Orders /\ sub[o].status = "SCHEDULED" /\ sub[o].startsAt <= today
       /\ job'[g].at \in Ordering => Future

(* Dates and the present day are numbers. *)
LEMMA DatesAreInts ==
    ASSUME TypeOK
    PROVE  /\ today \in Nat /\ tierExpiresAt \in Int /\ After(today) \in Nat /\ After(today) > today
           /\ \A o \in Orders : /\ sub[o] \in Sub
                                /\ sub[o].startsAt \in Int /\ sub[o].expiresAt \in Int
                                /\ After(sub[o].startsAt) \in Int
           /\ \A h \in Handlers : /\ job[h] \in Job
                                  /\ job[h].row.startsAt \in Int /\ job[h].row.expiresAt \in Int
                                  /\ After(job[h].row.startsAt) \in Int
BY DEF TypeOK, Sub, Job, Days, After, SUBSCRIPTION_DURATION_DAYS

(* What waits for a later day still does when plans only end. *)
LEMMA FutureStays ==
    ASSUME Future, \A o \in Orders : Fades(o), today' = today
    PROVE  Future'
BY DEF Future, Fades

(* A plan that runs longer than today still runs. *)
LEMMA PromiseStays ==
    ASSUME TypeOK, \A o \in Orders : Fades(o), NEW d \in Int, d >= today, NEW w \in Orders,
           sub[w].status = "ACTIVE", sub[w].expiresAt >= d
    PROVE  sub'[w].status = "ACTIVE" /\ sub'[w].expiresAt >= d
BY DatesAreInts DEF Fades

(* Steps in which plans only end keep the dates in order. *)
LEMMA FadeKeeps ==
    ASSUME TypeOK, TypeOK', DatesInv, today' = today,
           \A o \in Orders : Fades(o),
           \A g \in Handlers : Moves(g),
           \/ tierExpiresAt' <= today
           \/ tierExpiresAt' = tierExpiresAt
           \/ \E w \in Orders : sub[w].status = "ACTIVE" /\ sub[w].expiresAt >= tierExpiresAt',
           \A o \in Orders :
             /\ order'[o].status \in {"NONE", "CREATED"} => order[o].status \in {"NONE", "CREATED"}
             /\ order'[o].status = "CREATED" => order[o].status = "CREATED" \/ Future
             /\ order[o].status = "CREATED" =>
                  order'[o].status = "CREATED" \/ \A g \in Payers : o \notin job[g].order
    PROVE  DatesInv'
<1>0. After(today)' = After(today) BY DEF After
<1>i. /\ today \in Nat /\ tierExpiresAt \in Int /\ After(today) \in Nat /\ After(today) > today
      /\ \A o \in Orders : /\ sub[o].startsAt \in Int /\ sub[o].expiresAt \in Int
      /\ tierExpiresAt' \in Int
  BY DatesAreInts DEF TypeOK, Days
<1>1. Tables'
  <2>1. \A o \in Orders : sub'[o].status = "SCHEDULED" => sub'[o].expiresAt = After(sub'[o].startsAt)
    BY DEF DatesInv, Tables, Fades
  <2>2. \A o \in Orders : order'[o].status \in {"NONE", "CREATED"} => sub'[o].status = "NONE"
    BY DEF DatesInv, Tables, Fades
  <2>3. \A o \in Orders : order'[o].status = "CREATED" => Future'
    BY FutureStays DEF DatesInv, Tables
  <2>4. tierExpiresAt' <= today' \/ Promised(tierExpiresAt)'
    <3>1. SUFFICES ASSUME tierExpiresAt' > today PROVE Promised(tierExpiresAt)'
      BY <1>i
    <3>2. PICK w \in Orders : sub[w].status = "ACTIVE" /\ sub[w].expiresAt >= tierExpiresAt'
      BY <1>i, <3>1 DEF DatesInv, Tables, Promised
    <3>3. sub'[w].status = "ACTIVE" /\ sub'[w].expiresAt >= tierExpiresAt'
      BY <1>i, <3>1, <3>2 DEF Fades
    <3> QED BY <3>3 DEF Promised
  <2> QED BY <2>1, <2>2, <2>3, <2>4 DEF Tables
<1>2. ASSUME NEW h \in Handlers PROVE GoodJob(job[h])'
  <2>0. GoodJob(job[h]) /\ PayApart(h) /\ Moves(h) BY DEF DatesInv
  <2>1. job'[h].due # {} => job'[h].at \in {"START", "GRANT"} BY <2>0 DEF GoodJob, Moves
  <2>2. ASSUME NEW o \in job'[h].due PROVE DueRow(o)'
    <3>1. DueRow(o) \/ (o \in Orders /\ sub[o].status = "SCHEDULED" /\ sub[o].startsAt <= today)
      BY <2>0 DEF GoodJob, Moves
    <3> QED BY <1>0, <1>i, <3>1 DEF DueRow, Fades
  <2>3. job'[h].at \in Ordering => Future'
    BY <2>0, FutureStays DEF GoodJob, Moves
  <2>4. ASSUME job'[h].at = "GRANT" PROVE Promised(After(today))'
    <3>1. PICK w \in Orders : sub[w].status = "ACTIVE" /\ sub[w].expiresAt >= After(today)
      BY <2>0, <2>4 DEF GoodJob, Moves, Promised
    <3>2. sub'[w].status = "ACTIVE" /\ sub'[w].expiresAt >= After(today)
      BY <1>i, <3>1 DEF Fades
    <3> QED BY <1>0, <3>2 DEF Promised
  <2>5. ASSUME job'[h].at = "PAY"
        PROVE  /\ \A o \in job'[h].order : order'[o].status = "CREATED"
               /\ job'[h].current = {} => job'[h].row = NoSub
               /\ \A c \in job'[h].current : ReadRow(job[h].row, c)'
    <3>1. job'[h] = job[h] /\ At(h, "PAY") BY <2>0, <2>5 DEF Moves, At
    <3>2. job[h].current \subseteq Orders /\ job[h].order \subseteq Orders
      BY DatesAreInts DEF Job
    <3>3. h \in Payers BY <2>0, <3>1 DEF PayApart
    <3>4. \A o \in job[h].order : order'[o].status = "CREATED"
      BY <2>0, <3>1, <3>2, <3>3 DEF GoodJob, At
    <3>5. ASSUME NEW c \in job[h].current PROVE ReadRow(job[h].row, c)'
      <4>1. ReadRow(job[h].row, c) BY <2>0, <3>1 DEF GoodJob, At
      <4>2. Fades(c) BY <3>2
      <4> QED BY <3>1, <4>1, <4>2 DEF ReadRow, Fades, HeldStatuses
    <3>6. job[h].current = {} => job[h].row = NoSub BY <2>0, <3>1 DEF GoodJob, At
    <3> QED BY <3>1, <3>4, <3>5, <3>6
  <2> QED BY <2>1, <2>2, <2>3, <2>4, <2>5 DEF GoodJob
<1>3. ASSUME NEW h \in Handlers PROVE PayApart(h)'
  <2>1. SUFFICES ASSUME At(h, "PAY")'
        PROVE  /\ h \in Payers
               /\ \A g \in Handlers \ {h} : At(g, "PAY")' => job'[g].order \cap job'[h].order = {}
               /\ job'[h].row.status = "ACTIVE" =>
                    \A g \in Handlers : job'[h].current \cap job'[g].due # {}
                                          => job'[h].row.expiresAt = After(today)'
    BY DEF PayApart
  <2>2. \A g \in Handlers : At(g, "PAY")' => job'[g] = job[g] /\ At(g, "PAY")
    BY DEF Moves, At
  <2>3. job'[h] = job[h] /\ At(h, "PAY") BY <2>1, <2>2
  <2>4. PayApart(h) /\ GoodJob(job[h]) BY DEF DatesInv
  <2>5. \A g \in Handlers \ {h} : At(g, "PAY")' => job'[g].order \cap job'[h].order = {}
    BY <2>2, <2>3, <2>4 DEF PayApart
  <2>6. ASSUME job[h].row.status = "ACTIVE", NEW g \in Handlers, NEW c \in job[h].current,
               c \in job'[g].due
        PROVE  job[h].row.expiresAt = After(today)
    <3>1. sub[c].status # "SCHEDULED" BY <2>3, <2>4, <2>6 DEF GoodJob, ReadRow, At
    <3>2. c \in job[g].due BY <2>6, <3>1 DEF Moves
    <3>3. job[h].current \cap job[g].due # {} BY <2>6, <3>2
    <3> QED BY <2>3, <2>4, <2>6, <3>3 DEF PayApart
  <2>7. h \in Payers BY <2>3, <2>4 DEF PayApart
  <2> QED BY <1>0, <2>3, <2>5, <2>6, <2>7
<1> QED BY <1>1, <1>2, <1>3 DEF DatesInv

-----------------------------------------------------------------------------
(* The other steps *)

(* A payment reads: no order is paid twice, and the row it has is the table's. *)
LEMMA PayReadKeeps ==
    ASSUME TypeOK, TypeOK', DatesInv, NEW h \in Payers, NEW o \in Orders, PayRead(h, o)
    PROVE  DatesInv'
<1>0. After(today)' = After(today) /\ UNCHANGED <<tierExpiresAt, order, sub, today>>
  BY DEF After, PayRead, rows, users, Env
<1>1. h \in Handlers /\ job[h] = NoJob BY DEF Handlers, PayRead, Start
<1>2. \A g \in Handlers \ {h} : job'[g] = job[g] BY DEF PayRead, Start, Set, TypeOK
<1>3. PICK c \in SUBSET Orders :
        /\ job'[h].at = "PAY" /\ job'[h].order = {o} /\ job'[h].due = {} /\ job'[h].current = c
        /\ c = {} => job'[h].row = NoSub
        /\ \A x \in c : job'[h].row = sub[x] /\ sub[x].status \in HeldStatuses
  <2>1. \A x \in Latest(InStatus({"ACTIVE", "SCHEDULED"})) : x \in Orders /\ sub[x].status \in HeldStatuses
    BY DEF Latest, InStatus, HeldStatuses
  <2>2. CASE Start(h, [NoJob EXCEPT !.at = "PAY", !.order = {o}])
    <3>1. job'[h] = [NoJob EXCEPT !.at = "PAY", !.order = {o}] BY <1>1, <2>2 DEF Start, Set, TypeOK
    <3>2. /\ job'[h].at = "PAY" /\ job'[h].order = {o} /\ job'[h].due = {} /\ job'[h].current = {}
          /\ job'[h].row = NoSub
      BY <3>1 DEF NoJob
    <3> QED BY <3>2
  <2>3. CASE \E x \in Latest(InStatus({"ACTIVE", "SCHEDULED"})) :
               Start(h, [NoJob EXCEPT !.at = "PAY", !.order = {o}, !.current = {x}, !.row = sub[x]])
    <3>1. PICK x \in Latest(InStatus({"ACTIVE", "SCHEDULED"})) :
            Start(h, [NoJob EXCEPT !.at = "PAY", !.order = {o}, !.current = {x}, !.row = sub[x]])
      BY <2>3
    <3>2. job'[h] = [NoJob EXCEPT !.at = "PAY", !.order = {o}, !.current = {x}, !.row = sub[x]]
      BY <1>1, <3>1 DEF Start, Set, TypeOK
    <3>3. /\ job'[h].at = "PAY" /\ job'[h].order = {o} /\ job'[h].due = {} /\ job'[h].current = {x}
          /\ job'[h].row = sub[x]
      BY <3>2 DEF NoJob
    <3> QED BY <2>1, <3>3
  <2> QED BY <2>2, <2>3 DEF PayRead
<1>4. order[o].status = "CREATED" /\ Future /\ \A g \in Payers : o \notin job[g].order
  BY DEF PayRead, Lock, DatesInv, Tables
<1>5. Tables' BY <1>0 DEF DatesInv, Tables, Future, Promised, After
<1>6. ASSUME NEW g \in Handlers \ {h} PROVE GoodJob(job[g])'
  BY <1>0, <1>2 DEF DatesInv, GoodJob, DueRow, Future, Promised, ReadRow, After
<1>7. GoodJob(job[h])'
  <2>1. \A x \in c : ReadRow(job[h].row, x)'
    BY <1>0, <1>3, <1>4, DatesAreInts DEF ReadRow, HeldStatuses, Future, DatesInv, Tables, After
  <2>2. Future' BY <1>0, <1>4 DEF Future
  <2> QED BY <1>0, <1>3, <1>4, <2>1, <2>2 DEF GoodJob
<1>8. ASSUME NEW g \in Handlers PROVE PayApart(g)'
  <2>0. DatesInv => GoodJob(job[g]) /\ PayApart(g) BY DEF DatesInv
  <2>1. CASE g = h
    <3>1. \A f \in Handlers \ {h} : At(f, "PAY")' => f \in Payers
      BY <1>2 DEF At, DatesInv, PayApart
    <3>2. \A f \in Handlers \ {h} : At(f, "PAY")' => job'[f].order \cap job'[h].order = {}
      BY <1>2, <1>3, <1>4, <3>1
    <3>3. ASSUME job'[h].row.status = "ACTIVE", NEW f \in Handlers, NEW x \in job'[h].current,
                 x \in job'[f].due
          PROVE  job'[h].row.expiresAt = After(today)
      <4>1. f # h /\ x \in job[f].due BY <1>2, <1>3, <3>3
      <4>2. DueRow(x) BY <4>1 DEF DatesInv, GoodJob
      <4> QED BY <1>3, <3>3, <4>2 DEF DueRow
    <3> QED BY <1>0, <2>1, <3>2, <3>3 DEF PayApart
  <2>2. CASE g # h
    <3>1. SUFFICES ASSUME At(g, "PAY")' PROVE PayApart(g)'
      BY DEF PayApart
    <3>2. job'[g] = job[g] /\ At(g, "PAY") /\ g \in Payers
      BY <1>2, <2>0, <2>2, <3>1 DEF At, PayApart
    <3>3. \A f \in Handlers \ {g} : At(f, "PAY")' => job'[f].order \cap job'[g].order = {}
      BY <1>2, <1>3, <1>4, <2>0, <3>2 DEF At, PayApart
    <3>4. \A f \in Handlers : job'[f].due \subseteq job[f].due
      BY <1>2, <1>3
    <3>5. job[g].row.status = "ACTIVE" =>
             \A f \in Handlers : job[g].current \cap job'[f].due # {} => job[g].row.expiresAt = After(today)
      BY <2>0, <3>2, <3>4 DEF PayApart
    <3> QED BY <1>0, <3>2, <3>3, <3>5 DEF PayApart
  <2> QED BY <2>1, <2>2
<1> QED BY <1>5, <1>6, <1>7, <1>8 DEF DatesInv

(* What a payment does to the other rows: they end as they may, or the row it read ends *)
(* today and its own plan runs no shorter.                                            *)
Replaces(h, o) ==
    \A p \in Orders \ {o} :
       \/ Fades(p)
       \/ /\ p \in job[h].current /\ sub'[p].startsAt = sub[p].startsAt /\ sub'[p].status = "CANCELLED"
          /\ sub'[o].status = "ACTIVE"
          /\ sub[p].status = "ACTIVE" /\ sub[p].expiresAt > today
               => sub'[o].expiresAt >= sub[p].expiresAt

(* A payment keeps the dates in order, whichever of the four it is. *)
LEMMA PayKeeps ==
    ASSUME TypeOK, TypeOK', DatesInv, NEW h \in Payers, NEW o \in Orders, NEW t \in Tiers,
           Pay(h, o, t), Replaces(h, o),
           \/ sub'[o].status = "ACTIVE" /\ tierExpiresAt' = sub'[o].expiresAt
           \/ /\ sub'[o].status = "SCHEDULED" /\ sub'[o].expiresAt = After(sub'[o].startsAt)
              /\ sub'[o].startsAt >= today
              /\ tierExpiresAt' = tierExpiresAt
    PROVE  DatesInv'
<1>0. After(today)' = After(today) /\ today' = today BY DEF After, Pay, Env
<1>h. h \in Handlers /\ At(h, "PAY") /\ o \in job[h].order BY DEF Handlers, Pay
<1>i. /\ today \in Nat /\ tierExpiresAt \in Int /\ After(today) \in Nat /\ After(today) > today
      /\ \A p \in Orders : /\ sub[p].startsAt \in Int /\ sub[p].expiresAt \in Int
      /\ \A p \in Orders : /\ sub'[p].startsAt \in Int /\ sub'[p].expiresAt \in Int
      /\ \A g \in Handlers : job[g] \in Job
      /\ tierExpiresAt' \in Int
  BY DatesAreInts DEF TypeOK, Days, Sub
<1>1. /\ order[o].status = "CREATED" /\ sub[o].status = "NONE" /\ Future
      /\ order'[o].status = "COMPLETED"
      /\ \A p \in Orders \ {o} : order'[p] = order[p]
  BY <1>h DEF Pay, DatesInv, GoodJob, Tables, At, TypeOK
<1>2. job'[h] = NoJob /\ \A g \in Handlers \ {h} : job'[g] = job[g]
  BY <1>h DEF Pay, Done, Set, TypeOK
<1>3. Future'
  BY <1>0, <1>1 DEF Future, Replaces, Fades
<1>4. ASSUME NEW d \in Int, d > today,
             \E w \in Orders : sub[w].status = "ACTIVE" /\ sub[w].expiresAt >= d
      PROVE  \E w \in Orders : sub'[w].status = "ACTIVE" /\ sub'[w].expiresAt >= d
  <2>1. PICK w \in Orders : sub[w].status = "ACTIVE" /\ sub[w].expiresAt >= d BY <1>4
  <2>2. w # o BY <1>1, <2>1
  <2>3. CASE Fades(w)
    <3>1. sub'[w].status = "ACTIVE" /\ sub'[w].expiresAt >= d BY <1>4, <1>i, <2>1, <2>3 DEF Fades
    <3> QED BY <3>1
  <2>4. CASE ~Fades(w)
    <3>1. sub'[o].status = "ACTIVE" /\ sub'[o].expiresAt >= sub[w].expiresAt
      BY <1>4, <1>i, <2>1, <2>2, <2>4 DEF Replaces
    <3>2. sub'[o].expiresAt >= d BY <1>i, <2>1, <3>1
    <3> QED BY <3>1, <3>2
  <2> QED BY <2>3, <2>4
<1>5. Tables'
  <2>1. \A p \in Orders : sub'[p].status = "SCHEDULED" => sub'[p].expiresAt = After(sub'[p].startsAt)
    BY DEF DatesInv, Tables, Fades, Replaces
  <2>2. \A p \in Orders : order'[p].status \in {"NONE", "CREATED"} => sub'[p].status = "NONE"
    <3>1. ASSUME NEW p \in Orders \ {o}, order'[p].status \in {"NONE", "CREATED"}
          PROVE  sub'[p].status = "NONE"
      <4>1. sub[p].status = "NONE" BY <1>1, <3>1 DEF DatesInv, Tables
      <4>2. p \notin job[h].current
        BY <1>h, <4>1 DEF DatesInv, GoodJob, ReadRow, At
      <4> QED BY <4>1, <4>2 DEF Replaces, Fades
    <3> QED BY <1>1, <3>1
  <2>3. tierExpiresAt' <= today' \/ Promised(tierExpiresAt)'
    <3>1. CASE sub'[o].status = "ACTIVE" /\ tierExpiresAt' = sub'[o].expiresAt
      BY <1>i, <3>1 DEF Promised
    <3>2. CASE tierExpiresAt' = tierExpiresAt
      BY <1>0, <1>4, <1>i, <3>2 DEF DatesInv, Tables, Promised
    <3> QED BY <3>1, <3>2
  <2> QED BY <1>3, <2>1, <2>2, <2>3 DEF Tables
<1>6. ASSUME NEW g \in Handlers \ {h} PROVE GoodJob(job[g])'
  <2>0. GoodJob(job[g]) /\ PayApart(g) /\ PayApart(h) /\ job'[g] = job[g] BY <1>2, <1>h DEF DatesInv
  <2>1. \A p \in job[g].due : DueRow(p)'
    <3>1. ASSUME NEW p \in job[g].due PROVE DueRow(p)'
      <4>1. DueRow(p) /\ p # o /\ p \in Orders BY <1>1, <2>0 DEF GoodJob, DueRow
      <4> QED BY <1>0, <1>i, <4>1 DEF DueRow, Replaces, Fades
    <3> QED BY <3>1
  <2>2. job[g].at = "GRANT" => Promised(After(today))'
    <3>1. job[g].at = "GRANT" => \E w \in Orders : sub[w].status = "ACTIVE" /\ sub[w].expiresAt >= After(today)
      BY <2>0 DEF GoodJob, Promised
    <3> QED BY <1>0, <1>4, <1>i, <3>1 DEF Promised
  <2>3. ASSUME job[g].at = "PAY"
        PROVE  /\ \A p \in job[g].order : order'[p].status = "CREATED"
               /\ job[g].current = {} => job[g].row = NoSub
               /\ \A c \in job[g].current : ReadRow(job[g].row, c)'
    <3>1. o \notin job[g].order BY <1>h, <2>0, <2>3 DEF PayApart, At
    <3>2. job[g].current \subseteq Orders /\ job[g].order \subseteq Orders BY <1>i DEF Job
    <3>3. \A p \in job[g].order : order'[p].status = "CREATED"
      BY <1>1, <2>0, <2>3, <3>1, <3>2 DEF GoodJob
    <3>4. ASSUME NEW c \in job[g].current PROVE ReadRow(job[g].row, c)'
      <4>1. ReadRow(job[g].row, c) /\ c \in Orders BY <2>0, <2>3, <3>2 DEF GoodJob
      <4>2. c # o BY <1>1, <4>1 DEF ReadRow
      <4> QED BY <1>0, <2>0, <4>1, <4>2 DEF ReadRow, Replaces, Fades, HeldStatuses, After
    <3> QED BY <2>0, <2>3, <3>3, <3>4 DEF GoodJob
  <2> QED BY <1>3, <2>0, <2>1, <2>2, <2>3 DEF GoodJob
<1>7. GoodJob(job[h])' BY <1>2 DEF GoodJob, NoJob, Ordering
<1>8. ASSUME NEW g \in Handlers PROVE PayApart(g)'
  <2>1. \A f \in Handlers : At(f, "PAY")' => f # h /\ job'[f] = job[f] /\ At(f, "PAY")
    BY <1>2 DEF At, NoJob
  <2>2. \A f \in Handlers : job'[f].due \subseteq job[f].due BY <1>2 DEF NoJob
  <2>3. PayApart(g) BY DEF DatesInv
  <2> QED BY <1>0, <2>1, <2>2, <2>3 DEF PayApart
<1> QED BY <1>5, <1>6, <1>7, <1>8 DEF DatesInv

(* The new row of a payment, and the row of the current plan when it is replaced. *)
LEMMA PayWriteKeeps ==
    ASSUME TypeOK, TypeOK', DatesInv, NEW h \in Payers, NEW o \in Orders, NEW t \in Tiers,
           PayExtend(h, o, t) \/ PayUpgrade(h, o, t) \/ PayDowngrade(h, o, t)
    PROVE  DatesInv'
<1>p. Pay(h, o, t) BY DEF PayExtend, PayUpgrade, PayDowngrade
<1>h. h \in Handlers /\ At(h, "PAY") BY <1>p DEF Handlers, Pay
<1>i. /\ today \in Nat /\ After(today) \in Nat /\ job[h].row.expiresAt \in Int
      /\ sub \in [Orders -> Sub] /\ job[h].current \subseteq Orders
      /\ \A p \in Orders : sub[p].expiresAt \in Int
  BY <1>h, DatesAreInts DEF TypeOK, Job
<1>r. /\ job[h].current = {} => job[h].row = NoSub
      /\ \A c \in job[h].current : ReadRow(job[h].row, c)
  BY <1>h DEF DatesInv, GoodJob, At
<1>o. o \notin job[h].current
  <2>1. order[o].status = "CREATED" BY <1>h, <1>p DEF Pay, DatesInv, GoodJob, At
  <2>2. sub[o].status = "NONE" BY <2>1 DEF DatesInv, Tables
  <2> QED BY <1>r, <2>2 DEF ReadRow
<1>1. CASE PayExtend(h, o, t)
  <2> DEFINE from == IF job[h].row.status = "ACTIVE" /\ job[h].row.expiresAt > today
                     THEN job[h].row.expiresAt ELSE today
  <2>1. /\ sub' = [sub EXCEPT ![o] = NewRow(t, "ACTIVE", from, After(from))]
        /\ tierExpiresAt' = After(from)
    BY <1>1 DEF PayExtend
  <2>2. /\ sub'[o].status = "ACTIVE" /\ tierExpiresAt' = sub'[o].expiresAt
        /\ \A p \in Orders \ {o} : sub'[p] = sub[p]
    BY <1>i, <2>1 DEF NewRow
  <2>3. Replaces(h, o) BY <2>2 DEF Replaces, Fades
  <2> QED BY <1>p, <2>2, <2>3, PayKeeps
<1>2. CASE PayUpgrade(h, o, t)
  <2> DEFINE end == IF job[h].row.expiresAt <= today THEN After(today) ELSE job[h].row.expiresAt
             next == InStatus({"SCHEDULED"}) \ job[h].current
  <2>1. PICK s \in IF next = {} THEN {{}} ELSE {{p} : p \in next} :
          sub' = [p \in Orders |->
            CASE p = o -> NewRow(t, "ACTIVE", today, end)
              [] p \in job[h].current ->
                    [sub[p] EXCEPT !.status = "CANCELLED", !.autoRenew = FALSE,
                                   !.expiresAt = today]
              [] p \in s -> [sub[p] EXCEPT !.status = "CANCELLED"]
              [] OTHER -> sub[p]]
    BY <1>2 DEF PayUpgrade
  <2>2. s \subseteq next BY <2>1
  <2>3. \A p \in s : sub[p].status = "SCHEDULED" /\ p \notin job[h].current
    BY <2>2 DEF InStatus
  <2>4. sub'[o].status = "ACTIVE" /\ sub'[o].expiresAt = end /\ tierExpiresAt' = end
    <3>1. o \notin s
      <4>1. order[o].status = "CREATED" BY <1>h, <1>p DEF Pay, DatesInv, GoodJob, At
      <4>2. sub[o].status = "NONE" BY <4>1 DEF DatesInv, Tables
      <4> QED BY <2>3, <4>2
    <3>2. sub'[o] = NewRow(t, "ACTIVE", today, end) BY <1>o, <2>1, <3>1
    <3>3. tierExpiresAt' = end BY <1>2 DEF PayUpgrade
    <3> QED BY <3>2, <3>3 DEF NewRow
  <2>5. ASSUME NEW p \in Orders \ {o}
        PROVE  \/ Fades(p)
               \/ /\ p \in job[h].current /\ sub'[p].startsAt = sub[p].startsAt
                  /\ sub'[p].status = "CANCELLED"
                  /\ sub'[o].status = "ACTIVE"
                  /\ sub[p].status = "ACTIVE" /\ sub[p].expiresAt > today
                       => sub'[o].expiresAt >= sub[p].expiresAt
    <3>0. sub[p] \in Sub BY <1>i
    <3>1. CASE p \in job[h].current
      <4>1. sub'[p] = [sub[p] EXCEPT !.status = "CANCELLED", !.autoRenew = FALSE, !.expiresAt = today]
        BY <2>1, <2>3, <3>1
      <4>2. sub'[p].startsAt = sub[p].startsAt /\ sub'[p].status = "CANCELLED"
        BY <3>0, <4>1 DEF Sub
      <4>3. sub[p].status = "ACTIVE" => sub[p].expiresAt = job[h].row.expiresAt
        BY <1>r, <3>1 DEF ReadRow, HeldStatuses
      <4>4. sub[p].status = "ACTIVE" /\ sub[p].expiresAt > today => end >= sub[p].expiresAt
        BY <1>i, <4>3
      <4> QED BY <2>4, <3>1, <4>2, <4>4
    <3>2. CASE p \notin job[h].current /\ p \in s
      <4>1. sub'[p] = [sub[p] EXCEPT !.status = "CANCELLED"] BY <2>1, <3>2
      <4> QED BY <2>3, <3>0, <3>2, <4>1 DEF Fades, Sub
    <3>3. CASE p \notin job[h].current /\ p \notin s
      <4>1. sub'[p] = sub[p] BY <2>1, <3>3
      <4> QED BY <4>1 DEF Fades
    <3> QED BY <3>1, <3>2, <3>3
  <2>6. Replaces(h, o) BY <2>5 DEF Replaces
  <2> QED BY <1>p, <2>4, <2>6, PayKeeps
<1>3. CASE PayDowngrade(h, o, t)
  <2>1. sub' = [p \in Orders |->
            CASE p = o -> NewRow(t, "SCHEDULED", job[h].row.expiresAt, After(job[h].row.expiresAt))
              [] p \in job[h].current -> [sub[p] EXCEPT !.autoRenew = FALSE]
              [] OTHER -> sub[p]]
    BY <1>3 DEF PayDowngrade
  <2>2. /\ sub'[o].status = "SCHEDULED" /\ sub'[o].startsAt = job[h].row.expiresAt
        /\ sub'[o].expiresAt = After(job[h].row.expiresAt)
    <3>1. sub'[o] = NewRow(t, "SCHEDULED", job[h].row.expiresAt, After(job[h].row.expiresAt))
      BY <1>o, <2>1
    <3> QED BY <3>1 DEF NewRow
  <2>3. ASSUME NEW p \in Orders \ {o} PROVE Fades(p)
    <3>0. sub[p] \in Sub BY <1>i
    <3>1. sub'[p] = sub[p] \/ sub'[p] = [sub[p] EXCEPT !.autoRenew = FALSE] BY <2>1
    <3> QED BY <3>0, <3>1 DEF Fades, Sub
  <2>4. job[h].row.expiresAt >= today
    <3>1. job[h].row # NoSub /\ ~(job[h].row.status = "ACTIVE" /\ job[h].row.expiresAt < today)
      BY <1>3 DEF PayDowngrade, Mode
    <3>2. PICK c \in job[h].current : ReadRow(job[h].row, c) BY <1>r, <3>1
    <3>3. CASE job[h].row.status = "ACTIVE" BY <1>i, <3>1, <3>3
    <3>4. CASE job[h].row.status = "SCHEDULED"
      <4>1. /\ job[h].row.startsAt \in Int /\ job[h].row.startsAt >= today
            /\ job[h].row.expiresAt = After(job[h].row.startsAt)
        BY <1>h, <3>2, <3>4, DatesAreInts DEF ReadRow
      <4> QED BY <1>i, <4>1 DEF After, SUBSCRIPTION_DURATION_DAYS
    <3> QED BY <3>2, <3>3, <3>4 DEF ReadRow, HeldStatuses
  <2>5. tierExpiresAt' = tierExpiresAt BY <1>3 DEF PayDowngrade, users
  <2>6. Replaces(h, o) BY <2>3 DEF Replaces
  <2> QED BY <1>p, <2>2, <2>4, <2>5, <2>6, PayKeeps
<1> QED BY <1>1, <1>2, <1>3

(* The cron starts a plan on its list, by id: it runs for a month from today, which is    *)
(* what every payment that read it knows.                                                *)
LEMMA ActivateRowKeeps ==
    ASSUME TypeOK, TypeOK', DatesInv, NEW h \in Handlers, NEW o \in Orders, ActivateRow(h, o)
    PROVE  DatesInv'
<1>0. After(today)' = After(today) /\ UNCHANGED <<tierExpiresAt, order, today>>
  BY DEF After, ActivateRow, users, Env
<1>i. /\ today \in Nat /\ tierExpiresAt \in Int /\ After(today) \in Nat /\ After(today) > today
      /\ \A p \in Orders : /\ sub[p].startsAt \in Int /\ sub[p].expiresAt \in Int /\ sub[p] \in Sub
      /\ job[h] \in Job
  BY DatesAreInts
<1>1. At(h, "START") /\ o \in job[h].due /\ DueRow(o)
  BY DEF ActivateRow, DatesInv, GoodJob
<1>2. /\ sub'[o].status = "ACTIVE" /\ sub'[o].startsAt = sub[o].startsAt
      /\ sub'[o].expiresAt = After(today)
      /\ \A p \in Orders \ {o} : sub'[p] = sub[p]
  <2>1. (IF sub[o].startsAt > today THEN sub[o].startsAt ELSE today) = today
    BY <1>1, <1>i DEF DueRow
  <2>2. sub' = [sub EXCEPT ![o].status = "ACTIVE", ![o].expiresAt = After(today)]
    BY <2>1 DEF ActivateRow
  <2> QED BY <1>i, <2>2 DEF TypeOK, Sub
<1>3. /\ job'[h].at = "GRANT" /\ job'[h].due = job[h].due \ {o}
      /\ \A g \in Handlers \ {h} : job'[g] = job[g]
  <2>1. job'[h] = [job[h] EXCEPT !.at = "GRANT", !.order = {o}, !.due = @ \ {o}]
    BY DEF ActivateRow, Set, TypeOK
  <2>2. job'[h].at = "GRANT" /\ job'[h].due = job[h].due \ {o}
    BY <1>i, <2>1 DEF Job
  <2> QED BY <2>2 DEF ActivateRow, Set, TypeOK
<1>4. Future => Future' BY <1>0, <1>2 DEF Future
<1>5. ASSUME NEW d \in Int, \E w \in Orders : sub[w].status = "ACTIVE" /\ sub[w].expiresAt >= d
      PROVE  \E w \in Orders : sub'[w].status = "ACTIVE" /\ sub'[w].expiresAt >= d
  BY <1>1, <1>2, <1>5 DEF DueRow
<1>6. Tables'
  <2>1. \A p \in Orders : sub'[p].status = "SCHEDULED" => sub'[p].expiresAt = After(sub'[p].startsAt)
    BY <1>2 DEF DatesInv, Tables
  <2>2. \A p \in Orders : order'[p].status \in {"NONE", "CREATED"} => sub'[p].status = "NONE"
    BY <1>0, <1>1, <1>2 DEF DatesInv, Tables, DueRow
  <2>3. tierExpiresAt' <= today' \/ Promised(tierExpiresAt)'
    BY <1>0, <1>5, <1>i DEF DatesInv, Tables, Promised
  <2> QED BY <1>0, <1>4, <2>1, <2>2, <2>3 DEF DatesInv, Tables
<1>7. ASSUME NEW g \in Handlers, NEW p, DueRow(p) PROVE DueRow(p)'
  BY <1>0, <1>1, <1>2, <1>7 DEF DueRow
<1>8. ASSUME NEW g \in Handlers \ {h} PROVE GoodJob(job[g])'
  <2>0. GoodJob(job[g]) /\ PayApart(g) /\ job'[g] = job[g] BY <1>3 DEF DatesInv
  <2>1. \A p \in job[g].due : DueRow(p)' BY <1>7, <2>0 DEF GoodJob
  <2>2. job[g].at = "GRANT" => Promised(After(today))'
    BY <1>0, <1>5, <1>i, <2>0 DEF GoodJob, Promised
  <2>3. ASSUME job[g].at = "PAY", NEW c \in job[g].current PROVE ReadRow(job[g].row, c)'
    <3>1. ReadRow(job[g].row, c) BY <2>0, <2>3 DEF GoodJob
    <3>2. c \in Orders BY <2>3, DatesAreInts DEF Job
    <3>3. CASE c # o BY <1>0, <1>2, <2>0, <3>1, <3>2, <3>3 DEF ReadRow, After
    <3>4. CASE c = o
      <4>1. CASE job[g].row.status = "SCHEDULED"
        <5>1. job[g].row.startsAt = today /\ job[g].row.expiresAt = After(today)
          BY <1>1, <1>i, <3>1, <3>4, <4>1 DEF ReadRow, DueRow
        <5> QED BY <1>0, <1>2, <2>0, <3>1, <3>4, <4>1, <5>1 DEF ReadRow, After
      <4>2. CASE job[g].row.status = "ACTIVE"
        <5>1. job[g].row.expiresAt = After(today)
          BY <1>1, <2>0, <2>3, <3>4, <4>2 DEF PayApart, At
        <5> QED BY <1>0, <1>2, <2>0, <3>1, <3>4, <4>2, <5>1 DEF ReadRow
      <4> QED BY <3>1, <4>1, <4>2 DEF ReadRow, HeldStatuses
    <3> QED BY <3>3, <3>4
  <2>4. job[g].at = "PAY" => \A p \in job[g].order : order'[p].status = "CREATED"
    BY <1>0, <2>0 DEF GoodJob
  <2> QED BY <1>4, <2>0, <2>1, <2>2, <2>3, <2>4 DEF GoodJob
<1>9. GoodJob(job[h])'
  <2>1. \A p \in job'[h].due : DueRow(p)' BY <1>3, <1>7 DEF DatesInv, GoodJob
  <2>2. Promised(After(today))' BY <1>0, <1>2, <1>i DEF Promised
  <2> QED BY <1>3, <2>1, <2>2 DEF GoodJob, Ordering
<1>10. ASSUME NEW g \in Handlers PROVE PayApart(g)'
  <2>1. \A f \in Handlers : At(f, "PAY")' => f # h /\ job'[f] = job[f] /\ At(f, "PAY")
    BY <1>3 DEF At
  <2>2. \A f \in Handlers : job'[f].due \subseteq job[f].due BY <1>3
  <2>3. PayApart(g) BY DEF DatesInv
  <2> QED BY <1>0, <2>1, <2>2, <2>3 DEF PayApart
<1> QED BY <1>6, <1>8, <1>9, <1>10 DEF DatesInv

(* A day passes while no request runs, and no order outlives it. *)
LEMMA DayKeeps ==
    ASSUME TypeOK, TypeOK', DatesInv, DayPasses
    PROVE  DatesInv'
<1>i. today \in Nat /\ today' \in Nat /\ today' >= today /\ tierExpiresAt \in Int
  BY DatesAreInts, MembershipAssumption DEF DayPasses
<1>1. UNCHANGED <<tierExpiresAt, sub, job>> BY DEF DayPasses, users
<1>2. \A o \in Orders : /\ order'[o].status # "CREATED"
                        /\ order'[o].status = "NONE" => order[o].status = "NONE"
  <2>1. ASSUME NEW o \in Orders
        PROVE  /\ order'[o].status # "CREATED"
               /\ order'[o].status = "NONE" => order[o].status = "NONE"
    <3>1. order[o] \in Order BY DEF TypeOK
    <3>2. order'[o] = IF order[o].status = "CREATED"
                      THEN [order[o] EXCEPT !.status = "CANCELLED"] ELSE order[o]
      BY DEF DayPasses
    <3> QED BY <3>1, <3>2 DEF Order
  <2> QED BY <2>1
<1>3. Tables'
  BY <1>1, <1>2, <1>i DEF DatesInv, Tables, Promised, After
<1>4. ASSUME NEW h \in Handlers PROVE GoodJob(job[h])' /\ PayApart(h)'
  <2>1. job'[h].at = "IDLE" BY <1>1 DEF DayPasses, At
  <2>2. job'[h].due = {} BY <1>1, <2>1 DEF DatesInv, GoodJob
  <2> QED BY <2>1, <2>2 DEF GoodJob, PayApart, At, Ordering
<1> QED BY <1>3, <1>4 DEF DatesInv

-----------------------------------------------------------------------------
(* Every step *)

(* An order that was not used is made by a request before whose plans no older one waits. *)
LEMMA CreateKeeps ==
    ASSUME TypeOK, TypeOK', DatesInv, NEW h \in Handlers, NEW o \in Orders, NEW t, NEW n,
           Create(h, o, t, n), job[h].at \in {"CREATE", "REMIND"},
           Set(h, [job[h] EXCEPT !.at = "LINK", !.order = {o}])
    PROVE  DatesInv'
<1>1. GoodJob(job[h]) /\ Future /\ job[h] \in Job /\ job[h].due = {}
  BY DatesAreInts DEF DatesInv, GoodJob, Ordering
<1>2. /\ \A g \in Handlers \ {h} : job'[g] = job[g]
      /\ job'[h] = [job[h] EXCEPT !.at = "LINK", !.order = {o}]
  BY DEF Set, TypeOK
<1>3. \A g \in Handlers : Moves(g)
  <2>1. job'[h].at = "LINK" /\ job'[h].due = {} BY <1>1, <1>2 DEF Job
  <2> QED BY <1>2, <2>1 DEF Moves, Ordering
<1>4. order[o].status = "NONE" /\ \A p \in Orders \ {o} : order'[p] = order[p]
  BY DEF Create, Unused, NoOrder, TypeOK
<1>5. today' = today /\ tierExpiresAt' = tierExpiresAt /\ \A p \in Orders : Fades(p)
  BY DEF Create, Env, users, Fades
<1> QED BY <1>1, <1>3, <1>4, <1>5, FadeKeeps

LEMMA CustomerKeeps ==
    ASSUME TypeOK, TypeOK', DatesInv, NEW h \in Customers, CustomerStep(h)
    PROVE  DatesInv'
<1> USE DEF At, Env, rows, users, Done, Set, Start
<1>h. h \in Handlers /\ job[h] \in Job /\ GoodJob(job[h])
  BY DatesAreInts DEF Handlers, DatesInv
<1>n. NoJob.at = "IDLE" /\ NoJob.due = {} BY DEF NoJob
<1>q. ASSUME NEW j \in Job, job' = [job EXCEPT ![h] = j], j.at \notin {"PAY", "GRANT"}, j.due = {},
             j.at \in Ordering => Future
      PROVE  \A g \in Handlers : Moves(g)
  BY <1>h, <1>q DEF Moves, TypeOK
<1>j. NoJob \in Job BY DEF NoJob, NoSub, Job, Sub, Days, Tiers
<1>1. ASSUME NEW t \in Tiers, CheckoutRead(h, t) PROVE DatesInv'
  <2>1. Future BY <1>1 DEF CheckoutRead, InStatus, Future
  <2>2. [NoJob EXCEPT !.at = "CREATE", !.tier = t] \in Job BY <1>j DEF NoJob, Job
  <2>3. \A g \in Handlers : Moves(g)
    BY <1>1, <1>h, <2>1, <2>2 DEF CheckoutRead, Moves, TypeOK, NoJob, Ordering
  <2>4. \A p \in Orders : Fades(p) BY <1>1 DEF CheckoutRead, Fades
  <2> QED BY <1>1, <2>3, <2>4, FadeKeeps DEF CheckoutRead
<1>2. ASSUME NEW o \in Orders, CheckoutCreate(h, o) PROVE DatesInv'
  BY <1>2, <1>h, CreateKeeps DEF CheckoutCreate
<1>3. ASSUME NEW o \in Orders, CheckoutLink(h, o) PROVE DatesInv'
  <2>1. job[h].due = {} BY <1>3, <1>h DEF CheckoutLink, GoodJob
  <2>2. [job[h] EXCEPT !.at = "MARK"].at = "MARK" /\ [job[h] EXCEPT !.at = "MARK"].due = {}
    BY <1>h, <2>1 DEF Job
  <2>3. \A g \in Handlers : Moves(g)
    BY <1>3, <1>h, <1>n, <2>2 DEF CheckoutLink, Moves, TypeOK, Ordering
  <2>4. \A p \in Orders : Fades(p) BY <1>3 DEF CheckoutLink, Fades
  <2>5. \A p \in Orders : order'[p].status = order[p].status
    BY <1>3 DEF CheckoutLink, TypeOK, Order
  <2> QED BY <1>3, <2>3, <2>4, <2>5, FadeKeeps DEF CheckoutLink
<1>4. ASSUME NEW on \in BOOLEAN, ToggleRead(h, on) PROVE DatesInv'
  <2>1. PICK c : Start(h, [NoJob EXCEPT !.at = IF on THEN "TOGGLE_ON" ELSE "TOGGLE_OFF", !.current = {c}])
    BY <1>4 DEF ToggleRead
  <2>2. job'[h].at \in {"TOGGLE_ON", "TOGGLE_OFF"} /\ job'[h].due = {}
        /\ \A g \in Handlers \ {h} : job'[g] = job[g]
    BY <1>h, <2>1 DEF TypeOK, NoJob
  <2>3. \A g \in Handlers : Moves(g) BY <2>2 DEF Moves, Ordering
  <2>4. \A p \in Orders : Fades(p) BY <1>4 DEF ToggleRead, Fades
  <2> QED BY <1>4, <2>3, <2>4, FadeKeeps DEF ToggleRead
<1>5. CASE Toggle(h)
  <2>1. \A g \in Handlers : Moves(g)
    BY <1>5, <1>h, <1>n DEF Toggle, Moves, TypeOK, Ordering
  <2>2. ASSUME NEW p \in Orders PROVE Fades(p)
    <3>1. sub[p] \in Sub BY DEF TypeOK
    <3>2. sub'[p] = sub[p] \/ \E b \in BOOLEAN : sub'[p] = [sub[p] EXCEPT !.autoRenew = b]
      BY <1>5 DEF Toggle
    <3> QED BY <3>1, <3>2 DEF Fades, Sub
  <2> QED BY <1>5, <2>1, <2>2, FadeKeeps DEF Toggle
<1>6. CASE UnscheduleRead(h)
  <2>1. PICK c : Start(h, [NoJob EXCEPT !.at = "DROP", !.current = {c}])
    BY <1>6 DEF UnscheduleRead
  <2>2. job'[h].at = "DROP" /\ job'[h].due = {} /\ \A g \in Handlers \ {h} : job'[g] = job[g]
    BY <1>h, <2>1 DEF TypeOK, NoJob
  <2>3. \A g \in Handlers : Moves(g) BY <2>2 DEF Moves, Ordering
  <2>4. \A p \in Orders : Fades(p) BY <1>6 DEF UnscheduleRead, Fades
  <2> QED BY <1>6, <2>3, <2>4, FadeKeeps DEF UnscheduleRead
<1>7. CASE Unschedule(h)
  <2>0. job[h].due = {} BY <1>7, <1>h DEF Unschedule, GoodJob
  <2>1. [job[h] EXCEPT !.at = "RESUME", !.current = {}].at = "RESUME"
        /\ [job[h] EXCEPT !.at = "RESUME", !.current = {}].due = {}
    BY <1>h, <2>0 DEF Job
  <2>2. \A g \in Handlers : Moves(g)
    BY <1>7, <1>h, <1>n, <2>1 DEF Unschedule, Moves, TypeOK, Ordering
  <2>3. ASSUME NEW p \in Orders PROVE Fades(p)
    <3>1. sub[p] \in Sub BY DEF TypeOK
    <3>2. sub'[p] = sub[p] \/ (sub[p].status = "SCHEDULED" /\ sub'[p] = [sub[p] EXCEPT !.status = "CANCELLED"])
      BY <1>7 DEF Unschedule, TypeOK
    <3> QED BY <3>1, <3>2 DEF Fades, Sub
  <2> QED BY <1>7, <2>2, <2>3, FadeKeeps DEF Unschedule
<1>8. CASE ResumeRead(h)
  <2>0. job[h].due = {} BY <1>8, <1>h DEF ResumeRead, GoodJob
  <2>1. /\ job'[h].at \in {"IDLE", "RESUME"} /\ job'[h].due = {}
        /\ \A g \in Handlers \ {h} : job'[g] = job[g]
    <3>1. CASE job' = [job EXCEPT ![h] = NoJob] BY <1>h, <1>n, <3>1 DEF TypeOK
    <3>2. ASSUME NEW c, job' = [job EXCEPT ![h] = [job[h] EXCEPT !.current = {c}]]
          PROVE  /\ job'[h].at \in {"IDLE", "RESUME"} /\ job'[h].due = {}
                 /\ \A g \in Handlers \ {h} : job'[g] = job[g]
      BY <1>8, <1>h, <2>0, <3>2 DEF TypeOK, Job, ResumeRead
    <3> QED BY <1>8, <3>1, <3>2 DEF ResumeRead
  <2>2. \A g \in Handlers : Moves(g) BY <2>1 DEF Moves, Ordering
  <2>3. \A p \in Orders : Fades(p) BY <1>8 DEF ResumeRead, Fades
  <2> QED BY <1>8, <2>2, <2>3, FadeKeeps DEF ResumeRead
<1> QED BY <1>1, <1>2, <1>3, <1>4, <1>5, <1>6, <1>7, <1>8 DEF CustomerStep

LEMMA NightKeeps ==
    ASSUME TypeOK, TypeOK', DatesInv, NEW h \in Nights, NightStep(h)
    PROVE  DatesInv'
<1> USE DEF At, Env, rows, users, Done, Set, Start
<1>h. h \in Handlers /\ job[h] \in Job /\ GoodJob(job[h])
  BY DatesAreInts DEF Handlers, DatesInv
<1>n. NoJob.at = "IDLE" /\ NoJob.due = {} BY DEF NoJob
<1>i. today \in Nat /\ \A p \in Orders : sub[p] \in Sub /\ sub[p].expiresAt \in Int BY DatesAreInts
<1>1. CASE CronRead(h)
  <2>1. job'[h] = [NoJob EXCEPT !.at = "START", !.due = Due] /\ \A g \in Handlers \ {h} : job'[g] = job[g]
    BY <1>1, <1>h DEF CronRead, TypeOK
  <2>2. job'[h].at = "START" /\ job'[h].due = Due BY <2>1 DEF NoJob
  <2>3. \A o \in Due : o \in Orders /\ sub[o].status = "SCHEDULED" /\ sub[o].startsAt <= today
    BY DEF Due, InStatus
  <2>4. \A g \in Handlers : Moves(g) BY <2>1, <2>2, <2>3 DEF Moves, Ordering
  <2>5. \A p \in Orders : Fades(p) BY <1>1 DEF CronRead, Fades
  <2> QED BY <1>1, <2>4, <2>5, FadeKeeps DEF CronRead
<1>2. CASE EndSubscriptions(h)
  <2>1. [job[h] EXCEPT !.at = "FREE"].at = "FREE" /\ [job[h] EXCEPT !.at = "FREE"].due = {}
    BY <1>2, <1>h DEF EndSubscriptions, Job
  <2>2. \A g \in Handlers : Moves(g)
    BY <1>2, <1>h, <2>1 DEF EndSubscriptions, Moves, TypeOK, Ordering
  <2>3. ASSUME NEW p \in Orders PROVE Fades(p)
    <3>1. \/ sub'[p] = sub[p]
          \/ /\ sub[p].status = "ACTIVE" /\ sub[p].expiresAt < today
             /\ \E st \in {"EXPIRED", "CANCELLED"} : sub'[p] = [sub[p] EXCEPT !.status = st]
      BY <1>2 DEF EndSubscriptions
    <3> QED BY <1>i, <3>1 DEF Fades, Sub
  <2> QED BY <1>2, <2>2, <2>3, FadeKeeps DEF EndSubscriptions
<1>3. CASE EndTier(h)
  <2>1. \A g \in Handlers : Moves(g) BY <1>3, <1>h, <1>n DEF EndTier, Moves, TypeOK, Ordering
  <2>2. \A p \in Orders : Fades(p) BY <1>3 DEF EndTier, Fades
  <2>3. tierExpiresAt' <= today \/ tierExpiresAt' = tierExpiresAt BY <1>3, <1>i DEF EndTier
  <2> QED BY <1>3, <2>1, <2>2, <2>3, FadeKeeps DEF EndTier
<1>4. ASSUME NEW o \in Orders, ActivateRow(h, o) PROVE DatesInv'
  BY <1>4, <1>h, ActivateRowKeeps
<1>5. ASSUME NEW o \in Orders, ActivateUser(h, o) PROVE DatesInv'
  <2>1. job'[h] = [job[h] EXCEPT !.at = "START", !.order = {}] /\ \A g \in Handlers \ {h} : job'[g] = job[g]
    BY <1>5, <1>h DEF ActivateUser, TypeOK
  <2>2. job'[h].at = "START" /\ job'[h].due = job[h].due BY <1>h, <2>1 DEF Job
  <2>3. \A g \in Handlers : Moves(g) BY <2>1, <2>2 DEF Moves, Ordering
  <2>4. \A p \in Orders : Fades(p) BY <1>5 DEF ActivateUser, Fades
  <2>5. \E w \in Orders : sub[w].status = "ACTIVE" /\ sub[w].expiresAt >= tierExpiresAt'
    BY <1>5, <1>h DEF ActivateUser, GoodJob, Promised
  <2> QED BY <1>5, <2>3, <2>4, <2>5, FadeKeeps DEF ActivateUser
<1> QED BY <1>1, <1>2, <1>3, <1>4, <1>5 DEF NightStep

LEMMA ReminderKeeps ==
    ASSUME TypeOK, TypeOK', DatesInv, NEW h \in Reminders, ReminderStep(h)
    PROVE  DatesInv'
<1> USE DEF At, Env, rows, users, Done, Set, Start
<1>h. h \in Handlers /\ job[h] \in Job /\ GoodJob(job[h])
  BY DatesAreInts DEF Handlers, DatesInv
<1>n. NoJob.at = "IDLE" /\ NoJob.due = {} BY DEF NoJob
<1>m. job[h].due = {} => [job[h] EXCEPT !.at = "MARK"].at = "MARK" /\ [job[h] EXCEPT !.at = "MARK"].due = {}
  BY <1>h DEF Job
<1>1. CASE RemindReuse(h)
  <2>0. job[h].due = {} BY <1>1, <1>h DEF RemindReuse, GoodJob
  <2>1. \A g \in Handlers : Moves(g)
    BY <1>1, <1>h, <1>m, <2>0 DEF RemindReuse, Moves, TypeOK, Ordering
  <2>2. \A p \in Orders : Fades(p) BY <1>1 DEF RemindReuse, Fades
  <2> QED BY <1>1, <2>1, <2>2, FadeKeeps DEF RemindReuse
<1>2. CASE RemindMark(h)
  <2>1. \A g \in Handlers : Moves(g) BY <1>2, <1>h, <1>n DEF RemindMark, Moves, TypeOK, Ordering
  <2>2. ASSUME NEW p \in Orders PROVE Fades(p)
    <3>1. sub[p] \in Sub BY DEF TypeOK
    <3>2. sub'[p] = sub[p] \/ sub'[p] = [sub[p] EXCEPT !.reminded = TRUE] BY <1>2 DEF RemindMark
    <3> QED BY <3>1, <3>2 DEF Fades, Sub
  <2> QED BY <1>2, <2>1, <2>2, FadeKeeps DEF RemindMark
<1>3. ASSUME NEW o \in Orders, RemindRead(h, o) PROVE DatesInv'
  <2>1. Future BY <1>3 DEF RemindRead, InStatus, Future
  <2>2. job'[h].at = "REMIND" /\ job'[h].due = {} /\ \A g \in Handlers \ {h} : job'[g] = job[g]
    BY <1>3, <1>h DEF RemindRead, TypeOK, NoJob
  <2>3. \A g \in Handlers : Moves(g) BY <2>1, <2>2 DEF Moves
  <2>4. \A p \in Orders : Fades(p) BY <1>3 DEF RemindRead, Fades
  <2> QED BY <1>3, <2>3, <2>4, FadeKeeps DEF RemindRead
<1>4. ASSUME NEW o \in Orders, RemindCreate(h, o) PROVE DatesInv'
  BY <1>4, <1>h, CreateKeeps DEF RemindCreate
<1>5. ASSUME NEW o \in Orders, CheckoutLink(h, o) PROVE DatesInv'
  <2>1. job[h].due = {} BY <1>5, <1>h DEF CheckoutLink, GoodJob
  <2>3. \A g \in Handlers : Moves(g)
    BY <1>5, <1>h, <1>n, <1>m, <2>1 DEF CheckoutLink, Moves, TypeOK, Ordering
  <2>4. \A p \in Orders : Fades(p) BY <1>5 DEF CheckoutLink, Fades
  <2>5. \A p \in Orders : order'[p].status = order[p].status
    BY <1>5 DEF CheckoutLink, TypeOK, Order
  <2> QED BY <1>5, <2>3, <2>4, <2>5, FadeKeeps DEF CheckoutLink
<1> QED BY <1>1, <1>2, <1>3, <1>4, <1>5 DEF ReminderStep

LEMMA NextKeeps ==
    ASSUME TypeOK, TypeOK', DatesInv, [Next]_vars
    PROVE  DatesInv'
<1>1. ASSUME NEW h \in Customers, CustomerStep(h) PROVE DatesInv' BY <1>1, CustomerKeeps
<1>2. ASSUME NEW h \in Payers, PayerStep(h) PROVE DatesInv'
  BY <1>2, PayReadKeeps, PayWriteKeeps DEF PayerStep, PayWrite
<1>3. ASSUME NEW h \in Nights, NightStep(h) PROVE DatesInv' BY <1>3, NightKeeps
<1>4. ASSUME NEW h \in Reminders, ReminderStep(h) PROVE DatesInv' BY <1>4, ReminderKeeps
<1>5. ASSUME NEW o \in Orders, CloseOrder(o) PROVE DatesInv'
  <2>1. \A g \in Handlers : Moves(g) BY <1>5 DEF CloseOrder, Moves
  <2>2. \A p \in Orders : Fades(p) BY <1>5 DEF CloseOrder, Fades
  <2>3. order'[o].status = "CANCELLED" /\ (\A p \in Orders \ {o} : order'[p] = order[p])
        /\ \A g \in Payers : o \notin job[g].order
    BY <1>5 DEF CloseOrder, TypeOK, Order, Lock
  <2> QED BY <1>5, <2>1, <2>2, <2>3, FadeKeeps DEF CloseOrder, users, Env
<1>6. ASSUME NEW h \in Handlers, Crash(h) PROVE DatesInv'
  <2>1. \A g \in Handlers : Moves(g)
    BY <1>6 DEF Crash, Done, Set, Moves, TypeOK, NoJob, Ordering
  <2>2. \A p \in Orders : Fades(p) BY <1>6 DEF Crash, rows, Fades
  <2> QED BY <1>6, <2>1, <2>2, FadeKeeps DEF Crash, rows, users
<1>7. CASE DayPasses BY <1>7, DayKeeps
<1>8. CASE UNCHANGED vars
  <2>1. \A g \in Handlers : Moves(g) BY <1>8 DEF vars, Moves
  <2>2. \A p \in Orders : Fades(p) BY <1>8 DEF vars, Fades
  <2> QED BY <1>8, <2>1, <2>2, FadeKeeps DEF vars
<1> QED BY <1>1, <1>2, <1>3, <1>4, <1>5, <1>6, <1>7, <1>8 DEF Next

-----------------------------------------------------------------------------
(* Nobody buys the tier FREE *)

Bought(j) ==
    /\ j.at \in {"CREATE", "REMIND"} => j.tier # "FREE"
    /\ j.at = "PAY" => j.row = NoSub \/ j.row.tier # "FREE"
TiersInv ==
    /\ \A o \in Orders : /\ order[o].status # "NONE" => order[o].tier # "FREE"
                         /\ sub[o].status # "NONE" => sub[o].tier # "FREE"
    /\ \A h \in Handlers : Bought(job[h])

\* A row keeps its tier, and one that is not there is not made; the same of the orders.
KeepsTiers ==
    \A o \in Orders :
        /\ sub'[o].tier = sub[o].tier /\ (sub[o].status = "NONE" => sub'[o].status = "NONE")
        /\ order'[o].tier = order[o].tier /\ (order[o].status = "NONE" => order'[o].status = "NONE")

LEMMA TiersStay ==
    ASSUME TypeOK, TiersInv, KeepsTiers,
           \A g \in Handlers : \/ job'[g] = job[g]
                               \/ job'[g].at \notin {"CREATE", "REMIND", "PAY"}
                               \/ job'[g].at \in {"CREATE", "REMIND"} /\ job'[g].tier # "FREE"
                               \/ job'[g].at = "PAY" /\ (job'[g].row = NoSub \/ job'[g].row.tier # "FREE")
    PROVE  TiersInv'
<1>1. ASSUME NEW g \in Handlers PROVE Bought(job[g])'
  <2>1. Bought(job[g]) BY DEF TiersInv
  <2> QED BY <2>1 DEF Bought
<1> QED BY <1>1 DEF TiersInv, KeepsTiers

(* An order is made of the tier that was asked for. *)
LEMMA CreateTiers ==
    ASSUME TypeOK, TiersInv, NEW h \in Handlers, NEW o \in Orders,
           job'[h].at = "LINK", \A g \in Handlers \ {h} : job'[g] = job[g],
           order'[o].tier # "FREE", \A p \in Orders \ {o} : order'[p] = order[p], sub' = sub
    PROVE  TiersInv'
<1>1. ASSUME NEW g \in Handlers PROVE Bought(job[g])'
  BY DEF Bought, TiersInv
<1> QED BY <1>1 DEF TiersInv

LEMMA TiersKeep ==
    ASSUME TypeOK, DatesInv, TiersInv, [Next]_vars
    PROVE  TiersInv'
<1> USE DEF At, Env, rows, users, Done, Set, Start
<1>t. /\ sub \in [Orders -> Sub] /\ order \in [Orders -> Order] /\ job \in [Handlers -> Job]
  BY DEF TypeOK
<1>d. Handlers = Payers \cup Customers \cup Nights \cup Reminders BY DEF Handlers
<1>n. NoJob.at = "IDLE" BY DEF NoJob
<1>u. UNCHANGED <<order, sub>> => KeepsTiers BY DEF KeepsTiers
<1>m. \A h \in Handlers : [job[h] EXCEPT !.at = "MARK"].at = "MARK" BY <1>t DEF Job
\* One request goes on to a stage at which its tier does not count.
<1>q. ASSUME NEW h \in Handlers, NEW j, job' = [job EXCEPT ![h] = j], KeepsTiers,
             j.at \notin {"CREATE", "REMIND", "PAY"}
      PROVE  TiersInv'
  BY <1>q, <1>t, TiersStay
<1>l. ASSUME NEW h \in Handlers, NEW o \in Orders, CheckoutLink(h, o) PROVE TiersInv'
  <2>1. KeepsTiers BY <1>l, <1>t DEF CheckoutLink, KeepsTiers, Order
  <2> QED BY <1>l, <1>m, <1>n, <1>q, <2>1 DEF CheckoutLink
<1>1. ASSUME NEW h \in Customers, CustomerStep(h) PROVE TiersInv'
  <2>h. h \in Handlers BY <1>d
  <2>1. ASSUME NEW t \in Tiers, CheckoutRead(h, t) PROVE TiersInv'
    <3>1. job'[h].at = "CREATE" /\ job'[h].tier = t /\ \A g \in Handlers \ {h} : job'[g] = job[g]
      BY <1>t, <2>1, <2>h DEF CheckoutRead, NoJob
    <3> QED BY <1>u, <2>1, <3>1, TiersStay DEF CheckoutRead
  <2>2. ASSUME NEW o \in Orders, CheckoutCreate(h, o) PROVE TiersInv'
    <3>1. job[h].tier # "FREE" BY <2>2, <2>h DEF CheckoutCreate, TiersInv, Bought
    <3>2. job'[h].at = "LINK" /\ \A g \in Handlers \ {h} : job'[g] = job[g]
      BY <1>t, <2>2, <2>h DEF CheckoutCreate, Job
    <3>3. /\ order'[o].tier = job[h].tier /\ \A p \in Orders \ {o} : order'[p] = order[p]
          /\ sub' = sub
      BY <1>t, <2>2 DEF CheckoutCreate, Create
    <3> QED BY <2>h, <3>1, <3>2, <3>3, CreateTiers
  <2>4. ASSUME NEW on \in BOOLEAN, ToggleRead(h, on) PROVE TiersInv'
    <3>1. PICK c : Start(h, [NoJob EXCEPT !.at = IF on THEN "TOGGLE_ON" ELSE "TOGGLE_OFF", !.current = {c}])
      BY <2>4 DEF ToggleRead
    <3>2. job'[h].at \in {"TOGGLE_ON", "TOGGLE_OFF"} /\ \A g \in Handlers \ {h} : job'[g] = job[g]
      BY <1>t, <2>h, <3>1 DEF NoJob
    <3> QED BY <1>u, <2>4, <3>2, TiersStay DEF ToggleRead
  <2>5. CASE Toggle(h)
    <3>1. KeepsTiers BY <1>t, <2>5 DEF Toggle, KeepsTiers, Sub
    <3> QED BY <1>n, <1>q, <2>5, <2>h, <3>1 DEF Toggle
  <2>6. CASE UnscheduleRead(h)
    <3>1. PICK c : Start(h, [NoJob EXCEPT !.at = "DROP", !.current = {c}])
      BY <2>6 DEF UnscheduleRead
    <3>2. job'[h].at = "DROP" /\ \A g \in Handlers \ {h} : job'[g] = job[g]
      BY <1>t, <2>h, <3>1 DEF NoJob
    <3> QED BY <1>u, <2>6, <3>2, TiersStay DEF UnscheduleRead
  <2>7. CASE Unschedule(h)
    <3>1. KeepsTiers BY <1>t, <2>7 DEF Unschedule, KeepsTiers, Sub
    <3>2. [job[h] EXCEPT !.at = "RESUME", !.current = {}].at = "RESUME" BY <1>t, <2>h DEF Job
    <3> QED BY <1>n, <1>q, <2>7, <2>h, <3>1, <3>2 DEF Unschedule
  <2>8. CASE ResumeRead(h)
    <3>1. \A c : [job[h] EXCEPT !.current = {c}].at = job[h].at BY <1>t, <2>h DEF Job
    <3> QED BY <1>n, <1>q, <1>u, <2>8, <2>h, <3>1 DEF ResumeRead
  <2> QED BY <1>1, <1>l, <2>1, <2>2, <2>4, <2>5, <2>6, <2>7, <2>8, <2>h DEF CustomerStep
<1>2. ASSUME NEW h \in Payers, NEW o \in Orders, PayRead(h, o) \/ PayWrite(h, o) PROVE TiersInv'
  <2>h. h \in Handlers BY <1>d
  <2>1. CASE PayRead(h, o)
    <3>1. \A c \in Latest(InStatus({"ACTIVE", "SCHEDULED"})) : c \in Orders /\ sub[c].status # "NONE"
      BY DEF Latest, InStatus
    <3>2. CASE Start(h, [NoJob EXCEPT !.at = "PAY", !.order = {o}])
      <4>1. job'[h].at = "PAY" /\ job'[h].row = NoSub /\ \A g \in Handlers \ {h} : job'[g] = job[g]
        BY <1>t, <2>h, <3>2 DEF NoJob
      <4> QED BY <1>u, <2>1, <4>1, TiersStay DEF PayRead
    <3>3. ASSUME NEW c \in Orders, sub[c].status # "NONE",
                 Start(h, [NoJob EXCEPT !.at = "PAY", !.order = {o}, !.current = {c}, !.row = sub[c]])
          PROVE  TiersInv'
      <4>1. job'[h].at = "PAY" /\ job'[h].row = sub[c] /\ \A g \in Handlers \ {h} : job'[g] = job[g]
        BY <1>t, <2>h, <3>3 DEF NoJob
      <4>2. sub[c].tier # "FREE" BY <3>3 DEF TiersInv
      <4> QED BY <1>u, <2>1, <4>1, <4>2, TiersStay DEF PayRead
    <3> QED BY <2>1, <3>1, <3>2, <3>3 DEF PayRead
  <2>2. ASSUME NEW t \in Tiers, PayExtend(h, o, t) \/ PayUpgrade(h, o, t) \/ PayDowngrade(h, o, t)
        PROVE  TiersInv'
    <3>p. Pay(h, o, t) BY <2>2 DEF PayExtend, PayUpgrade, PayDowngrade
    <3>0. order[o].status = "CREATED" BY <2>h, <3>p DEF Pay, DatesInv, GoodJob
    <3>1. t # "FREE" BY <3>0, <3>p DEF Pay, TiersInv
    <3>2. /\ \A p \in Orders : order'[p].tier = order[p].tier
          /\ \A p \in Orders \ {o} : order'[p] = order[p]
      BY <1>t, <3>p DEF Pay, Order
    <3>3. job'[h] = NoJob /\ \A g \in Handlers \ {h} : job'[g] = job[g]
      BY <1>t, <2>h, <3>p DEF Pay
    <3>4. ASSUME NEW g \in Handlers PROVE Bought(job[g])'
      BY <1>n, <3>3 DEF Bought, TiersInv
    <3>5. sub'[o].status # "NONE" => sub'[o].tier # "FREE"
      <4>1. CASE PayExtend(h, o, t) BY <1>t, <3>1, <4>1 DEF PayExtend, NewRow
      <4>2. o \notin job[h].current /\ sub[o].status = "NONE"
        <5>1. sub[o].status = "NONE" BY <3>0 DEF DatesInv, Tables
        <5> QED BY <2>h, <3>p, <5>1 DEF Pay, DatesInv, GoodJob, ReadRow
      <4>3. ASSUME PayUpgrade(h, o, t) PROVE sub'[o].tier = t \/ sub'[o].tier # "FREE"
        <5> DEFINE end == IF job[h].row.expiresAt <= today THEN After(today) ELSE job[h].row.expiresAt
                   next == InStatus({"SCHEDULED"}) \ job[h].current
        <5>1. PICK s \in IF next = {} THEN {{}} ELSE {{p} : p \in next} :
                sub' = [p \in Orders |->
                  CASE p = o -> NewRow(t, "ACTIVE", today, end)
                    [] p \in job[h].current ->
                          [sub[p] EXCEPT !.status = "CANCELLED", !.autoRenew = FALSE,
                                         !.expiresAt = today]
                    [] p \in s -> [sub[p] EXCEPT !.status = "CANCELLED"]
                    [] OTHER -> sub[p]]
          BY <4>3 DEF PayUpgrade
        <5>2. o \notin s BY <4>2, <5>1 DEF InStatus
        <5>3. sub'[o] = NewRow(t, "ACTIVE", today, end) BY <4>2, <5>1, <5>2
        <5> QED BY <5>3 DEF NewRow
      <4>4. ASSUME PayDowngrade(h, o, t) PROVE sub'[o].tier = t
        <5>1. sub'[o] = NewRow(t, "SCHEDULED", job[h].row.expiresAt, After(job[h].row.expiresAt))
          BY <4>2, <4>4 DEF PayDowngrade
        <5> QED BY <5>1 DEF NewRow
      <4> QED BY <2>2, <3>1, <4>1, <4>3, <4>4
    <3>6. ASSUME NEW p \in Orders \ {o}, sub'[p].status # "NONE" PROVE sub'[p].tier # "FREE"
      <4>0. p \in job[h].current => sub[p].status # "NONE"
        BY <2>h, <3>p DEF Pay, DatesInv, GoodJob, ReadRow
      <4>1. CASE PayExtend(h, o, t) BY <1>t, <3>6, <4>1 DEF PayExtend, TiersInv
      <4>2. CASE PayUpgrade(h, o, t)
        <5> DEFINE end == IF job[h].row.expiresAt <= today THEN After(today) ELSE job[h].row.expiresAt
                   next == InStatus({"SCHEDULED"}) \ job[h].current
        <5>1. PICK s \in IF next = {} THEN {{}} ELSE {{x} : x \in next} :
                sub' = [x \in Orders |->
                  CASE x = o -> NewRow(t, "ACTIVE", today, end)
                    [] x \in job[h].current ->
                          [sub[x] EXCEPT !.status = "CANCELLED", !.autoRenew = FALSE,
                                         !.expiresAt = today]
                    [] x \in s -> [sub[x] EXCEPT !.status = "CANCELLED"]
                    [] OTHER -> sub[x]]
          BY <4>2 DEF PayUpgrade
        <5>2. s \subseteq next BY <5>1
        <5>3. p \in s => sub[p].status = "SCHEDULED" /\ p \notin job[h].current BY <5>2 DEF InStatus
        <5>4. \/ sub'[p] = [sub[p] EXCEPT !.status = "CANCELLED", !.autoRenew = FALSE, !.expiresAt = today]
                 /\ p \in job[h].current
              \/ sub'[p] = [sub[p] EXCEPT !.status = "CANCELLED"] /\ p \in s
              \/ sub'[p] = sub[p]
          BY <5>1, <5>3
        <5>5. sub[p] \in Sub BY <1>t
        <5>6. sub'[p].tier = sub[p].tier /\ sub[p].status # "NONE"
          BY <3>6, <4>0, <5>3, <5>4, <5>5 DEF Sub
        <5> QED BY <5>6 DEF TiersInv
      <4>3. CASE PayDowngrade(h, o, t)
        <5>1. sub'[p] = [sub[p] EXCEPT !.autoRenew = FALSE] \/ sub'[p] = sub[p]
          BY <4>3 DEF PayDowngrade
        <5>2. sub'[p].tier = sub[p].tier /\ sub'[p].status = sub[p].status BY <1>t, <5>1 DEF Sub
        <5> QED BY <3>6, <5>2 DEF TiersInv
      <4> QED BY <2>2, <4>1, <4>2, <4>3
    <3>7. \A p \in Orders : order'[p].status # "NONE" => order'[p].tier # "FREE"
      BY <3>0, <3>2 DEF TiersInv
    <3> QED BY <3>4, <3>5, <3>6, <3>7 DEF TiersInv
  <2> QED BY <1>2, <2>1, <2>2 DEF PayWrite
<1>3. ASSUME NEW h \in Nights, NightStep(h) PROVE TiersInv'
  <2>h. h \in Handlers BY <1>d
  <2>1. CASE CronRead(h)
    <3>1. [NoJob EXCEPT !.at = "START", !.due = Due].at = "START" BY DEF NoJob
    <3> QED BY <1>q, <1>u, <2>1, <2>h, <3>1 DEF CronRead
  <2>2. CASE EndSubscriptions(h)
    <3>1. KeepsTiers
      <4>1. ASSUME NEW p \in Orders
            PROVE  sub'[p].tier = sub[p].tier /\ (sub[p].status = "NONE" => sub'[p].status = "NONE")
        <5>1. \/ sub'[p] = sub[p]
              \/ sub[p].status = "ACTIVE" /\ \E st \in {"EXPIRED", "CANCELLED"} :
                                                sub'[p] = [sub[p] EXCEPT !.status = st]
          BY <2>2 DEF EndSubscriptions
        <5> QED BY <1>t, <5>1 DEF Sub
      <4> QED BY <2>2, <4>1 DEF KeepsTiers, EndSubscriptions
    <3>2. [job[h] EXCEPT !.at = "FREE"].at = "FREE" BY <1>t, <2>h DEF Job
    <3> QED BY <1>q, <2>2, <2>h, <3>1, <3>2 DEF EndSubscriptions
  <2>3. CASE EndTier(h) BY <1>n, <1>q, <1>u, <2>3, <2>h DEF EndTier
  <2>4. ASSUME NEW o \in Orders, ActivateRow(h, o) PROVE TiersInv'
    <3>1. sub[o].status # "NONE" BY <2>4, <2>h DEF ActivateRow, DatesInv, GoodJob, DueRow
    <3>2. KeepsTiers BY <1>t, <2>4, <3>1 DEF ActivateRow, KeepsTiers, Sub
    <3>3. [job[h] EXCEPT !.at = "GRANT", !.order = {o}, !.due = @ \ {o}].at = "GRANT"
      BY <1>t, <2>h DEF Job
    <3> QED BY <1>q, <2>4, <2>h, <3>2, <3>3 DEF ActivateRow
  <2>5. ASSUME NEW o \in Orders, ActivateUser(h, o) PROVE TiersInv'
    <3>1. [job[h] EXCEPT !.at = "START", !.order = {}].at = "START" BY <1>t, <2>h DEF Job
    <3> QED BY <1>q, <1>u, <2>5, <2>h, <3>1 DEF ActivateUser
  <2> QED BY <1>3, <2>1, <2>2, <2>3, <2>4, <2>5 DEF NightStep
<1>4. ASSUME NEW h \in Reminders, ReminderStep(h) PROVE TiersInv'
  <2>h. h \in Handlers BY <1>d
  <2>1. CASE RemindReuse(h) BY <1>m, <1>q, <1>u, <2>1, <2>h DEF RemindReuse
  <2>2. CASE RemindMark(h)
    <3>1. KeepsTiers BY <1>t, <2>2 DEF RemindMark, KeepsTiers, Sub
    <3> QED BY <1>n, <1>q, <2>2, <2>h, <3>1 DEF RemindMark
  <2>3. ASSUME NEW o \in Orders, RemindRead(h, o) PROVE TiersInv'
    <3>1. /\ job'[h].at = "REMIND" /\ job'[h].tier = sub[o].tier
          /\ \A g \in Handlers \ {h} : job'[g] = job[g]
      BY <1>t, <2>3, <2>h DEF RemindRead, NoJob
    <3>2. sub[o].tier # "FREE" BY <2>3 DEF RemindRead, TiersInv
    <3> QED BY <1>u, <2>3, <3>1, <3>2, TiersStay DEF RemindRead
  <2>4. ASSUME NEW o \in Orders, RemindCreate(h, o) PROVE TiersInv'
    <3>1. job[h].tier # "FREE" BY <2>4, <2>h DEF RemindCreate, TiersInv, Bought
    <3>2. job'[h].at = "LINK" /\ \A g \in Handlers \ {h} : job'[g] = job[g]
      BY <1>t, <2>4, <2>h DEF RemindCreate, Job
    <3>3. /\ order'[o].tier = job[h].tier /\ \A p \in Orders \ {o} : order'[p] = order[p]
          /\ sub' = sub
      BY <1>t, <2>4 DEF RemindCreate, Create
    <3> QED BY <2>h, <3>1, <3>2, <3>3, CreateTiers
  <2> QED BY <1>4, <1>l, <2>1, <2>2, <2>3, <2>4, <2>h DEF ReminderStep
<1>5. ASSUME NEW o \in Orders, CloseOrder(o) PROVE TiersInv'
  <2>1. KeepsTiers BY <1>5, <1>t DEF CloseOrder, KeepsTiers, Order
  <2> QED BY <1>5, <2>1, TiersStay DEF CloseOrder
<1>6. ASSUME NEW h \in Handlers, Crash(h) PROVE TiersInv'
  BY <1>6, <1>n, <1>q, <1>u DEF Crash
<1>7. CASE DayPasses
  <2>1. KeepsTiers BY <1>7, <1>t DEF DayPasses, KeepsTiers, Order
  <2> QED BY <1>7, <2>1, TiersStay DEF DayPasses
<1>8. CASE UNCHANGED vars BY <1>8, <1>u, TiersStay DEF vars
<1> QED BY <1>1, <1>2, <1>3, <1>4, <1>5, <1>6, <1>7, <1>8 DEF Next, PayerStep

(* The invariant holds. *)
LEMMA DatesHold == Spec => [](TypeOK /\ DatesInv /\ TiersInv)
<1>1. ASSUME Init PROVE TypeOK /\ DatesInv /\ TiersInv
  <2>1. NoJob \in Job /\ NoSub \in Sub /\ NoOrder \in Order /\ -1 \in Days
    BY DEF NoJob, NoSub, NoOrder, Job, Sub, Order, Days, Tiers
  <2>2. TypeOK BY <1>1, <2>1, MembershipAssumption DEF Init, TypeOK, Tiers
  <2>3. DatesInv
    BY <1>1 DEF Init, DatesInv, Tables, GoodJob, PayApart, At, NoJob, NoSub, NoOrder, Ordering
  <2>4. TiersInv BY <1>1 DEF Init, TiersInv, Bought, NoJob, NoSub, NoOrder
  <2> QED BY <2>2, <2>3, <2>4
<1>2. ASSUME TypeOK /\ DatesInv /\ TiersInv, [Next]_vars PROVE (TypeOK /\ DatesInv /\ TiersInv)'
  <2>1. TypeOK' BY <1>2, RowsTyped
  <2> QED BY <1>2, <2>1, NextKeeps, TiersKeep
<1> QED BY <1>1, <1>2, PTL DEF Spec

-----------------------------------------------------------------------------
(* The theorem *)

(* An order becomes paid by the request that read the plans for it. *)
LEMMA PaidByItsReader ==
    ASSUME TypeOK, DatesInv, [Next]_vars, NEW h \in Payers, NEW o \in Orders,
           At(h, "PAY"), o \in job[h].order, Paid(o)
    PROVE  \E t \in Tiers : PayExtend(h, o, t) \/ PayUpgrade(h, o, t) \/ PayDowngrade(h, o, t)
<1>t. order \in [Orders -> Order] BY DEF TypeOK
<1>0. order[o].status = "CREATED" /\ order'[o].status = "COMPLETED" BY DEF Paid
<1>c. \A g, p, t, n : ~Create(g, p, t, n)
  BY <1>0, <1>t DEF Create, Order
<1>l. \A g : \A p \in Orders : ~CheckoutLink(g, p)
  BY <1>0, <1>t DEF CheckoutLink, Order
<1>s. order' # order BY <1>0
<1>1. \A g \in Customers : ~CustomerStep(g)
  BY <1>c, <1>l, <1>s DEF CustomerStep, CheckoutRead, CheckoutCreate, ToggleRead, Toggle,
     UnscheduleRead, Unschedule, ResumeRead, rows
<1>3. \A g \in Nights : ~NightStep(g)
  BY <1>s DEF NightStep, CronRead, EndSubscriptions, EndTier, ActivateRow, ActivateUser, rows
<1>4. \A g \in Reminders : ~ReminderStep(g)
  BY <1>c, <1>l, <1>s DEF ReminderStep, RemindReuse, RemindMark, RemindRead, RemindCreate, rows
<1>5. \A p \in Orders : ~CloseOrder(p) BY <1>0, <1>t DEF CloseOrder, Order
<1>6. \A g \in Handlers : ~Crash(g) BY <1>s DEF Crash, rows
<1>7. ~DayPasses BY <1>0, <1>t DEF DayPasses, Order
<1>8. ~UNCHANGED vars BY <1>s DEF vars
<1>9. PICK g \in Payers, p \in Orders : PayRead(g, p) \/ PayWrite(g, p)
  BY <1>1, <1>3, <1>4, <1>5, <1>6, <1>7, <1>8 DEF Next, PayerStep
<1>10. PICK t \in Tiers : PayExtend(g, p, t) \/ PayUpgrade(g, p, t) \/ PayDowngrade(g, p, t)
  BY <1>9, <1>s DEF PayWrite, PayRead, rows
<1>11. Pay(g, p, t) BY <1>10 DEF PayExtend, PayUpgrade, PayDowngrade
<1>12. p = o BY <1>0, <1>11, <1>t DEF Pay, Order
<1>13. g = h
  <2>1. g \in Handlers /\ h \in Handlers /\ At(g, "PAY") /\ o \in job[g].order
    BY <1>11, <1>12 DEF Handlers, Pay
  <2> QED BY <2>1 DEF DatesInv, PayApart
<1> QED BY <1>10, <1>12, <1>13

(* What the user has after a payment. *)
LEMMA PaymentGives ==
    ASSUME TypeOK, DatesInv, TiersInv, [Next]_vars, NEW h \in Payers, NEW o \in Orders,
           At(h, "PAY"), o \in job[h].order, Paid(o), ~Overtaken(h)
    PROVE  /\ tierExpiresAt' >= tierExpiresAt
           /\ Behind(h) \/ TIER_RANK[tier'] >= TIER_RANK[Lasting]
<1>h. h \in Handlers BY DEF Handlers
<1>i. /\ today \in Nat /\ tierExpiresAt \in Int /\ job[h].row.expiresAt \in Int
      /\ \A p \in Orders : sub[p].expiresAt \in Int
      /\ tier \in Tiers /\ job[h].row.tier \in Tiers /\ Lasting \in Tiers
  BY <1>h, DatesAreInts DEF TypeOK, Job, Sub, Lasting, Tiers
<1>r. \A t \in Tiers : /\ TIER_RANK[t] \in Nat /\ TIER_RANK[t] <= 2
                       /\ TIER_RANK["FREE"] = 0 /\ TIER_RANK["VIP"] = 2
                       /\ t # "FREE" => TIER_RANK[t] >= 1
  BY DEF TIER_RANK, Tiers
\* What the user has ends with a plan that runs, and none ends later than the row read.
<1>1. tierExpiresAt <= today \/ tierExpiresAt <= job[h].row.expiresAt
  <2>1. SUFFICES ASSUME ~(tierExpiresAt <= today) PROVE tierExpiresAt <= job[h].row.expiresAt
    OBVIOUS
  <2>2. PICK w \in Orders : sub[w].status = "ACTIVE" /\ sub[w].expiresAt >= tierExpiresAt
    BY <2>1 DEF DatesInv, Tables, Promised
  <2>3. sub[w].expiresAt <= job[h].row.expiresAt
    BY <1>i, <2>2 DEF Overtaken, InStatus
  <2> QED BY <1>i, <2>2, <2>3
<1>2. job[h].row = NoSub \/ (job[h].row.status \in HeldStatuses /\ job[h].row.tier # "FREE")
  <2>1. GoodJob(job[h]) /\ Bought(job[h]) BY <1>h DEF DatesInv, TiersInv
  <2> QED BY <2>1 DEF GoodJob, Bought, ReadRow, At
<1>3. PICK t \in Tiers : PayExtend(h, o, t) \/ PayUpgrade(h, o, t) \/ PayDowngrade(h, o, t)
  BY PaidByItsReader
<1>4. CASE PayExtend(h, o, t)
  <2> DEFINE from == IF job[h].row.status = "ACTIVE" /\ job[h].row.expiresAt > today
                     THEN job[h].row.expiresAt ELSE today
  <2>1. tier' = t /\ tierExpiresAt' = from + 30
    BY <1>4 DEF PayExtend, After, SUBSCRIPTION_DURATION_DAYS
  <2>2. CASE Mode(job[h].row, t) = "NEW"
    <3>1. job[h].row = NoSub \/ (job[h].row.status = "ACTIVE" /\ job[h].row.expiresAt < today)
      BY <2>2 DEF Mode
    <3>2. job[h].row.expiresAt <= today BY <1>i, <3>1 DEF NoSub
    <3>3. tierExpiresAt <= today /\ from = today BY <1>1, <1>i, <3>2
    <3>4. Lasting = "FREE" BY <1>i, <3>3 DEF Lasting
    <3> QED BY <1>i, <1>r, <2>1, <3>3, <3>4
  <2>3. CASE Mode(job[h].row, t) = "RENEWAL"
    <3>1. job[h].row.status = "ACTIVE" /\ job[h].row.tier = t BY <2>3 DEF Mode
    <3>2. from + 30 >= tierExpiresAt BY <1>1, <1>i, <3>1
    <3> QED BY <1>i, <1>r, <2>1, <3>1, <3>2 DEF Behind
  <2> QED BY <1>4, <2>2, <2>3 DEF PayExtend
<1>5. CASE PayUpgrade(h, o, t)
  <2>1. /\ tier' = t
        /\ tierExpiresAt' = IF job[h].row.expiresAt <= today THEN today + 30 ELSE job[h].row.expiresAt
    BY <1>5 DEF PayUpgrade, After, SUBSCRIPTION_DURATION_DAYS
  <2>2. job[h].row # NoSub /\ isUpgrade(job[h].row.tier, t)
    <3>1. Mode(job[h].row, t) = "UPGRADE" BY <1>5 DEF PayUpgrade
    <3>2. job[h].row # NoSub BY <3>1 DEF Mode
    <3>3. ~isUpgrade(job[h].row.tier, t) => Mode(job[h].row, t) \in {"NEW", "RENEWAL", "DOWNGRADE"}
      BY DEF Mode
    <3> QED BY <3>1, <3>2, <3>3
  <2>3. TIER_RANK[t] = 2 BY <1>2, <1>i, <1>r, <2>2 DEF isUpgrade
  <2>4. tierExpiresAt' >= tierExpiresAt BY <1>1, <1>i, <2>1
  <2> QED BY <1>i, <1>r, <2>1, <2>3, <2>4
<1>6. CASE PayDowngrade(h, o, t)
  <2>1. tier' = tier /\ tierExpiresAt' = tierExpiresAt BY <1>6 DEF PayDowngrade, users
  <2> QED BY <1>i, <1>r, <2>1 DEF Lasting
<1> QED BY <1>3, <1>4, <1>5, <1>6

(* No payment of a plan takes away what the user has: for any plans bought before, any number *)
(* of payments, requests and crons at once, any steps of the clock and any crashes           *)
(* (createOrExtendSubscription).                                                             *)
THEOREM PaymentNeverTakesAwayHolds == Spec => PaymentNeverTakesAway
<1>1. TypeOK /\ DatesInv /\ TiersInv /\ [Next]_vars
        => [ \A h \in Payers, o \in Orders :
               At(h, "PAY") /\ o \in job[h].order /\ Paid(o) /\ ~Overtaken(h) =>
                 /\ tierExpiresAt' >= tierExpiresAt
                 /\ Behind(h) \/ TIER_RANK[tier'] >= TIER_RANK[Lasting] ]_vars
  BY PaymentGives
<1> QED BY <1>1, DatesHold, PTL DEF Spec, PaymentNeverTakesAway
=============================================================================
