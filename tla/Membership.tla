----------------------------- MODULE Membership -----------------------------
(***************************************************************************)
(* The paid tier of one user: orders for a tier, what their payment does   *)
(* to the rows of `subscriptions` and to the user, the nightly cron that   *)
(* starts and ends them, and the renewal reminders.                        *)
(*                                                                         *)
(* Money is counted in thousands of VND and time in days.  The clock moves *)
(* by Tick days while no request runs; an unpaid order does not live that  *)
(* long (expireUnpaidOrders).                                              *)
(***************************************************************************)
EXTENDS Integers

CONSTANTS
    MaxOrders,                   \* bound: orders the user creates
    Payers, Customers,           \* requests at one time
    Nights, Reminders,           \* the crons of 3 a.m. and 9 a.m.
    Tick, LastDay, MaxErrors     \* bounds: the clock; crashes

ASSUME MembershipAssumption ==
    /\ MaxOrders \in Nat /\ MaxErrors \in Nat
    /\ Tick \in Nat \ {0} /\ LastDay \in Nat

VARIABLES
    tier, tierExpiresAt,    \* users; -1 is null
    order,                  \* orders with a targetTier
    sub,                    \* subscriptions, by their order
    today, job, errors

Orders == 1..MaxOrders

vars == <<tier, tierExpiresAt, order, sub, today, job, errors>>

-----------------------------------------------------------------------------
(* Plans *)

Tiers == {"FREE", "MEMBER", "VIP"}
TIER_PRICES == [FREE |-> 0, MEMBER |-> 34, VIP |-> 99]
TIER_RANK   == [FREE |-> 0, MEMBER |-> 1, VIP |-> 2]
SUBSCRIPTION_DURATION_DAYS  == 30
RENEWAL_REMINDER_DAYS_BEFORE == 3
PRORATION_MIN_REMAINING_DAYS == 1

isUpgrade(from, to) == TIER_RANK[to] > TIER_RANK[from]

\* The price of so many days, rounded up to 1.000 VND.
roundUpVnd(t, days) ==
    (TIER_PRICES[t] * days + SUBSCRIPTION_DURATION_DAYS - 1) \div SUBSCRIPTION_DURATION_DAYS
calcUpgradeProration(from, to, days) ==
    LET net == roundUpVnd(to, days) - roundUpVnd(from, days)
    IN  IF net > 0 THEN net ELSE 0

resolveEffectiveTier == IF tierExpiresAt # -1 /\ today > tierExpiresAt THEN "FREE" ELSE tier

-----------------------------------------------------------------------------
(* Rows *)

Days == Nat \cup {-1}
NoSub == [status |-> "NONE", tier |-> "FREE", autoRenew |-> FALSE,
          startsAt |-> -1, expiresAt |-> -1, reminded |-> FALSE]
Sub == [status : {"NONE", "ACTIVE", "SCHEDULED", "EXPIRED", "CANCELLED"}, tier : Tiers,
        autoRenew : BOOLEAN, startsAt : Days, expiresAt : Days, reminded : BOOLEAN]

NoOrder == [status |-> "NONE", tier |-> "FREE", amount |-> 0, linked |-> FALSE]
Order == [status : {"NONE", "CREATED", "COMPLETED", "CANCELLED"}, tier : Tiers,
          amount : Nat, linked : BOOLEAN]

NoJob == [at |-> "IDLE", tier |-> "FREE", order |-> {}, current |-> {}, due |-> {}, row |-> NoSub]
Job == [at : {"IDLE", "CREATE", "LINK", "PAY", "TOGGLE_OFF", "TOGGLE_ON", "DROP",
              "RESUME", "START", "GRANT", "END", "FREE", "REMIND", "MARK"},
        tier : Tiers, order : SUBSET Orders, current : SUBSET Orders, due : SUBSET Orders,
        row : Sub]

Handlers == Payers \cup Customers \cup Nights \cup Reminders

TypeOK ==
    /\ tier \in Tiers /\ tierExpiresAt \in Days
    /\ order \in [Orders -> Order]
    /\ sub \in [Orders -> Sub]
    /\ today \in 0..LastDay
    /\ job \in [Handlers -> Job]
    /\ errors \in 0..MaxErrors

Init ==
    /\ tier = "FREE" /\ tierExpiresAt = -1
    /\ order = [o \in Orders |-> NoOrder]
    /\ sub = [o \in Orders |-> NoSub]
    /\ today = 0
    /\ job = [h \in Handlers |-> NoJob]
    /\ errors = 0

users == <<tier, tierExpiresAt>>
rows  == <<users, order, sub>>

Set(h, j)    == job' = [job EXCEPT ![h] = j]
Done(h)      == Set(h, NoJob)
Start(h, j)  == job[h] = NoJob /\ Set(h, j)
At(h, stage) == job[h].at = stage
Env          == UNCHANGED <<today, errors>>

InStatus(statuses) == {o \in Orders : sub[o].status \in statuses}
\* findFirst, orderBy expiresAt desc (or startsAt asc): any row that comes first.
Latest(os)   == {o \in os : \A p \in os : sub[p].expiresAt <= sub[o].expiresAt}
Earliest(os) == {o \in os : \A p \in os : sub[o].startsAt <= sub[p].startsAt}
\* The ACTIVE subscription that has not ended.
Running == {o \in InStatus({"ACTIVE"}) : sub[o].expiresAt >= today}
Unused == {o \in Orders : order[o] = NoOrder}
Lock(o) == \A h \in Payers : o \notin job[h].order

NewRow(t, status, from, to) ==
    [status |-> status, tier |-> t, autoRenew |-> TRUE, startsAt |-> from,
     expiresAt |-> to, reminded |-> FALSE]
After(day) == day + SUBSCRIPTION_DURATION_DAYS

-----------------------------------------------------------------------------
(* createSubscriptionOrder, createCheckoutLink *)

CheckoutRead(h, t) ==
    /\ t # "FREE" /\ Unused # {} /\ InStatus({"SCHEDULED"}) = {}
    /\ Start(h, [NoJob EXCEPT !.at = "CREATE", !.tier = t])
    /\ UNCHANGED rows /\ Env

\* An upgrade in the middle of a cycle pays the difference for what is left.
Price(t, current) ==
    LET days == sub[current].expiresAt - today
        net  == calcUpgradeProration(sub[current].tier, t, days)
    IN  IF /\ isUpgrade(sub[current].tier, t) /\ days > PRORATION_MIN_REMAINING_DAYS
           /\ net > 0
        THEN net ELSE TIER_PRICES[t]

Create(h, o, t, amount) ==
    /\ o \in Unused /\ \A p \in Unused : o <= p
    /\ order' = [order EXCEPT ![o] = [status |-> "CREATED", tier |-> t,
                                      amount |-> amount, linked |-> FALSE]]
    /\ UNCHANGED <<users, sub>> /\ Env

CheckoutCreate(h, o) ==
    /\ At(h, "CREATE")
    /\ \/ Running = {} /\ Create(h, o, job[h].tier, TIER_PRICES[job[h].tier])
       \/ \E c \in Latest(Running) : Create(h, o, job[h].tier, Price(job[h].tier, c))
    /\ Set(h, [job[h] EXCEPT !.at = "LINK", !.order = {o}])

CheckoutLink(h, o) ==
    /\ At(h, "LINK") /\ o \in job[h].order
    /\ order' = [order EXCEPT ![o].linked = TRUE]
    /\ IF h \in Reminders THEN Set(h, [job[h] EXCEPT !.at = "MARK"]) ELSE Done(h)
    /\ UNCHANGED <<users, sub>> /\ Env

\* cancel, or expireUnpaidOrders.
CloseOrder(o) ==
    /\ order[o].status = "CREATED" /\ Lock(o)
    /\ order' = [order EXCEPT ![o].status = "CANCELLED"]
    /\ UNCHANGED <<users, sub, job>> /\ Env

-----------------------------------------------------------------------------
(* processOrderSuccess of an order for a tier: the claim, and              *)
(* createOrExtendSubscription in the same transaction.  It reads the row   *)
(* that ends last, and writes before it commits.                           *)

PayRead(h, o) ==
    LET held == InStatus({"ACTIVE", "SCHEDULED"}) IN
    /\ order[o].status = "CREATED" /\ order[o].linked /\ Lock(o)
    /\ \/ held = {} /\ Start(h, [NoJob EXCEPT !.at = "PAY", !.order = {o}])
       \/ \E c \in Latest(held) :
            Start(h, [NoJob EXCEPT !.at = "PAY", !.order = {o}, !.current = {c}, !.row = sub[c]])
    /\ UNCHANGED rows /\ Env

\* Mutated form: a plan of the same tier that has not started is extended.
ModeOfAnySame(cur, t) ==
    IF cur = NoSub \/ (cur.status = "ACTIVE" /\ cur.expiresAt < today) THEN "NEW"
    ELSE IF cur.tier = t THEN "RENEWAL"
    ELSE IF isUpgrade(cur.tier, t) THEN "UPGRADE" ELSE "DOWNGRADE"
Mode(cur, t) ==
    IF cur = NoSub \/ (cur.status = "ACTIVE" /\ cur.expiresAt < today) THEN "NEW"
    ELSE IF cur.tier = t /\ cur.status = "ACTIVE" THEN "RENEWAL"
    ELSE IF isUpgrade(cur.tier, t) THEN "UPGRADE" ELSE "DOWNGRADE"

Pay(h, o, t) ==
    /\ At(h, "PAY") /\ o \in job[h].order /\ t = order[o].tier
    /\ order' = [order EXCEPT ![o].status = "COMPLETED"]
    /\ Done(h)
    /\ Env

PayExtend(h, o, t) ==
    LET cur == job[h].row
        from == IF cur.status = "ACTIVE" /\ cur.expiresAt > today THEN cur.expiresAt ELSE today
    IN
    /\ Pay(h, o, t) /\ Mode(cur, t) \in {"NEW", "RENEWAL"}
    /\ sub' = [sub EXCEPT ![o] = NewRow(t, "ACTIVE", from, After(from))]
    /\ tier' = t /\ tierExpiresAt' = After(from)

\* The end of the cycle stays, the current row and one scheduled row end.
PayUpgrade(h, o, t) ==
    LET cur == job[h].row
        end == IF cur.expiresAt <= today THEN After(today) ELSE cur.expiresAt
        next == InStatus({"SCHEDULED"}) \ job[h].current
    IN
    /\ Pay(h, o, t) /\ Mode(cur, t) = "UPGRADE"
    /\ \E s \in IF next = {} THEN {{}} ELSE {{p} : p \in next} :
         sub' = [p \in Orders |->
            CASE p = o -> NewRow(t, "ACTIVE", today, end)
              [] p \in job[h].current ->
                    [sub[p] EXCEPT !.status = "CANCELLED", !.autoRenew = FALSE,
                                   !.expiresAt = today]
              [] p \in s -> [sub[p] EXCEPT !.status = "CANCELLED"]
              [] OTHER -> sub[p]]
    /\ tier' = t /\ tierExpiresAt' = end

PayDowngrade(h, o, t) ==
    LET cur == job[h].row IN
    /\ Pay(h, o, t) /\ Mode(cur, t) = "DOWNGRADE"
    /\ sub' = [p \in Orders |->
            CASE p = o -> NewRow(t, "SCHEDULED", cur.expiresAt, After(cur.expiresAt))
              [] p \in job[h].current -> [sub[p] EXCEPT !.autoRenew = FALSE]
              [] OTHER -> sub[p]]
    /\ UNCHANGED users

PayWrite(h, o) ==
    \E t \in Tiers : PayExtend(h, o, t) \/ PayUpgrade(h, o, t) \/ PayDowngrade(h, o, t)

-----------------------------------------------------------------------------
(* cancelAutoRenew, resumeAutoRenew, cancelScheduledSubscription *)

ToggleRead(h, on) ==
    /\ \E c \in Latest(Running) :
         Start(h, [NoJob EXCEPT !.at = IF on THEN "TOGGLE_ON" ELSE "TOGGLE_OFF",
                                !.current = {c}])
    /\ UNCHANGED rows /\ Env

Toggle(h) ==
    /\ \/ At(h, "TOGGLE_ON") \/ At(h, "TOGGLE_OFF") \/ At(h, "RESUME")
    /\ sub' = [o \in Orders |-> IF o \in job[h].current
                 THEN [sub[o] EXCEPT !.autoRenew = ~At(h, "TOGGLE_OFF")] ELSE sub[o]]
    /\ Done(h)
    /\ UNCHANGED <<users, order>> /\ Env

UnscheduleRead(h) ==
    /\ \E s \in Earliest(InStatus({"SCHEDULED"})) :
         Start(h, [NoJob EXCEPT !.at = "DROP", !.current = {s}])
    /\ UNCHANGED rows /\ Env

\* WHERE status = SCHEDULED; the running plan is then renewed again.
Unschedule(h) ==
    /\ At(h, "DROP")
    /\ \E s \in job[h].current :
         IF sub[s].status = "SCHEDULED"
         THEN /\ sub' = [sub EXCEPT ![s].status = "CANCELLED"]
              /\ Set(h, [job[h] EXCEPT !.at = "RESUME", !.current = {}])
         ELSE Done(h) /\ UNCHANGED sub
    /\ UNCHANGED <<users, order>> /\ Env

ResumeRead(h) ==
    /\ At(h, "RESUME") /\ job[h].current = {}
    /\ IF Running = {} THEN Done(h)
       ELSE \E c \in Latest(Running) : Set(h, [job[h] EXCEPT !.current = {c}])
    /\ UNCHANGED rows /\ Env

-----------------------------------------------------------------------------
(* expireSubscriptions, every night *)

\* Mutated form: the flag that stops the renewal stops the start, too.
DueRenewing == {o \in InStatus({"SCHEDULED"}) : sub[o].startsAt <= today /\ sub[o].autoRenew}
Due == {o \in InStatus({"SCHEDULED"}) : sub[o].startsAt <= today}

CronRead(h) ==
    /\ Start(h, [NoJob EXCEPT !.at = "START", !.due = Due])
    /\ \/ job'[h].due # {}
       \/ \E o \in InStatus({"ACTIVE"}) : sub[o].expiresAt < today
       \/ tier # "FREE" /\ tierExpiresAt # -1 /\ tierExpiresAt < today
    /\ UNCHANGED rows /\ Env

\* By id, whatever the row has become.
ActivateRow(h, o) ==
    /\ At(h, "START") /\ o \in job[h].due
    /\ sub' = [sub EXCEPT ![o].status = "ACTIVE",
                          ![o].expiresAt = After(IF sub[o].startsAt > today
                                                 THEN sub[o].startsAt ELSE today)]
    /\ Set(h, [job[h] EXCEPT !.at = "GRANT", !.order = {o}, !.due = @ \ {o}])
    /\ UNCHANGED <<users, order>> /\ Env

ActivateUser(h, o) ==
    /\ At(h, "GRANT") /\ o \in job[h].order
    /\ tier' = sub[o].tier /\ tierExpiresAt' = After(today)
    /\ Set(h, [job[h] EXCEPT !.at = "START", !.order = {}])
    /\ UNCHANGED <<order, sub>> /\ Env

EndSubscriptions(h) ==
    /\ At(h, "START") /\ job[h].due = {}
    /\ sub' = [o \in Orders |->
          IF sub[o].status = "ACTIVE" /\ sub[o].expiresAt < today
          THEN [sub[o] EXCEPT !.status = IF sub[o].autoRenew THEN "EXPIRED" ELSE "CANCELLED"]
          ELSE sub[o]]
    /\ Set(h, [job[h] EXCEPT !.at = "FREE"])
    /\ UNCHANGED <<users, order>> /\ Env

EndTier(h) ==
    /\ At(h, "FREE")
    /\ IF tier # "FREE" /\ tierExpiresAt # -1 /\ tierExpiresAt < today
       THEN tier' = "FREE" /\ tierExpiresAt' = -1 ELSE UNCHANGED users
    /\ Done(h)
    /\ UNCHANGED <<order, sub>> /\ Env

-----------------------------------------------------------------------------
(* sendRenewalReminders *)

RemindRead(h, o) ==
    /\ sub[o].status = "ACTIVE" /\ sub[o].autoRenew /\ ~sub[o].reminded
    /\ sub[o].expiresAt \in today .. (today + RENEWAL_REMINDER_DAYS_BEFORE)
    /\ InStatus({"SCHEDULED"}) = {} /\ Unused # {}
    /\ Start(h, [NoJob EXCEPT !.at = "REMIND", !.current = {o}, !.tier = sub[o].tier])
    /\ UNCHANGED rows /\ Env

\* An open order for the tier is offered again.
OpenFor(t) == {o \in Orders : order[o].status = "CREATED" /\ order[o].tier = t /\ order[o].linked}
RemindReuse(h) ==
    /\ At(h, "REMIND") /\ OpenFor(job[h].tier) # {}
    /\ Set(h, [job[h] EXCEPT !.at = "MARK"])
    /\ UNCHANGED rows /\ Env
RemindCreate(h, o) ==
    /\ At(h, "REMIND") /\ OpenFor(job[h].tier) = {}
    /\ Create(h, o, job[h].tier, TIER_PRICES[job[h].tier])
    /\ Set(h, [job[h] EXCEPT !.at = "LINK", !.order = {o}])

RemindMark(h) ==
    /\ At(h, "MARK")
    /\ sub' = [o \in Orders |-> IF o \in job[h].current
                                THEN [sub[o] EXCEPT !.reminded = TRUE] ELSE sub[o]]
    /\ Done(h)
    /\ UNCHANGED <<users, order>> /\ Env

-----------------------------------------------------------------------------
\* The server stops, or the mail of a reminder fails; a payment is rolled back.
Crash(h) ==
    /\ errors < MaxErrors /\ ~At(h, "IDLE")
    /\ errors' = errors + 1
    /\ Done(h)
    /\ UNCHANGED <<rows, today>>

DayPasses ==
    /\ today + Tick <= LastDay
    /\ \A h \in Handlers : At(h, "IDLE")
    /\ today' = today + Tick
    /\ order' = [o \in Orders |-> IF order[o].status = "CREATED"
                                  THEN [order[o] EXCEPT !.status = "CANCELLED"] ELSE order[o]]
    /\ UNCHANGED <<users, sub, job, errors>>

CustomerStep(h) ==
    \/ \E t \in Tiers : CheckoutRead(h, t)
    \/ \E o \in Orders : CheckoutCreate(h, o) \/ CheckoutLink(h, o)
    \/ ToggleRead(h, TRUE) \/ ToggleRead(h, FALSE) \/ Toggle(h)
    \/ UnscheduleRead(h) \/ Unschedule(h) \/ ResumeRead(h)
PayerStep(h) == \E o \in Orders : PayRead(h, o) \/ PayWrite(h, o)
NightStep(h) ==
    \/ CronRead(h) \/ EndSubscriptions(h) \/ EndTier(h)
    \/ \E o \in Orders : ActivateRow(h, o) \/ ActivateUser(h, o)
ReminderStep(h) ==
    \/ RemindReuse(h) \/ RemindMark(h)
    \/ \E o \in Orders : RemindRead(h, o) \/ RemindCreate(h, o) \/ CheckoutLink(h, o)

Next ==
    \/ \E h \in Customers : CustomerStep(h)
    \/ \E h \in Payers : PayerStep(h)
    \/ \E h \in Nights : NightStep(h)
    \/ \E h \in Reminders : ReminderStep(h)
    \/ \E o \in Orders : CloseOrder(o)
    \/ \E h \in Handlers : Crash(h)
    \/ DayPasses

Spec == Init /\ [][Next]_vars
\* The cron runs every night for as long as the server lives.
FairSpec == Spec /\ \A h \in Nights : WF_vars(NightStep(h))

-----------------------------------------------------------------------------
(* Properties *)

\* The tier the user has for more than this instant.
Lasting == IF tierExpiresAt > today THEN tier ELSE "FREE"
Paid(o) == order[o].status = "CREATED" /\ order'[o].status = "COMPLETED"

\* Since payment h read the plan that ends last, one that ends later runs: another
\* payment's, or one the cron started from a list read before the plan was given up.
Overtaken(h) == \E p \in InStatus({"ACTIVE"}) : sub[p].expiresAt > job[h].row.expiresAt
\* The plan it read runs, in a lower tier than the user has: the cron started it and has
\* not told the user yet, or stopped before it did.
Behind(h) == /\ job[h].row.status = "ACTIVE"
             /\ TIER_RANK[job[h].row.tier] < TIER_RANK[Lasting]

\* Whatever the user bought before, and whatever the cron and the user's own
\* requests did meanwhile: the payment of a plan does not bring the end of the
\* user's tier nearer, unless a plan that ends later was started after it read the
\* last one, and does not lower the tier either, unless that last plan is one the user
\* was not told of (createOrExtendSubscription).
PaymentNeverTakesAway ==
    [][ \A h \in Payers, o \in Orders :
          At(h, "PAY") /\ o \in job[h].order /\ Paid(o) /\ ~Overtaken(h) =>
            /\ tierExpiresAt' >= tierExpiresAt
            /\ Behind(h) \/ TIER_RANK[tier'] >= TIER_RANK[Lasting] ]_vars

\* A plan bought for later starts when its day comes, unless the user gave it
\* up or bought a better one (expireSubscriptions).
ScheduledStarts ==
    \A o \in Orders :
        (sub[o].status = "SCHEDULED" /\ sub[o].startsAt <= today) ~> sub[o].status # "SCHEDULED"

\* A tier that ended is taken back, while payments and the cron's own
\* activations set it anew (expireSubscriptions).
EndedTierEnds == (tier # "FREE" /\ resolveEffectiveTier = "FREE")
                    ~> (tier = "FREE" \/ resolveEffectiveTier # "FREE")

\* Both, whatever crash interrupts a night of the cron or a payment in between.
NightlyWorkIsDone == ScheduledStarts /\ EndedTierEnds
=============================================================================
