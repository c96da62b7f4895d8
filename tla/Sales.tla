--------------------------------- MODULE Sales ---------------------------------
(***************************************************************************)
(* Sale campaigns: a product is meant to be in one active campaign at a    *)
(* time.  An administrator's request reads the campaigns that could be in  *)
(* the way and then writes its own, without a lock, so two requests that   *)
(* overlap can miss each other; the price shown is then the lowest one,    *)
(* in whatever order the rows come.                                        *)
(***************************************************************************)
EXTENDS Naturals, Sequences, FiniteSets, SequencesExt

CONSTANTS
    Handlers,          \* administrators at work
    Products,
    Campaigns,         \* ids of campaigns, numbers
    Percents,          \* discounts
    Horizon,           \* bound: the last moment a campaign starts or ends at
    Windows,           \* pairs of a start and an end, Horizon + 1 when it is not given
    ListPrice,         \* price of every product
    MaxChanges         \* bound: requests

Always == Horizon + 1  \* a start or an end that is not given

VARIABLES
    campaign,          \* sale_campaigns with their items
    job,
    changes,
    together           \* history: pairs checked while the other's check was not yet written

vars == <<campaign, job, changes, together>>

None  == [exists |-> FALSE, active |-> FALSE, startsAt |-> Always, endsAt |-> Always,
          products |-> {}, percent |-> 0]
NoJob == [at |-> "IDLE", id |-> 0, next |-> None, fields |-> {}]

Drafts  == {[exists |-> TRUE, active |-> a, startsAt |-> w[1], endsAt |-> w[2],
             products |-> p, percent |-> r] :
             a \in BOOLEAN, w \in Windows, p \in SUBSET Products, r \in Percents}

Init ==
    /\ campaign = [c \in Campaigns |-> None]
    /\ job = [h \in Handlers |-> NoJob]
    /\ changes = 0 /\ together = {}

-----------------------------------------------------------------------------
(* assertWindow, windowsOverlap, assertNoOverlap *)

assertWindow(c) == c.startsAt = Always \/ c.endsAt = Always \/ c.startsAt < c.endsAt

\* No start is before every moment, no end after every one.
Before(start, end) == start = Always \/ end = Always \/ start < end

StartsInside(a, b) == Before(a.startsAt, b.endsAt) /\ Before(b.startsAt, a.startsAt)

windowsOverlap(a, b) == Before(a.startsAt, b.endsAt) /\ Before(b.startsAt, a.endsAt)

Conflict(a, b) ==
    /\ a.active /\ b.active /\ a.products \cap b.products # {}
    /\ windowsOverlap(a, b)

assertNoOverlap(c, id) ==
    c.active => \A d \in Campaigns \ {id} : ~Conflict(c, campaign[d])

-----------------------------------------------------------------------------
(* create, update, remove *)

Checking == {job[h].id : h \in {g \in Handlers : job[g].at = "WRITE"}}

Check(h, id, next, fields) ==
    /\ assertWindow(next) /\ assertNoOverlap(next, id)
    /\ job' = [job EXCEPT ![h] = [at |-> "WRITE", id |-> id, next |-> next, fields |-> fields]]
    /\ changes' = changes + 1
    /\ together' = together \cup {{id, d} : d \in Checking}
    /\ UNCHANGED campaign

AllFields == {"active", "startsAt", "endsAt", "products", "percent"}

\* A campaign is created with products in it; ids are given in order.
create(h) ==
    /\ job[h] = NoJob /\ changes < MaxChanges
    /\ \E id \in Campaigns :
        /\ ~campaign[id].exists /\ id \notin Checking
        /\ \A d \in Campaigns : d < id => campaign[d].exists \/ d \in Checking
        /\ \E next \in Drafts : next.products # {} /\ Check(h, id, next, AllFields)

\* What the request does not give is taken from the row read first, and not written.
update(h) ==
    job[h] = NoJob /\ changes < MaxChanges /\ \E id \in Campaigns :
        LET was == campaign[id]
        IN /\ was.exists
           /\ \/ \E a \in BOOLEAN : Check(h, id, [was EXCEPT !.active = a], {"active"})
              \/ \E p \in SUBSET Products : Check(h, id, [was EXCEPT !.products = p], {"products"})
              \/ \E w \in Windows : Check(h, id, [was EXCEPT !.startsAt = w[1], !.endsAt = w[2]],
                                          {"startsAt", "endsAt"})

Write(h) ==
    LET j == job[h] IN
    /\ j.at = "WRITE"
    /\ IF campaign[j.id].exists \/ j.fields = AllFields
       THEN campaign' = [campaign EXCEPT ![j.id] =
                [f \in DOMAIN None |-> IF f \in j.fields \cup {"exists"} THEN j.next[f] ELSE @[f]]]
       ELSE UNCHANGED campaign
    /\ job' = [job EXCEPT ![h] = NoJob]
    /\ UNCHANGED <<changes, together>>

remove(id) ==
    /\ campaign[id].exists /\ changes < MaxChanges
    /\ changes' = changes + 1
    /\ campaign' = [campaign EXCEPT ![id] = None]
    /\ UNCHANGED <<job, together>>

Next ==
    \/ \E h \in Handlers : create(h) \/ update(h) \/ Write(h)
    \/ \E id \in Campaigns : remove(id)

Spec == Init /\ [][Next]_vars

-----------------------------------------------------------------------------
(* resolveSaleForProducts *)

Running(c, at) ==
    /\ campaign[c].active
    /\ campaign[c].startsAt = Always \/ campaign[c].startsAt <= at
    /\ campaign[c].endsAt = Always \/ campaign[c].endsAt > at

resolveSalePrice(percent) == (ListPrice * (100 - percent) + 50) \div 100

Price(c) == resolveSalePrice(campaign[c].percent)

\* The lower price, then the one that ends first, then the smaller id.
isBetterSale(next, current) ==
    LET n == campaign[next]
        c == campaign[current]
    IN \/ Price(next) < Price(current)
       \/ Price(next) = Price(current) /\ n.endsAt < c.endsAt
       \/ Price(next) = Price(current) /\ n.endsAt = c.endsAt /\ next < current

\* The rows of the product, in the order the database gives them; 0 when there is none.
resolveSale(rows) ==
    FoldLeft(LAMBDA best, c : IF best = 0 \/ isBetterSale(c, best) THEN c ELSE best, 0, rows)

Rows(p, at) == {c \in Campaigns : p \in campaign[c].products /\ Running(c, at)}

-----------------------------------------------------------------------------
(* Properties *)

OverlapOnlyTogether ==
    \A c, d \in Campaigns : c # d /\ Conflict(campaign[c], campaign[d])
                            => together \cap {{c, d}, {c}, {d}} # {}
OnePrice ==
    \A p \in Products, at \in 0..Horizon :
        LET rows == Rows(p, at) IN
        \A s, t \in SetToAllKPermutations(rows) :
            Len(s) = Cardinality(rows) /\ Len(t) = Len(s)
            => /\ resolveSale(s) = resolveSale(t)
               /\ \A c \in rows : Price(resolveSale(s)) <= Price(c)

\* Two active campaigns share a product at a moment only when one was checked while the
\* other was checked and not yet written (assertNoOverlap, sale-campaigns.service.ts:211,
\* takes no lock), or when two requests changed one of them at once: each checked it with
\* its own change and wrote that change only, and nobody checked both.  No sequence of
\* creations, changes of dates, products or isActive, and removals that do not overlap
\* brings it about.  When it happens all the same, every
\* reader gets one answer, the lowest price: the order the rows come in decides nothing
\* (resolveSaleForProducts), so a quote and the order placed with it agree.
OverlapIsHarmless == OverlapOnlyTogether /\ OnePrice
===============================================================================
