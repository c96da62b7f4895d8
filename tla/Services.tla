------------------------------ MODULE Services ------------------------------
(***************************************************************************)
(* The services around the orders, side by side.  They share no rows, keys *)
(* or locks with one another, so a behaviour is one service's, and `scope` *)
(* says whose.  A variable or constant is the one of that name of the      *)
(* service in scope; what it has no use for stays idle.                    *)
(***************************************************************************)
EXTENDS Naturals, FiniteSets

CONSTANTS
    Handlers,                                        \* requests at one time, in every service
    MaxCrashes,                                      \* bound: requests a stop interrupts
    Keys, NoKey, Colors, Quantities, ListPrices, SalePercent, CouponPercent, MaxDiscount,
    MinOrder, UsageLimit, UsageLimitPerUser, MaxOrders, MaxEdits,            \* Checkout
    Lines, CART_MAX_LINES, CART_MAX_QUANTITY,                                \* Cart
    Places, Undeliverable, ADDRESS_LIMIT, MaxVersion, MaxCreated,            \* AddressBook
    ClientIds, MaxMessages, MAX_MESSAGES_PER_MINUTE,                         \* OrderChat
    Orders, Ratings,                                                         \* Reviews
    OutboxAttempts, MailAttempts, MaxAsks, MaxFaults,                        \* Outbox
    Users, Devices, MaxTime, MaxNotes,                                       \* Notices
    MaxPictures, Collections, Names,                                         \* Catalogue
    Admins, OTP_MAX_ATTEMPTS, MaxCodes, MaxResets,                           \* Accounts
    MaxTokens, MaxRevocations, MaxOutages,                                   \* Sessions
    Products, Campaigns, Percents, Horizon, Windows, ListPrice, MaxChanges,  \* Sales
    Outfits, Limit, Mock,                                                    \* AiStudio
    Provinces, MaxRuns                                                       \* Locations

VARIABLES
    scope,
    \* used by several
    job, unread, together, created, lock, sent, overlapped, faults, issued, rows, expired,
    late,
    \* used by one, in the order of the constants
    product, coupon, redemptions, address, token, orders, idempotency, edits,
    cart, selling, crowded, uncapped,
    book,
    closed, messages, blurred, forgotten,
    reviews, shown,
    kind, enabled, malformed, row, attemptCount, made, stalls, asked, failed,
    now, socket, timers, renewals, revived, owner, push, pushed, swapped,
    life, ordered, pictures, mains, garment, stored, named, listed,
    account, otp, attempts, cooling, due, guesses, tokens, spared, applied, admins, confused,
    keys, hidden, blacklist, codes, revocations, ended, revoked,
    campaign, changes,
    action, up, counter, memory, usage, pending, locks, memLocks, tryOns, styled, open,
    delivered, errors, outages, expiries, deletes,
    runs, metadata, publications, stragglers, served

Checkout == INSTANCE Checkout
Cart == INSTANCE Cart
AddressBook == INSTANCE AddressBook
OrderChat == INSTANCE OrderChat
Reviews == INSTANCE Reviews
Outbox == INSTANCE Outbox
Notices == INSTANCE Notices
Catalogue == INSTANCE Catalogue
Accounts == INSTANCE Accounts
Sessions == INSTANCE Sessions WITH MaxFaults <- MaxOutages
Sales == INSTANCE Sales
AiStudio == INSTANCE AiStudio WITH MaxFaults <- MaxOutages
Locations == INSTANCE Locations

\* The limits are natural numbers, a product has finitely many lines, finitely many requests
\* run at one time, what stands for no key and for the free lock is no key and no request,
\* campaigns and moments are numbers (0 is no campaign), and there is an administrator.
ASSUME ServicesAssumption ==
    /\ IsFiniteSet(Handlers) /\ NoKey \notin Keys /\ UsageLimit \in Nat /\ UsageLimitPerUser \in Nat
    /\ IsFiniteSet(Lines) /\ CART_MAX_LINES \in Nat /\ CART_MAX_QUANTITY \in Nat \ {0}
    /\ AddressBook!Free \notin Handlers
    /\ \A a \in AiStudio!Actions : Limit[a] \in Nat
    /\ Campaigns \subseteq Nat \ {0} /\ IsFiniteSet(Campaigns) /\ Percents \subseteq Nat
    /\ ListPrice \in Nat /\ Horizon \in Nat /\ Windows \subseteq (0..Horizon + 1) \X (0..Horizon + 1)
    /\ OutboxAttempts \in Nat /\ MailAttempts \in Nat /\ MaxTime \in Nat
    /\ OTP_MAX_ATTEMPTS \in Nat /\ MaxResets \in Nat /\ Admins # {}

checkout  == <<product, coupon, redemptions, address, token, orders, idempotency, edits>>
carts     == <<cart, selling, crowded, uncapped>>
chats     == <<closed, messages, blurred, forgotten>>
ratings   == <<reviews, shown>>
outbox    == <<kind, enabled, malformed, row, attemptCount, made, stalls, asked, failed>>
notices   == <<now, socket, timers, renewals, revived, owner, push, pushed, swapped>>
catalogue == <<life, ordered, pictures, mains, garment, stored, named, listed>>
accounts  == <<account, otp, attempts, cooling, due, guesses, tokens, spared, applied, admins,
               confused>>
sessions  == <<keys, hidden, blacklist, codes, revocations, ended, revoked>>
sales     == <<campaign, changes>>
studio    == <<action, up, counter, memory, usage, pending, locks, memLocks, tryOns, styled,
               open, delivered, errors, outages, expiries, deletes>>
locations == <<runs, metadata, publications, stragglers, served>>
shared    == <<job, unread, together, created, lock, sent, overlapped, faults, issued, rows,
               expired, late>>
vars == <<scope, shared, checkout, carts, book, chats, ratings, outbox, notices, catalogue,
          accounts, sessions, sales, studio, locations>>

Idle == "idle"
Faulty == {"Cart", "OrderChat", "Outbox", "Accounts", "Sessions", "Locations"}

\* A variable is idle outside the services that use it.
IdleShared ==
    /\ scope = "Notices" => job = Idle
    /\ scope \notin {"OrderChat", "Notices"} => unread = Idle
    /\ scope \notin {"Checkout", "Accounts", "Sales"} => together = Idle
    /\ scope \notin {"AddressBook", "Notices"} => created = Idle
    /\ scope \notin {"AddressBook", "Locations"} => lock = Idle
    /\ scope \notin {"OrderChat", "Outbox", "Accounts"} => sent = Idle
    /\ scope \notin {"Reviews", "Catalogue"} => overlapped = Idle
    /\ scope \notin Faulty => faults = Idle
    /\ scope \notin {"Accounts", "Sessions"} => issued = Idle
    /\ scope \notin {"Sessions", "Locations"} => rows = Idle /\ expired = Idle
    /\ scope \notin {"Outbox", "Sessions"} => late = Idle

IdleOwn ==
    /\ scope # "Checkout" => product = Idle /\ coupon = Idle /\ redemptions = Idle
                          /\ address = Idle /\ token = Idle /\ orders = Idle /\ idempotency = Idle
                          /\ edits = Idle
    /\ scope # "Cart" => cart = Idle /\ selling = Idle /\ crowded = Idle /\ uncapped = Idle
    /\ scope # "AddressBook" => book = Idle
    /\ scope # "OrderChat" => closed = Idle /\ messages = Idle /\ blurred = Idle
                           /\ forgotten = Idle
    /\ scope # "Reviews" => reviews = Idle /\ shown = Idle
    /\ scope # "Outbox" => kind = Idle /\ enabled = Idle /\ malformed = Idle /\ row = Idle
                        /\ attemptCount = Idle /\ made = Idle /\ stalls = Idle /\ asked = Idle
                        /\ failed = Idle
    /\ scope # "Notices" => now = Idle /\ socket = Idle /\ timers = Idle /\ renewals = Idle
                         /\ revived = Idle /\ owner = Idle /\ push = Idle /\ pushed = Idle
                         /\ swapped = Idle
    /\ scope # "Catalogue" => life = Idle /\ ordered = Idle /\ pictures = Idle /\ mains = Idle
                           /\ garment = Idle /\ stored = Idle /\ named = Idle /\ listed = Idle
    /\ scope # "Accounts" => account = Idle /\ otp = Idle /\ attempts = Idle /\ cooling = Idle
                          /\ due = Idle /\ guesses = Idle /\ tokens = Idle /\ spared = Idle
                          /\ applied = Idle /\ admins = Idle /\ confused = Idle
    /\ scope # "Sessions" => keys = Idle /\ hidden = Idle /\ blacklist = Idle /\ codes = Idle
                          /\ revocations = Idle /\ ended = Idle /\ revoked = Idle
    /\ scope # "Sales" => campaign = Idle /\ changes = Idle
    /\ scope # "AiStudio" => action = Idle /\ up = Idle /\ counter = Idle /\ memory = Idle
                          /\ usage = Idle /\ pending = Idle /\ locks = Idle /\ memLocks = Idle
                          /\ tryOns = Idle /\ styled = Idle /\ open = Idle /\ delivered = Idle
                          /\ errors = Idle /\ outages = Idle /\ expiries = Idle /\ deletes = Idle
    /\ scope # "Locations" => runs = Idle /\ metadata = Idle /\ publications = Idle
                           /\ stragglers = Idle /\ served = Idle

Init ==
    /\ \/ scope = "Checkout" /\ Checkout!Init
       \/ scope = "Cart" /\ Cart!Init
       \/ scope = "AddressBook" /\ AddressBook!Init
       \/ scope = "OrderChat" /\ OrderChat!Init
       \/ scope = "Reviews" /\ Reviews!Init
       \/ scope = "Outbox" /\ Outbox!Init
       \/ scope = "Notices" /\ Notices!Init
       \/ scope = "Catalogue" /\ Catalogue!Init
       \/ scope = "Accounts" /\ Accounts!Init
       \/ scope = "Sessions" /\ Sessions!Init
       \/ scope = "Sales" /\ Sales!Init
       \/ scope = "AiStudio" /\ AiStudio!Init
       \/ scope = "Locations" /\ Locations!Init
    /\ IdleShared /\ IdleOwn

\* Only the service in scope moves.
KeepsShared ==
    /\ scope = "Notices" => UNCHANGED job
    /\ scope \notin {"OrderChat", "Notices"} => UNCHANGED unread
    /\ scope \notin {"Checkout", "Accounts", "Sales"} => UNCHANGED together
    /\ scope \notin {"AddressBook", "Notices"} => UNCHANGED created
    /\ scope \notin {"AddressBook", "Locations"} => UNCHANGED lock
    /\ scope \notin {"OrderChat", "Outbox", "Accounts"} => UNCHANGED sent
    /\ scope \notin {"Reviews", "Catalogue"} => UNCHANGED overlapped
    /\ scope \notin Faulty => UNCHANGED faults
    /\ scope \notin {"Accounts", "Sessions"} => UNCHANGED issued
    /\ scope \notin {"Sessions", "Locations"} => UNCHANGED <<rows, expired>>
    /\ scope \notin {"Outbox", "Sessions"} => UNCHANGED late

KeepsOwn ==
    /\ scope # "Checkout" => UNCHANGED checkout
    /\ scope # "Cart" => UNCHANGED carts
    /\ scope # "AddressBook" => UNCHANGED book
    /\ scope # "OrderChat" => UNCHANGED chats
    /\ scope # "Reviews" => UNCHANGED ratings
    /\ scope # "Outbox" => UNCHANGED outbox
    /\ scope # "Notices" => UNCHANGED notices
    /\ scope # "Catalogue" => UNCHANGED catalogue
    /\ scope # "Accounts" => UNCHANGED accounts
    /\ scope # "Sessions" => UNCHANGED sessions
    /\ scope # "Sales" => UNCHANGED sales
    /\ scope # "AiStudio" => UNCHANGED studio
    /\ scope # "Locations" => UNCHANGED locations

Next ==
    /\ UNCHANGED scope /\ KeepsShared /\ KeepsOwn
    /\ \/ scope = "Checkout" /\ Checkout!Next
       \/ scope = "Cart" /\ Cart!Next
       \/ scope = "AddressBook" /\ AddressBook!Next
       \/ scope = "OrderChat" /\ OrderChat!Next
       \/ scope = "Reviews" /\ Reviews!Next
       \/ scope = "Outbox" /\ Outbox!Next
       \/ scope = "Notices" /\ Notices!Next
       \/ scope = "Catalogue" /\ Catalogue!Next
       \/ scope = "Accounts" /\ Accounts!Next
       \/ scope = "Sessions" /\ Sessions!Next
       \/ scope = "Sales" /\ Sales!Next
       \/ scope = "AiStudio" /\ AiStudio!Next
       \/ scope = "Locations" /\ Locations!Next

Spec == Init /\ [][Next]_vars

-----------------------------------------------------------------------------
(* Properties: those of the services, stated and explained there *)

\* Sessions: a refresh sent again is answered for a minute.
RetryIsServed == [][scope = "Sessions" => Sessions!RetryServed]_vars
\* Checkout: an order sent again is not placed again.
OneOrderPerKey == scope = "Checkout" => Checkout!OneOrderPerKey
\* Checkout: a discount has its redemption, within the limits.
DiscountIsClaimed == scope = "Checkout" => Checkout!DiscountIsClaimed
\* Cart: the whole cart can be put in one order.
CartFitsAnOrder == scope = "Cart" => Cart!CartFitsAnOrder
\* AddressBook: an address book has one default address.
OneDefault == scope = "AddressBook" => AddressBook!OneDefault
\* OrderChat: the counter of a side is what it has not read.
UnreadIsCounted == scope = "OrderChat" => OrderChat!UnreadIsCounted
\* Reviews: the shown rating is behind by the last change at most.
RatingIsOneBehind == scope = "Reviews" => Reviews!RatingIsOneBehind
\* Outbox: what was accepted is done.
AcceptedIsDone == scope = "Outbox" => Outbox!AcceptedIsDone
\* Notices: a notification reaches nobody but its user.
ReachesOnlyItsUser == scope = "Notices" => Notices!ReachesOnlyItsUser
\* Catalogue: a product with pictures has one main picture.
OneMainPicture == scope = "Catalogue" => Catalogue!OneMainPicture
\* Accounts: mailed codes work, an administrator remains, a link works once.
NobodyLockedOut == scope = "Accounts" => Accounts!NobodyLockedOut
\* Sessions: no token opens a session again once it was revoked.
RevokedStaysOut == scope = "Sessions" => Sessions!RevokedStaysOut
\* Sales: campaigns do not overlap, and one price is shown if they do.
OverlapIsHarmless == scope = "Sales" => Sales!OverlapIsHarmless
\* AiStudio: what is given and what is charged stay within the limits.
QuotaFollowsResults == scope = "AiStudio" => AiStudio!QuotaFollowsResults
\* AiStudio: a picture is bought once.
BoughtOnce == scope = "AiStudio" => AiStudio!BoughtOnce
\* Locations: a revision of the catalog is one whole copy.
RevisionIsOneWholeCatalog == scope = "Locations" => Locations!RevisionIsOneWholeCatalog
=============================================================================
