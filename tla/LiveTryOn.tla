------------------------------- MODULE LiveTryOn -------------------------------
(***************************************************************************)
(* Live try-on sessions: the seconds a session reserves in the budget of   *)
(* its user and in the global one, the lease that allows one session at a  *)
(* time, the short-lived token of the provider, pause and resume, and the  *)
(* cron that settles the sessions nobody ended.                            *)
(*                                                                         *)
(* One quota day.  A session stands for the idempotency key that creates   *)
(* it; the outfit it shows is left out, except that finding it may fail.   *)
(***************************************************************************)
EXTENDS Integers, FiniteSets, FiniteSetsExt

CONSTANTS
    Users, Sessions, Owner, TierOf,  \* who a session belongs to, and his tier
    Global,                          \* the scope of everybody's budget
    userDailySeconds, globalDailySeconds, maxDurationSeconds,
    minSessionSeconds, maxConcurrentSessions, pauseTimeoutSeconds,
    setupSeconds,                    \* tokenTtlSeconds + graceSeconds
    Clients, Crons,                  \* requests, and runs of the cron, at one time
    MaxTime, MaxErrors, MaxPolicies  \* bounds: the clock, crashes, policy changes

LiveTiers == {"MEMBER", "VIP"}

ASSUME LiveTryOnAssumption ==
    /\ Owner \in [Sessions -> Users] /\ TierOf \in [Users -> LiveTiers]
    /\ Global \notin Users /\ IsFiniteSet(Sessions) /\ IsFiniteSet(Clients)
    /\ userDailySeconds \in Nat /\ globalDailySeconds \in Nat
    /\ maxDurationSeconds \in Nat /\ minSessionSeconds \in Nat
    /\ maxConcurrentSessions \in Nat /\ pauseTimeoutSeconds \in Nat
    /\ setupSeconds \in Nat /\ MaxTime \in Nat
    /\ MaxErrors \in Nat /\ MaxPolicies \in Nat

VARIABLES
    liveTiers,   \* the tiers the admin settings enable
    budget,      \* live_try_on_budgets of the day
    sess,        \* live_try_on_sessions
    lease,       \* live_try_on_leases, one per user
    now, job, errors, policies

vars == <<liveTiers, budget, sess, lease, now, job, errors, policies>>

-----------------------------------------------------------------------------
(* Rows *)

Scopes == Users \cup {Global}
Limit  == [b \in Scopes |-> IF b = Global THEN globalDailySeconds ELSE userDailySeconds]
\* blockedUntil and pauseExpiresAt lie in the future; -1 is null.
Times  == -1 .. (MaxTime + setupSeconds + maxDurationSeconds + pauseTimeoutSeconds)

NoSession == [status |-> "NONE", credential |-> "NONE", reservation |-> "NONE",
              reserved |-> 0, used |-> 0, allocated |-> 0,
              startedAt |-> -1, pauseUntil |-> -1, blockedUntil |-> -1]
Session == [status : {"NONE", "ACTIVE", "PAUSED", "ENDED", "EXPIRED", "FAILED"},
            credential : {"NONE", "ISSUING", "ISSUED", "ISSUE_FAILED", "ISSUE_UNKNOWN"},
            reservation : {"NONE", "RESERVED", "ALLOCATED", "RELEASED"},
            reserved : 0..maxDurationSeconds, used : 0..maxDurationSeconds,
            allocated : 0..maxDurationSeconds,
            startedAt : Times, pauseUntil : Times, blockedUntil : Times]

NoLease == [session |-> {}, expiresAt |-> -1]
\* What a request keeps of the row it read.
Seen(r) == [reservation |-> r.reservation, reserved |-> r.reserved,
            used |-> r.used, startedAt |-> r.startedAt]
SeenRow == [reservation : {"NONE", "RESERVED", "ALLOCATED", "RELEASED"},
            reserved : 0..maxDurationSeconds, used : 0..maxDurationSeconds,
            startedAt : Times]
NoJob == [at |-> "IDLE", s |-> {}, since |-> -1, read |-> Seen(NoSession), used |-> 0]
Job == [at : {"IDLE", "RESERVE", "TOKEN", "PAUSE", "RESUME", "END", "SETTLE", "CRON"},
        s : SUBSET Sessions, since : -1..MaxTime, used : 0..maxDurationSeconds,
        read : SeenRow]

TypeOK ==
    /\ liveTiers \in SUBSET LiveTiers
    /\ budget \in [Scopes -> [reserved : Int, allocated : Nat]]
    /\ sess \in [Sessions -> Session]
    /\ lease \in [Users -> [session : SUBSET Sessions, expiresAt : Times]]
    /\ now \in 0..MaxTime
    /\ job \in [Clients \cup Crons -> Job]
    /\ errors \in 0..MaxErrors /\ policies \in 0..MaxPolicies

Init ==
    /\ liveTiers = LiveTiers
    /\ budget = [b \in Scopes |-> [reserved |-> 0, allocated |-> 0]]
    /\ sess = [s \in Sessions |-> NoSession]
    /\ lease = [u \in Users |-> NoLease]
    /\ now = 0 /\ errors = 0 /\ policies = 0
    /\ job = [h \in Clients \cup Crons |-> NoJob]

rows == <<budget, sess, lease>>
Env  == UNCHANGED <<liveTiers, now, errors, policies>>

Set(h, j)    == job' = [job EXCEPT ![h] = j]
Done(h)      == Set(h, NoJob)
Start(h, j)  == job[h] = NoJob /\ Set(h, j)
At(h, s, stage) == job[h].at = stage /\ job[h].s = {s}
Least(a, b)  == IF a <= b THEN a ELSE b

Eligible(u)  == TierOf[u] \in liveTiers
\* The scopes a session of u draws on, and the row of the session after a change.
ScopesOf(u)  == {u, Global}
Leases       == {u \in Users : lease[u].expiresAt > now}
Release(s)   == lease' = [lease EXCEPT ![Owner[s]] = IF @.session = {s} THEN NoLease ELSE @]

AllocatedSeconds(r) ==
    r.used + (IF r.startedAt # -1 /\ now > r.startedAt THEN now - r.startedAt ELSE 0)
UncappedUsed(r) == AllocatedSeconds(r)
computeUsedSeconds(r) == Least(r.reserved, AllocatedSeconds(r))

\* The reserved seconds are given back and those used are charged, in both scopes.
Keep(u, reserved, used) ==
    budget' = [b \in Scopes |-> IF b \in ScopesOf(u)
                 THEN [budget[b] EXCEPT !.allocated = @ + used] ELSE budget[b]]
Charge(u, reserved, used) ==
    budget' = [b \in Scopes |-> IF b \in ScopesOf(u)
                 THEN [reserved |-> budget[b].reserved - reserved,
                       allocated |-> budget[b].allocated + used] ELSE budget[b]]

-----------------------------------------------------------------------------
(* createSession *)

CreateRead(h, s) ==
    /\ Eligible(Owner[s])
    /\ sess[s] = NoSession
    /\ Owner[s] \notin Leases
    /\ Start(h, [NoJob EXCEPT !.at = "RESERVE", !.s = {s}, !.since = now])
    /\ UNCHANGED rows /\ Env

Remaining(b) == Limit[b] - budget[b].reserved - budget[b].allocated
SessionBudget(u) == Least(maxDurationSeconds, Least(Remaining(u), Remaining(Global)))

Admitted(u) == /\ Cardinality(Leases) < maxConcurrentSessions
               /\ SessionBudget(u) > 0 /\ SessionBudget(u) >= minSessionSeconds

reserveSessionTx(h, s) ==
    LET u == Owner[s]
        until == job[h].since + setupSeconds + maxDurationSeconds + pauseTimeoutSeconds
        row == [NoSession EXCEPT !.status = "ACTIVE", !.credential = "ISSUING",
                    !.reservation = "RESERVED", !.reserved = SessionBudget(u),
                    !.blockedUntil = until]
    IN  /\ At(h, s, "RESERVE")
        /\ sess[s] = NoSession /\ Admitted(u)
        /\ sess' = [sess EXCEPT ![s] = row]
        /\ budget' = [b \in Scopes |-> IF b \in ScopesOf(u)
                        THEN [budget[b] EXCEPT !.reserved = @ + SessionBudget(u)]
                        ELSE budget[b]]
        /\ lease' = [lease EXCEPT ![u] = [session |-> {s}, expiresAt |-> until]]
        /\ Set(h, [job[h] EXCEPT !.at = "TOKEN", !.read = Seen(row)])
        /\ Env

\* The outfit cannot be shown, the key was used meanwhile, or the budget is spent.
ReserveRefused(h, s) ==
    /\ At(h, s, "RESERVE")
    /\ Done(h) /\ UNCHANGED rows /\ Env

Issue(h, s) ==
    /\ At(h, s, "TOKEN")
    /\ sess' = [sess EXCEPT ![s].credential = "ISSUED", ![s].startedAt = job[h].since]
    /\ Done(h) /\ UNCHANGED <<budget, lease>> /\ Env

releaseFailedReservation(h, s) ==
    /\ At(h, s, "TOKEN")
    /\ sess' = [sess EXCEPT ![s].credential = "ISSUE_FAILED",
                            ![s].reservation = "RELEASED", ![s].status = "FAILED"]
    /\ Charge(Owner[s], job[h].read.reserved, 0)
    /\ Release(s)
    /\ Done(h) /\ Env

-----------------------------------------------------------------------------
(* pauseSession, resumeSession, endSession: read, then write by id *)

Read(h, s, stage) ==
    /\ Start(h, [NoJob EXCEPT !.at = stage, !.s = {s}, !.read = Seen(sess[s])])
    /\ UNCHANGED rows /\ Env

PauseRead(h, s) == sess[s].status = "ACTIVE" /\ Read(h, s, "PAUSE")

Pause(h, s) ==
    /\ At(h, s, "PAUSE")
    /\ sess' = [sess EXCEPT ![s].status = "PAUSED", ![s].startedAt = -1,
                            ![s].used = computeUsedSeconds(job[h].read),
                            ![s].pauseUntil = now + pauseTimeoutSeconds]
    /\ Done(h) /\ UNCHANGED <<budget, lease>> /\ Env

ResumeRead(h, s) ==
    /\ Eligible(Owner[s])
    /\ sess[s].status = "PAUSED"
    /\ sess[s].pauseUntil > now
    /\ computeUsedSeconds(sess[s]) < sess[s].reserved
    /\ Read(h, s, "RESUME")

Resume(h, s) ==
    /\ At(h, s, "RESUME")
    /\ sess' = [sess EXCEPT ![s].status = "ACTIVE", ![s].credential = "ISSUED",
                            ![s].startedAt = now]
    /\ Done(h) /\ UNCHANGED <<budget, lease>> /\ Env

\* The outfit is gone from the catalog, or the provider gives no token.
ResumeRefused(h, s) ==
    /\ At(h, s, "RESUME")
    /\ Done(h) /\ UNCHANGED rows /\ Env

EndRead(h, s) == sess[s] # NoSession /\ Read(h, s, "END")

EndUpdate(h, s) ==
    LET used == computeUsedSeconds(job[h].read)
    IN  /\ At(h, s, "END")
        /\ sess' = [sess EXCEPT ![s].status = "ENDED", ![s].reservation = "ALLOCATED",
                                ![s].used = used, ![s].allocated = used,
                                ![s].startedAt = -1, ![s].blockedUntil = now]
        /\ IF job[h].read.reservation = "RESERVED"
           THEN Set(h, [job[h] EXCEPT !.at = "SETTLE", !.used = used])
           ELSE Done(h)
        /\ UNCHANGED <<budget, lease>> /\ Env

EndSettle(h, s) ==
    /\ At(h, s, "SETTLE")
    /\ Charge(Owner[s], job[h].read.reserved, job[h].used)
    /\ Release(s)
    /\ UNCHANGED sess
    /\ Done(h) /\ Env

-----------------------------------------------------------------------------
(* The cron of every minute *)

IssuedOnly == {"ISSUED", "ISSUE_UNKNOWN"}
SettledCredentials == {"ISSUING", "ISSUED", "ISSUE_UNKNOWN"}
Due(s) == sess[s].reservation = "RESERVED" /\ sess[s].blockedUntil <= now

\* It looks at the policy of MEMBER, whatever the tier of the sessions.
reconcileExpiredSessions(c) ==
    LET due == {s \in Sessions : Due(s) /\ sess[s].credential \in SettledCredentials}
    IN  /\ "MEMBER" \in liveTiers
        /\ due # {}
        /\ Start(c, [NoJob EXCEPT !.at = "CRON", !.s = due])
        /\ UNCHANGED rows /\ Env

settleExpiredSession(c, s) ==
    LET used == computeUsedSeconds(sess[s])
    IN  /\ job[c].at = "CRON" /\ s \in job[c].s
        /\ IF Due(s)
           THEN /\ Charge(Owner[s], sess[s].reserved, used)
                /\ Release(s)
                /\ sess' = [sess EXCEPT
                      ![s].status = IF @ = "ACTIVE" THEN "EXPIRED" ELSE @,
                      ![s].credential = IF @ = "ISSUING" THEN "ISSUE_UNKNOWN" ELSE @,
                      ![s].reservation = "ALLOCATED", ![s].allocated = used,
                      ![s].used = used, ![s].startedAt = -1]
           ELSE UNCHANGED rows
        /\ IF job[c].s = {s} THEN Done(c) ELSE Set(c, [job[c] EXCEPT !.s = @ \ {s}])
        /\ Env

-----------------------------------------------------------------------------

\* updateLiveTryOnSettings: an administrator enables or disables tiers.
SetPolicy(tiers) ==
    /\ policies < MaxPolicies /\ policies' = policies + 1
    /\ liveTiers' = tiers /\ tiers # liveTiers
    /\ UNCHANGED <<rows, now, job, errors>>

\* The process dies, or a query of the request fails.
Crash(h) ==
    /\ errors < MaxErrors /\ errors' = errors + 1
    /\ job[h] # NoJob /\ Done(h)
    /\ UNCHANGED <<rows, liveTiers, now, policies>>

Tick ==
    /\ now < MaxTime /\ now' = now + 1
    /\ UNCHANGED <<rows, liveTiers, job, errors, policies>>

Create(h, s) ==
    \/ CreateRead(h, s) \/ reserveSessionTx(h, s) \/ ReserveRefused(h, s)
    \/ Issue(h, s) \/ releaseFailedReservation(h, s)

Control(h, s) ==
    \/ PauseRead(h, s) \/ Pause(h, s)
    \/ ResumeRead(h, s) \/ Resume(h, s) \/ ResumeRefused(h, s)
    \/ EndRead(h, s) \/ EndUpdate(h, s) \/ EndSettle(h, s)

Cron(c) == reconcileExpiredSessions(c) \/ \E s \in Sessions : settleExpiredSession(c, s)

Next ==
    \/ \E h \in Clients, s \in Sessions : Create(h, s) \/ Control(h, s)
    \/ \E c \in Crons : Cron(c)
    \/ \E h \in Clients \cup Crons : Crash(h)
    \/ \E tiers \in SUBSET LiveTiers : SetPolicy(tiers)
    \/ Tick

Spec == Init /\ [][Next]_vars
\* Nest starts the cron again every minute and time passes; no client need end.
FairSpec == Spec /\ WF_vars(Tick) /\ \A c \in Crons : WF_vars(Cron(c))

-----------------------------------------------------------------------------
(* Properties *)

\* The seconds reserved and those charged never exceed the limit of the user, nor
\* the limit of everybody, whatever requests end, pause, fail or repeat at once.
NeverOverLimit ==
    \A b \in Scopes : budget[b].reserved + budget[b].allocated <= Limit[b]

\* While no request died, the seconds reserved in a budget are those of sessions
\* still RESERVED or of an end that is about to give them back: none stay lost to
\* the user for the day.
Holding(b, s) == sess[s].reservation = "RESERVED" /\ b \in ScopesOf(Owner[s])
Ending(b, h)  == job[h].at = "SETTLE" /\ \E s \in job[h].s : b \in ScopesOf(Owner[s])
ReservedIsHeld ==
    errors = 0 => \A b \in Scopes :
        budget[b].reserved <=
            MapThenSumSet(LAMBDA s : sess[s].reserved, {s \in Sessions : Holding(b, s)})
          + MapThenSumSet(LAMBDA h : job[h].read.reserved, {h \in Clients : Ending(b, h)})

\* If the policy of MEMBER stays enabled in the end, the cron settles every
\* reservation whose time is over, also the one of a request that died while the
\* provider was issuing its token.
ReservationEnds ==
    <>[]("MEMBER" \in liveTiers) => \A s \in Sessions : Due(s) ~> ~Due(s)
=============================================================================
