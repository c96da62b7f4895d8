--------------------------- MODULE LiveTryOnProofs ---------------------------
(***************************************************************************)
(* Theorems about LiveTryOn for any number of users, sessions, requests    *)
(* and runs of the cron, and any limits.                                   *)
(***************************************************************************)
EXTENDS LiveTryOn, FiniteSetTheorems, WellFoundedInduction, TLAPS

\* An end that has still to settle charges no more than the session reserved.
SettlesWithinReserve ==
    \A h \in Clients \cup Crons :
        job[h].at = "SETTLE" => job[h].used <= job[h].read.reserved

BudgetInv == TypeOK /\ NeverOverLimit /\ SettlesWithinReserve

USE LiveTryOnAssumption

(* The seconds a session used lie between zero and what it reserved. *)
LEMMA UsedWithinReserve ==
    ASSUME now \in 0..MaxTime,
           NEW r, r.reserved \in 0..maxDurationSeconds,
           r.used \in 0..maxDurationSeconds, r.startedAt \in Times
    PROVE  /\ computeUsedSeconds(r) \in 0..maxDurationSeconds
           /\ computeUsedSeconds(r) <= r.reserved
<1>1. AllocatedSeconds(r) \in Nat
  BY DEF AllocatedSeconds, Times
<1> QED BY <1>1 DEF computeUsedSeconds, Least

(* A typed job in the place of another, and no job, keep the table of jobs typed. *)
LEMMA JobStays ==
    ASSUME TypeOK, NEW h \in Clients \cup Crons, NEW j \in Job, Set(h, j)
    PROVE  /\ job' \in [Clients \cup Crons -> Job]
           /\ \A g \in Clients \cup Crons : job'[g] = IF g = h THEN j ELSE job[g]
BY DEF TypeOK, Set

LEMMA NoJobTyped == NoJob \in Job
BY DEF NoJob, Job, SeenRow, Seen, NoSession, Times

(* What a request keeps of a row it read is typed. *)
LEMMA SeenTyped ==
    ASSUME NEW r \in Session
    PROVE  Seen(r) \in SeenRow
BY DEF Seen, SeenRow, Session

Stages == {"IDLE", "RESERVE", "TOKEN", "PAUSE", "RESUME", "END", "SETTLE", "CRON"}

(* A job that goes on with the row it read, with the seconds it found used, and with
   the sessions it is about. *)
LEMMA JobWithRow ==
    ASSUME NEW j \in Job, NEW at \in Stages, NEW read \in SeenRow
    PROVE  /\ [j EXCEPT !.at = at, !.read = read] \in Job
           /\ [j EXCEPT !.at = at, !.read = read].at = at
BY DEF Job, Stages

WithUsed(j, at, seconds) == [j EXCEPT !.at = at, !.used = seconds]
LEMMA JobWithUsed ==
    ASSUME NEW j \in Job, NEW at \in Stages, NEW seconds \in 0..maxDurationSeconds
    PROVE  /\ WithUsed(j, at, seconds) \in Job
           /\ WithUsed(j, at, seconds).used = seconds
           /\ WithUsed(j, at, seconds).read = j.read
BY DEF Job, Stages, WithUsed

Since(at, s, since) == [NoJob EXCEPT !.at = at, !.s = {s}, !.since = since]
LEMMA JobSince ==
    ASSUME NEW at \in Stages, NEW s \in Sessions, NEW since \in -1..MaxTime
    PROVE  Since(at, s, since) \in Job /\ Since(at, s, since).at = at
<1>1. \A j \in Job : /\ [j EXCEPT !.at = at, !.s = {s}, !.since = since] \in Job
                     /\ [j EXCEPT !.at = at, !.s = {s}, !.since = since].at = at
  BY DEF Job, Stages
<1> QED BY <1>1, NoJobTyped DEF Since

LEMMA JobReading ==
    ASSUME NEW at \in Stages, NEW s \in Sessions, NEW read \in SeenRow
    PROVE  /\ [NoJob EXCEPT !.at = at, !.s = {s}, !.read = read] \in Job
           /\ [NoJob EXCEPT !.at = at, !.s = {s}, !.read = read].at = at
<1>1. \A j \in Job : /\ [j EXCEPT !.at = at, !.s = {s}, !.read = read] \in Job
                     /\ [j EXCEPT !.at = at, !.s = {s}, !.read = read].at = at
  BY DEF Job, Stages
<1> QED BY <1>1, NoJobTyped

LEMMA JobAbout ==
    ASSUME NEW at \in Stages, NEW due \in SUBSET Sessions
    PROVE  /\ [NoJob EXCEPT !.at = at, !.s = due] \in Job
           /\ [NoJob EXCEPT !.at = at, !.s = due].at = at
<1>1. \A j \in Job : /\ [j EXCEPT !.at = at, !.s = due] \in Job
                     /\ [j EXCEPT !.at = at, !.s = due].at = at
  BY DEF Job, Stages
<1> QED BY <1>1, NoJobTyped

(* What the handlers write to a session is a session. *)
LEMMA SessionStarts ==
    ASSUME NEW r \in Session, NEW at \in Times
    PROVE  /\ [r EXCEPT !.credential = "ISSUED", !.startedAt = at] \in Session
           /\ [r EXCEPT !.status = "ACTIVE", !.credential = "ISSUED",
                        !.startedAt = at] \in Session
BY DEF Session

LEMMA SessionPauses ==
    ASSUME NEW r \in Session, NEW used \in 0..maxDurationSeconds, NEW until \in Times
    PROVE  [r EXCEPT !.status = "PAUSED", !.startedAt = -1, !.used = used,
                     !.pauseUntil = until] \in Session
<1>1. -1 \in Times
  BY DEF Times
<1> QED BY <1>1 DEF Session

LEMMA SessionEnds ==
    ASSUME NEW r \in Session, NEW used \in 0..maxDurationSeconds, NEW at \in Times
    PROVE  [r EXCEPT !.status = "ENDED", !.reservation = "ALLOCATED", !.used = used,
                     !.allocated = used, !.startedAt = -1, !.blockedUntil = at] \in Session
<1>1. -1 \in Times
  BY DEF Times
<1> QED BY <1>1 DEF Session

LEMMA SessionSettled ==
    ASSUME NEW r \in Session, NEW used \in 0..maxDurationSeconds
    PROVE  [r EXCEPT !.status = IF @ = "ACTIVE" THEN "EXPIRED" ELSE @,
                     !.credential = IF @ = "ISSUING" THEN "ISSUE_UNKNOWN" ELSE @,
                     !.reservation = "ALLOCATED", !.allocated = used,
                     !.used = used, !.startedAt = -1] \in Session
<1>1. -1 \in Times
  BY DEF Times
<1> QED BY <1>1 DEF Session

(* The clock, and what is added to it, are times. *)
LEMMA ClockTimes ==
    ASSUME TypeOK
    PROVE  /\ now \in Times /\ now + pauseTimeoutSeconds \in Times
           /\ now \in -1..MaxTime
           /\ \A h \in Clients \cup Crons : job[h].since \in Times
BY DEF TypeOK, Times, Job

(* The row of a session that is reserved. *)
LEMMA ReservedRow ==
    ASSUME NEW seconds \in 0..maxDurationSeconds, NEW until \in Times
    PROVE  [NoSession EXCEPT !.status = "ACTIVE", !.credential = "ISSUING",
                !.reservation = "RESERVED", !.reserved = seconds,
                !.blockedUntil = until] \in Session
<1>1. NoSession \in Session
  BY DEF Session, NoSession, Times
<1>2. ASSUME NEW r \in Session
      PROVE  [r EXCEPT !.status = "ACTIVE", !.credential = "ISSUING",
                  !.reservation = "RESERVED", !.reserved = seconds,
                  !.blockedUntil = until] \in Session
  BY DEF Session
<1> QED BY <1>1, <1>2

(* A budget that is charged no more than it gives back stays within its limit. *)
LEMMA ChargeKeepsLimit ==
    ASSUME TypeOK, NeverOverLimit, NEW u \in Users,
           NEW reserved \in Nat, NEW used \in Nat, used <= reserved,
           Charge(u, reserved, used)
    PROVE  /\ budget' \in [Scopes -> [reserved : Int, allocated : Nat]]
           /\ NeverOverLimit'
<1>1. \A b \in Scopes : budget[b].reserved \in Int /\ budget[b].allocated \in Nat
  BY DEF TypeOK
<1>2. \A b \in Scopes : Limit[b] \in Nat
  BY DEF Limit
<1>3. budget' \in [Scopes -> [reserved : Int, allocated : Nat]]
  BY <1>1 DEF TypeOK, Charge
<1>4. ASSUME NEW b \in Scopes
      PROVE  budget'[b].reserved + budget'[b].allocated <= Limit[b]
  <2>1. budget[b].reserved + budget[b].allocated <= Limit[b]
    BY DEF NeverOverLimit
  <2> QED BY <2>1, <1>1, <1>2 DEF Charge
<1> QED BY <1>3, <1>4 DEF NeverOverLimit, Limit

(* The lease of a session that ends is given back, if it is still its own. *)
LEMMA ReleaseTyped ==
    ASSUME TypeOK, NEW s \in Sessions, Release(s)
    PROVE  lease' \in [Users -> [session : SUBSET Sessions, expiresAt : Times]]
<1>1. NoLease \in [session : SUBSET Sessions, expiresAt : Times]
  BY DEF NoLease, Times
<1> QED BY <1>1 DEF TypeOK, Release
-----------------------------------------------------------------------------
(* The actions that move seconds *)

\* What an action leaves alone.
Untouched == /\ liveTiers' = liveTiers /\ now' = now
             /\ errors' = errors /\ policies' = policies

LEMMA ReserveStep ==
    ASSUME BudgetInv, NEW h \in Clients, NEW s \in Sessions, reserveSessionTx(h, s)
    PROVE  BudgetInv'
<1> DEFINE u == Owner[s]
           until == job[h].since + setupSeconds + maxDurationSeconds + pauseTimeoutSeconds
           row == [NoSession EXCEPT !.status = "ACTIVE", !.credential = "ISSUING",
                       !.reservation = "RESERVED", !.reserved = SessionBudget(u),
                       !.blockedUntil = until]
<1>1. u \in Users /\ SessionBudget(u) \in 1..maxDurationSeconds
      /\ \A b \in ScopesOf(u) : SessionBudget(u) <= Remaining(b)
  <2>1. \A b \in Scopes : Remaining(b) \in Int
    BY DEF Remaining, Limit, BudgetInv, TypeOK
  <2>2. u \in Users /\ ScopesOf(u) \subseteq Scopes
    BY DEF ScopesOf, Scopes
  <2>3. SessionBudget(u) > 0
    BY DEF reserveSessionTx, Admitted
  <2> QED BY <2>1, <2>2, <2>3 DEF SessionBudget, Least, ScopesOf, Scopes
<1>2. now \in 0..MaxTime /\ job[h] \in Job
  BY DEF BudgetInv, TypeOK
<1>3. until \in Times
  BY <1>2 DEF Job, Times
<1>4. row \in Session
  <2>1. SessionBudget(u) \in 0..maxDurationSeconds
    BY <1>1
  <2> HIDE DEF until
  <2> QED BY <2>1, <1>3, ReservedRow
<1>5. sess' \in [Sessions -> Session]
  BY <1>4 DEF reserveSessionTx, BudgetInv, TypeOK
<1>6. lease' \in [Users -> [session : SUBSET Sessions, expiresAt : Times]]
  BY <1>1, <1>3 DEF reserveSessionTx, BudgetInv, TypeOK
<1>7. /\ [job[h] EXCEPT !.at = "TOKEN", !.read = Seen(row)] \in Job
      /\ [job[h] EXCEPT !.at = "TOKEN", !.read = Seen(row)].at = "TOKEN"
  <2>1. Seen(row) \in SeenRow
    <3> HIDE DEF row
    <3> QED BY <1>4, SeenTyped
  <2>2. "TOKEN" \in Stages
    BY DEF Stages
  <2> HIDE DEF row
  <2> QED BY <1>2, <2>1, <2>2, JobWithRow
<1>8. budget' \in [Scopes -> [reserved : Int, allocated : Nat]] /\ NeverOverLimit'
  <2>1. \A b \in Scopes : budget[b].reserved \in Int /\ budget[b].allocated \in Nat
                         /\ Limit[b] \in Nat
    BY DEF BudgetInv, TypeOK, Limit
  <2>2. budget' = [b \in Scopes |-> IF b \in ScopesOf(u)
                     THEN [budget[b] EXCEPT !.reserved = @ + SessionBudget(u)]
                     ELSE budget[b]]
    BY DEF reserveSessionTx
  <2>3. budget' \in [Scopes -> [reserved : Int, allocated : Nat]]
    BY <2>1, <2>2, <1>1 DEF BudgetInv, TypeOK
  <2>4. ASSUME NEW b \in Scopes
        PROVE  budget'[b].reserved + budget'[b].allocated <= Limit[b]
    <3>1. CASE b \in ScopesOf(u)
      <4>1. budget[b] \in [reserved : Int, allocated : Nat]
        BY DEF BudgetInv, TypeOK
      <4>2. /\ budget'[b].reserved = budget[b].reserved + SessionBudget(u)
            /\ budget'[b].allocated = budget[b].allocated
        BY <2>2, <3>1, <4>1
      <4>3. SessionBudget(u) <= Limit[b] - budget[b].reserved - budget[b].allocated
        BY <1>1, <3>1 DEF Remaining
      <4> QED BY <4>2, <4>3, <2>1, <1>1
    <3>2. CASE b \notin ScopesOf(u)
      BY <3>2, <2>2 DEF BudgetInv, NeverOverLimit
    <3> QED BY <3>1, <3>2
  <2> QED BY <2>3, <2>4 DEF NeverOverLimit, Limit
<1>9. Set(h, [job[h] EXCEPT !.at = "TOKEN", !.read = Seen(row)]) /\ Untouched
  BY DEF reserveSessionTx, Env, Untouched
<1>10. TypeOK'
  BY <1>5, <1>6, <1>7, <1>8, <1>9, JobStays DEF BudgetInv, TypeOK, Untouched
<1>11. SettlesWithinReserve'
  <2>1. \A g \in Clients \cup Crons :
           job'[g] = job[g] \/ job'[g].at = "TOKEN"
    BY <1>7, <1>9, JobStays DEF BudgetInv
  <2> QED BY <2>1 DEF BudgetInv, SettlesWithinReserve
<1> QED BY <1>8, <1>10, <1>11 DEF BudgetInv

LEMMA FailedIssueStep ==
    ASSUME BudgetInv, NEW h \in Clients, NEW s \in Sessions, releaseFailedReservation(h, s)
    PROVE  BudgetInv'
<1>1. job[h] \in Job /\ job[h].read.reserved \in Nat /\ Owner[s] \in Users
  BY DEF BudgetInv, TypeOK, Job, SeenRow
<1>2. budget' \in [Scopes -> [reserved : Int, allocated : Nat]] /\ NeverOverLimit'
  BY <1>1, ChargeKeepsLimit DEF releaseFailedReservation, BudgetInv
<1>3. lease' \in [Users -> [session : SUBSET Sessions, expiresAt : Times]]
  BY ReleaseTyped DEF releaseFailedReservation, BudgetInv
<1>4. sess' \in [Sessions -> Session]
  <2>1. sess[s] \in Session
    BY DEF BudgetInv, TypeOK
  <2>2. [sess[s] EXCEPT !.credential = "ISSUE_FAILED", !.reservation = "RELEASED",
                        !.status = "FAILED"] \in Session
    BY <2>1 DEF Session
  <2> QED BY <2>2 DEF releaseFailedReservation, BudgetInv, TypeOK
<1>5. Set(h, NoJob) /\ Untouched
  BY DEF releaseFailedReservation, Done, Env, Untouched
<1>6. TypeOK'
  BY <1>2, <1>3, <1>4, <1>5, JobStays, NoJobTyped DEF BudgetInv, TypeOK, Untouched
<1>7. SettlesWithinReserve'
  BY <1>5, JobStays, NoJobTyped DEF BudgetInv, SettlesWithinReserve, NoJob
<1> QED BY <1>2, <1>6, <1>7 DEF BudgetInv

LEMMA EndSettleStep ==
    ASSUME BudgetInv, NEW h \in Clients, NEW s \in Sessions, EndSettle(h, s)
    PROVE  BudgetInv'
<1>1. job[h] \in Job /\ job[h].read.reserved \in Nat /\ job[h].used \in Nat
      /\ Owner[s] \in Users
  BY DEF BudgetInv, TypeOK, Job, SeenRow
<1>2. job[h].used <= job[h].read.reserved
  BY DEF EndSettle, At, BudgetInv, SettlesWithinReserve
<1>3. budget' \in [Scopes -> [reserved : Int, allocated : Nat]] /\ NeverOverLimit'
  BY <1>1, <1>2, ChargeKeepsLimit DEF EndSettle, BudgetInv
<1>4. lease' \in [Users -> [session : SUBSET Sessions, expiresAt : Times]]
  BY ReleaseTyped DEF EndSettle, BudgetInv
<1>5. Set(h, NoJob) /\ Untouched /\ sess' = sess
  BY DEF EndSettle, Done, Env, Untouched
<1>6. TypeOK'
  BY <1>3, <1>4, <1>5, JobStays, NoJobTyped DEF BudgetInv, TypeOK, Untouched
<1>7. SettlesWithinReserve'
  BY <1>5, JobStays, NoJobTyped DEF BudgetInv, SettlesWithinReserve, NoJob
<1> QED BY <1>3, <1>6, <1>7 DEF BudgetInv

LEMMA CronSettleStep ==
    ASSUME BudgetInv, NEW c \in Crons, NEW s \in Sessions, settleExpiredSession(c, s)
    PROVE  BudgetInv'
<1> DEFINE used == computeUsedSeconds(sess[s])
<1>1. sess[s] \in Session /\ job[c] \in Job /\ Owner[s] \in Users /\ now \in 0..MaxTime
  BY DEF BudgetInv, TypeOK
<1>2. used \in 0..maxDurationSeconds /\ used <= sess[s].reserved
      /\ sess[s].reserved \in Nat
  BY <1>1, UsedWithinReserve DEF Session
<1>3. /\ budget' \in [Scopes -> [reserved : Int, allocated : Nat]] /\ NeverOverLimit'
      /\ lease' \in [Users -> [session : SUBSET Sessions, expiresAt : Times]]
      /\ sess' \in [Sessions -> Session]
  <2>1. CASE Due(s)
    <3> DEFINE row == [sess[s] EXCEPT
                         !.status = IF @ = "ACTIVE" THEN "EXPIRED" ELSE @,
                         !.credential = IF @ = "ISSUING" THEN "ISSUE_UNKNOWN" ELSE @,
                         !.reservation = "ALLOCATED", !.allocated = used,
                         !.used = used, !.startedAt = -1]
    <3>1. row \in Session
      <4> HIDE DEF used
      <4> QED BY <1>1, <1>2, SessionSettled
    <3>2. sess' = [sess EXCEPT ![s] = row]
      BY <2>1 DEF settleExpiredSession
    <3>3. sess' \in [Sessions -> Session]
      <4> HIDE DEF row
      <4> QED BY <3>1, <3>2 DEF BudgetInv, TypeOK
    <3>4. Charge(Owner[s], sess[s].reserved, used) /\ Release(s)
      BY <2>1 DEF settleExpiredSession
    <3>5. TypeOK /\ NeverOverLimit
      BY DEF BudgetInv
    <3> HIDE DEF used
    <3>6. budget' \in [Scopes -> [reserved : Int, allocated : Nat]] /\ NeverOverLimit'
      BY <3>4, <3>5, <1>1, <1>2, ChargeKeepsLimit
    <3>7. lease' \in [Users -> [session : SUBSET Sessions, expiresAt : Times]]
      BY <3>4, <3>5, ReleaseTyped
    <3> QED BY <3>3, <3>6, <3>7
  <2>2. CASE ~Due(s)
    BY <2>2 DEF settleExpiredSession, rows, BudgetInv, TypeOK, NeverOverLimit, Limit
  <2> QED BY <2>1, <2>2
<1>4. PICK j \in Job : Set(c, j) /\ j.at # "SETTLE"
  <2>1. CASE job[c].s = {s}
    BY <2>1, NoJobTyped DEF settleExpiredSession, Done, NoJob
  <2>2. CASE job[c].s # {s}
    <3>1. /\ [job[c] EXCEPT !.s = @ \ {s}] \in Job
          /\ [job[c] EXCEPT !.s = @ \ {s}].at = job[c].at
      BY <1>1 DEF Job
    <3> QED BY <2>2, <3>1 DEF settleExpiredSession
  <2> QED BY <2>1, <2>2
<1>5. Untouched
  BY DEF settleExpiredSession, Env, Untouched
<1>6. TypeOK'
  BY <1>3, <1>4, <1>5, JobStays DEF BudgetInv, TypeOK, Untouched
<1>7. SettlesWithinReserve'
  BY <1>4, JobStays DEF BudgetInv, SettlesWithinReserve
<1> QED BY <1>3, <1>6, <1>7 DEF BudgetInv

-----------------------------------------------------------------------------
(* The actions that only write a session, or nothing *)

LEMMA QuietStep ==
    ASSUME BudgetInv, NEW h \in Clients \cup Crons, NEW j \in Job, Set(h, j),
           j.at = "SETTLE" => j.used <= j.read.reserved,
           sess' \in [Sessions -> Session], budget' = budget, lease' = lease, Untouched
    PROVE  BudgetInv'
<1>1. TypeOK'
  BY JobStays DEF BudgetInv, TypeOK, Untouched
<1>2. SettlesWithinReserve'
  BY JobStays DEF BudgetInv, SettlesWithinReserve
<1> QED BY <1>1, <1>2 DEF BudgetInv, NeverOverLimit, Limit

LEMMA CreateSteps ==
    ASSUME BudgetInv, NEW h \in Clients, NEW s \in Sessions, Create(h, s)
    PROVE  BudgetInv'
<1>1. sess \in [Sessions -> Session] /\ sess[s] \in Session /\ now \in 0..MaxTime
      /\ job[h] \in Job
  BY DEF BudgetInv, TypeOK
<1>2. CASE CreateRead(h, s)
  <2> DEFINE j == Since("RESERVE", s, now)
  <2>1. j \in Job /\ j.at = "RESERVE"
    <3>1. "RESERVE" \in Stages /\ now \in -1..MaxTime
      BY <1>1, ClockTimes DEF Stages
    <3> QED BY <3>1, JobSince
  <2>2. Set(h, j) /\ UNCHANGED rows /\ Untouched
    BY <1>2 DEF CreateRead, Start, Env, Untouched, Since
  <2> HIDE DEF j
  <2>3. UNCHANGED <<sess, budget, lease>> /\ sess \in [Sessions -> Session]
    BY <1>1, <2>2 DEF rows
  <2> QED BY <2>1, <2>2, <2>3, QuietStep
<1>3. CASE ReserveRefused(h, s)
  BY <1>1, <1>3, QuietStep, NoJobTyped DEF ReserveRefused, Done, NoJob, rows, Env, Untouched
<1>4. CASE Issue(h, s)
  <2>1. [sess[s] EXCEPT !.credential = "ISSUED", !.startedAt = job[h].since] \in Session
    BY <1>1, ClockTimes, SessionStarts DEF BudgetInv
  <2>2. sess' = [sess EXCEPT ![s] =
                   [sess[s] EXCEPT !.credential = "ISSUED", !.startedAt = job[h].since]]
    BY <1>1, <1>4 DEF Issue
  <2>3. sess' \in [Sessions -> Session]
    BY <1>1, <2>1, <2>2
  <2> QED BY <1>4, <2>3, QuietStep, NoJobTyped DEF Issue, Done, NoJob, Env, Untouched
<1> QED BY <1>2, <1>3, <1>4, ReserveStep, FailedIssueStep DEF Create

LEMMA ControlSteps ==
    ASSUME BudgetInv, NEW h \in Clients, NEW s \in Sessions, Control(h, s)
    PROVE  BudgetInv'
<1>1. sess \in [Sessions -> Session] /\ sess[s] \in Session /\ now \in 0..MaxTime
      /\ job[h] \in Job
  BY DEF BudgetInv, TypeOK
<1>2. ASSUME NEW stage \in {"PAUSE", "RESUME", "END"}, Read(h, s, stage)
      PROVE  BudgetInv'
  <2> DEFINE j == [NoJob EXCEPT !.at = stage, !.s = {s}, !.read = Seen(sess[s])]
  <2>1. j \in Job /\ j.at = stage
    <3>1. Seen(sess[s]) \in SeenRow
      BY <1>1, SeenTyped
    <3>2. stage \in Stages
      BY <1>2 DEF Stages
    <3> QED BY <3>1, <3>2, JobReading
  <2>2. Set(h, j) /\ UNCHANGED rows /\ Untouched
    BY <1>2 DEF Read, Start, Env, Untouched
  <2> HIDE DEF j
  <2> QED BY <1>1, <2>1, <2>2, QuietStep DEF rows
<1>3. computeUsedSeconds(job[h].read) \in 0..maxDurationSeconds
      /\ computeUsedSeconds(job[h].read) <= job[h].read.reserved
  BY <1>1, UsedWithinReserve DEF Job, SeenRow
<1>4. CASE Pause(h, s)
  <2>1. sess' \in [Sessions -> Session]
    <3> DEFINE seconds == computeUsedSeconds(job[h].read)
               row == [sess[s] EXCEPT !.status = "PAUSED", !.startedAt = -1,
                         !.used = seconds, !.pauseUntil = now + pauseTimeoutSeconds]
    <3>1. row \in Session
      <4>1. seconds \in 0..maxDurationSeconds
        BY <1>3
      <4> HIDE DEF seconds
      <4> QED BY <1>1, <4>1, ClockTimes, SessionPauses DEF BudgetInv
    <3>2. sess' = [sess EXCEPT ![s] = row]
      BY <1>1, <1>4 DEF Pause
    <3> HIDE DEF row
    <3> QED BY <1>1, <3>1, <3>2
  <2> QED BY <1>4, <2>1, QuietStep, NoJobTyped DEF Pause, Done, NoJob, Env, Untouched
<1>5. CASE Resume(h, s)
  <2>1. sess' \in [Sessions -> Session]
    <3> DEFINE row == [sess[s] EXCEPT !.status = "ACTIVE", !.credential = "ISSUED",
                         !.startedAt = now]
    <3>1. row \in Session
      BY <1>1, ClockTimes, SessionStarts DEF BudgetInv
    <3>2. sess' = [sess EXCEPT ![s] = row]
      BY <1>1, <1>5 DEF Resume
    <3> HIDE DEF row
    <3> QED BY <1>1, <3>1, <3>2
  <2> QED BY <1>5, <2>1, QuietStep, NoJobTyped DEF Resume, Done, NoJob, Env, Untouched
<1>6. CASE ResumeRefused(h, s)
  BY <1>1, <1>6, QuietStep, NoJobTyped DEF ResumeRefused, Done, NoJob, rows, Env, Untouched
<1>7. CASE EndUpdate(h, s)
  <2> DEFINE seconds == computeUsedSeconds(job[h].read)
  <2>1. sess' \in [Sessions -> Session]
    <3> DEFINE row == [sess[s] EXCEPT !.status = "ENDED", !.reservation = "ALLOCATED",
                         !.used = seconds, !.allocated = seconds,
                         !.startedAt = -1, !.blockedUntil = now]
    <3>1. row \in Session
      <4>1. seconds \in 0..maxDurationSeconds
        BY <1>3
      <4> HIDE DEF seconds
      <4> QED BY <1>1, <4>1, ClockTimes, SessionEnds DEF BudgetInv
    <3>2. sess' = [sess EXCEPT ![s] = row]
      BY <1>1, <1>7 DEF EndUpdate
    <3> HIDE DEF row
    <3> QED BY <1>1, <3>1, <3>2
  <2>2. PICK j \in Job : Set(h, j) /\ (j.at = "SETTLE" => j.used <= j.read.reserved)
    <3>1. CASE job[h].read.reservation = "RESERVED"
      <4> DEFINE j == WithUsed(job[h], "SETTLE", seconds)
      <4>1. j \in Job /\ j.used = seconds /\ j.read = job[h].read
        <5>1. seconds \in 0..maxDurationSeconds /\ job[h] \in Job
          BY <1>1, <1>3
        <5>2. "SETTLE" \in Stages
          BY DEF Stages
        <5> HIDE DEF seconds, Stages
        <5> QED BY <5>1, <5>2, JobWithUsed
      <4>2. Set(h, j)
        BY <1>7, <3>1 DEF EndUpdate, WithUsed
      <4> QED BY <4>1, <4>2, <1>3
    <3>2. CASE job[h].read.reservation # "RESERVED"
      BY <1>7, <3>2, NoJobTyped DEF EndUpdate, Done, NoJob
    <3> QED BY <3>1, <3>2
  <2> QED BY <1>7, <2>1, <2>2, QuietStep DEF EndUpdate, Env, Untouched
<1> QED BY <1>2, <1>4, <1>5, <1>6, <1>7, EndSettleStep
        DEF Control, PauseRead, ResumeRead, EndRead

LEMMA CronStarts ==
    ASSUME BudgetInv, NEW c \in Crons, reconcileExpiredSessions(c)
    PROVE  BudgetInv'
<1> DEFINE due == {s \in Sessions : Due(s) /\ sess[s].credential \in SettledCredentials}
           j == [NoJob EXCEPT !.at = "CRON", !.s = due]
<1>1. j \in Job /\ j.at = "CRON"
  <2>1. due \in SUBSET Sessions
    OBVIOUS
  <2> HIDE DEF due
  <2> QED BY <2>1, JobAbout DEF Stages
<1>2. Set(c, j) /\ UNCHANGED rows /\ Untouched
  BY DEF reconcileExpiredSessions, Start, Env, Untouched
<1>3. sess \in [Sessions -> Session]
  BY DEF BudgetInv, TypeOK
<1> HIDE DEF j
<1> QED BY <1>1, <1>2, <1>3, QuietStep DEF rows

LEMMA OutsideSteps ==
    ASSUME BudgetInv,
           \/ \E h \in Clients \cup Crons : Crash(h)
           \/ \E tiers \in SUBSET LiveTiers : SetPolicy(tiers)
           \/ Tick
           \/ UNCHANGED vars
    PROVE  BudgetInv'
<1>1. ASSUME NEW h \in Clients \cup Crons, Crash(h)
      PROVE  BudgetInv'
  <2>1. TypeOK'
    BY <1>1, JobStays, NoJobTyped DEF Crash, Done, rows, BudgetInv, TypeOK
  <2>2. SettlesWithinReserve'
    BY <1>1, JobStays, NoJobTyped DEF Crash, Done, NoJob, BudgetInv, SettlesWithinReserve
  <2> QED BY <1>1, <2>1, <2>2 DEF Crash, rows, BudgetInv, NeverOverLimit, Limit
<1>2. ASSUME NEW tiers \in SUBSET LiveTiers, SetPolicy(tiers)
      PROVE  BudgetInv'
  BY <1>2 DEF SetPolicy, rows, BudgetInv, TypeOK, NeverOverLimit, Limit, SettlesWithinReserve
<1>3. CASE Tick
  BY <1>3 DEF Tick, rows, BudgetInv, TypeOK, NeverOverLimit, Limit, SettlesWithinReserve
<1>4. CASE UNCHANGED vars
  BY <1>4 DEF vars, BudgetInv, TypeOK, NeverOverLimit, Limit, SettlesWithinReserve
<1> QED BY <1>1, <1>2, <1>3, <1>4

-----------------------------------------------------------------------------
(* Theorems *)

LEMMA BudgetInvHolds == Spec => []BudgetInv
<1>1. Init => BudgetInv
  <2> SUFFICES ASSUME Init PROVE BudgetInv
    OBVIOUS
  <2>1. NoSession \in Session
    BY DEF NoSession, Session, Times
  <2>2. NoLease \in [session : SUBSET Sessions, expiresAt : Times]
    BY DEF NoLease, Times
  <2>3. TypeOK
    BY <2>1, <2>2, NoJobTyped DEF Init, TypeOK
  <2>4. NeverOverLimit
    BY DEF Init, NeverOverLimit, Limit
  <2>5. SettlesWithinReserve
    BY DEF Init, SettlesWithinReserve, NoJob
  <2> QED BY <2>3, <2>4, <2>5 DEF BudgetInv
<1>2. BudgetInv /\ [Next]_vars => BudgetInv'
  BY CreateSteps, ControlSteps, CronStarts, CronSettleStep, OutsideSteps DEF Next, Cron
<1> QED BY <1>1, <1>2, PTL DEF Spec

(* Every column of a budget, a session, a lease and a request keeps its type, however
   requests, the cron and failures are mixed. *)
THEOREM LiveTypes == Spec => []TypeOK
BY BudgetInvHolds, PTL DEF BudgetInv

(* The seconds reserved and charged for a user, and those of everybody, stay within their
   limits, for any number of users, sessions, requests and runs of the cron
   (reserveSessionTx, endSession and settleExpiredSession of live-try-on.service.ts). *)
THEOREM LimitsKept == Spec => []NeverOverLimit
BY BudgetInvHolds, PTL DEF BudgetInv

-----------------------------------------------------------------------------
(* Sums over finite sets *)

(* A set of naturals with 0 and with the successor of each member is all of them. *)
LEMMA Induction ==
    ASSUME NEW S, 0 \in S, \A n \in Nat : n \in S => n + 1 \in S
    PROVE  \A n \in Nat : n \in S
<1> SUFFICES ASSUME \E n \in Nat : n \notin S PROVE FALSE
  OBVIOUS
<1> DEFINE T == {n \in Nat : n \notin S}
<1>1. T \subseteq Nat /\ T # {}
  OBVIOUS
<1>2. PICK x \in T : \A y \in T : ~(<<y, x>> \in OpToRel(<, Nat))
  BY <1>1, NatLessThanWellFounded, WFMin
<1>3. x # 0 /\ x \in Nat
  OBVIOUS
<1>4. x - 1 \in Nat /\ x - 1 < x /\ x - 1 + 1 = x
  BY <1>3
<1>5. x - 1 \notin T
  BY <1>2, <1>4 DEF OpToRel
<1> QED BY <1>4, <1>5

\* G gives every part of U the sum of the values f has on it, in whatever order they are added.
Additive(G, f, U) ==
    /\ G \in [SUBSET U -> Nat]
    /\ G[{}] = 0
    /\ \A T \in SUBSET U : \A x \in T : G[T] = f[x] + G[T \ {x}]

IsSum(n, f, T, U) == \E G : Additive(G, f, U) /\ n = G[T]

(* Induction over the parts of a finite set U: a family that has the empty set, and a set when
   it has it without some member, has all of them. *)
LEMMA PartsInduction ==
    ASSUME NEW U, IsFiniteSet(U), NEW F, {} \in F,
           \A T \in SUBSET U : T # {} => \E x \in T : T \ {x} \in F => T \in F
    PROVE  \A T \in SUBSET U : T \in F
<1> DEFINE S == {n \in Nat : \A T \in SUBSET U : Cardinality(T) = n => T \in F}
<1>1. 0 \in S
  <2>1. ASSUME NEW T \in SUBSET U, Cardinality(T) = 0 PROVE T \in F
    <3>1. IsFiniteSet(T)
      BY FS_Subset
    <3>2. T = {}
      BY <2>1, <3>1, FS_EmptySet
    <3> QED BY <3>2
  <2> QED BY <2>1
<1>2. ASSUME NEW n \in Nat, n \in S PROVE n + 1 \in S
  <2>1. ASSUME NEW T \in SUBSET U, Cardinality(T) = n + 1 PROVE T \in F
    <3>1. IsFiniteSet(T)
      BY FS_Subset
    <3>2. T # {}
      <4>1. n + 1 # 0
        OBVIOUS
      <4> QED BY <2>1, <3>1, <4>1, FS_EmptySet
    <3>3. PICK x \in T : T \ {x} \in F => T \in F
      BY <3>2
    <3>4. Cardinality(T \ {x}) = n
      <4>1. Cardinality(T \ {x}) = Cardinality(T) - 1
        BY <3>1, FS_RemoveElement
      <4> QED BY <2>1, <4>1
    <3>5. T \ {x} \in SUBSET U
      OBVIOUS
    <3>6. T \ {x} \in F
      BY <1>2, <3>4, <3>5
    <3> QED BY <3>3, <3>6
  <2>2. n + 1 \in Nat
    OBVIOUS
  <2> QED BY <2>1, <2>2
<1>3. \A n \in Nat : n \in S
  <2> HIDE DEF S
  <2> QED BY <1>1, <1>2, Induction
<1>4. \A T \in SUBSET U : Cardinality(T) \in Nat
  BY FS_Subset, FS_CardinalityType
<1> QED BY <1>3, <1>4

(* A finite set of naturals has its sums. *)
LEMMA SumsExist ==
    ASSUME NEW U, IsFiniteSet(U), NEW f \in [U -> Nat]
    PROVE  \E G : Additive(G, f, U)
<1> DEFINE F == {V \in SUBSET U : \E G : Additive(G, f, V)}
<1>1. {} \in F
  <2> DEFINE G == [T \in SUBSET {} |-> 0]
  <2>1. G \in [SUBSET {} -> Nat] /\ G[{}] = 0
    OBVIOUS
  <2> HIDE DEF G
  <2>2. Additive(G, f, {})
    BY <2>1 DEF Additive
  <2> QED BY <2>2
<1>2. ASSUME NEW V \in SUBSET U, NEW y \in V, V \ {y} \in F PROVE V \in F
  <2> DEFINE W == V \ {y}
  <2>1. PICK H : Additive(H, f, W)
    BY <1>2
  <2> DEFINE G == [T \in SUBSET V |-> IF y \in T THEN f[y] + H[T \ {y}] ELSE H[T]]
  <2>2. \A T \in SUBSET V : T \ {y} \in SUBSET W /\ (y \notin T => T \in SUBSET W)
    OBVIOUS
  <2>3. f[y] \in Nat /\ \A T \in SUBSET W : H[T] \in Nat
    BY <2>1 DEF Additive
  <2>4. G \in [SUBSET V -> Nat]
    BY <2>2, <2>3
  <2>5. G[{}] = 0
    BY <2>1 DEF Additive
  <2>6. ASSUME NEW T \in SUBSET V, NEW x \in T PROVE G[T] = f[x] + G[T \ {x}]
    <3>1. T \ {x} \in SUBSET V
      OBVIOUS
    <3>2. CASE x = y
      <4>1. G[T] = f[y] + H[T \ {y}] /\ G[T \ {y}] = H[T \ {y}]
        BY <3>1, <3>2
      <4> QED BY <4>1, <3>2
    <3>3. CASE x # y /\ y \in T
      <4>1. G[T] = f[y] + H[T \ {y}] /\ G[T \ {x}] = f[y] + H[(T \ {x}) \ {y}]
        BY <3>1, <3>3
      <4>2. (T \ {x}) \ {y} = (T \ {y}) \ {x} /\ x \in T \ {y}
        BY <3>3
      <4>3. H[T \ {y}] = f[x] + H[(T \ {y}) \ {x}]
        BY <2>1, <2>2, <4>2 DEF Additive
      <4>4. (T \ {y}) \ {x} \in SUBSET W
        OBVIOUS
      <4>5. f[x] \in Nat /\ f[y] \in Nat /\ H[(T \ {y}) \ {x}] \in Nat
        BY <2>3, <4>4
      <4>6. PICK h \in Nat : h = H[(T \ {y}) \ {x}]
        BY <4>5
      <4>7. G[T] = f[y] + (f[x] + h) /\ G[T \ {x}] = f[y] + h
        <5> HIDE DEF G
        <5> QED BY <4>1, <4>2, <4>3, <4>6
      <4>8. \A a, b, c \in Nat : a + (b + c) = b + (a + c)
        OBVIOUS
      <4> HIDE DEF G
      <4> QED BY <4>5, <4>7, <4>8
    <3>4. CASE y \notin T
      <4>1. G[T] = H[T] /\ G[T \ {x}] = H[T \ {x}]
        BY <3>1, <3>4
      <4>2. H[T] = f[x] + H[T \ {x}]
        BY <2>1, <2>2, <3>4 DEF Additive
      <4> QED BY <4>1, <4>2
    <3> QED BY <3>2, <3>3, <3>4
  <2> HIDE DEF G
  <2>7. Additive(G, f, V)
    BY <2>4, <2>5, <2>6 DEF Additive
  <2> QED BY <2>7
<1>3. U \in F
  <2>1. \A T \in SUBSET U : T \in F
    <3>1. \A T \in SUBSET U : T # {} => \E x \in T : T \ {x} \in F => T \in F
      BY <1>2
    <3> HIDE DEF F
    <3> QED BY <1>1, <3>1, PartsInduction
  <2> QED BY <2>1
<1> QED BY <1>3

(* Functions that agree on a set have the same sum on it. *)
LEMMA SumsAgree ==
    ASSUME NEW U, IsFiniteSet(U), NEW f, NEW g, NEW G, NEW H,
           Additive(G, f, U), Additive(H, g, U)
    PROVE  \A T \in SUBSET U : (\A x \in T : f[x] = g[x]) => G[T] = H[T]
<1> DEFINE F == {T \in SUBSET U : (\A x \in T : f[x] = g[x]) => G[T] = H[T]}
<1>1. {} \in F
  BY DEF Additive
<1>2. ASSUME NEW T \in SUBSET U, NEW x \in T, T \ {x} \in F PROVE T \in F
  <2>1. SUFFICES ASSUME \A y \in T : f[y] = g[y] PROVE G[T] = H[T]
    OBVIOUS
  <2>2. G[T \ {x}] = H[T \ {x}]
    BY <1>2, <2>1
  <2>3. G[T] = f[x] + G[T \ {x}] /\ H[T] = g[x] + H[T \ {x}]
    BY DEF Additive
  <2> QED BY <2>1, <2>2, <2>3
<1>3. \A T \in SUBSET U : T \in F
  <2>1. \A T \in SUBSET U : T # {} => \E x \in T : T \ {x} \in F => T \in F
    BY <1>2
  <2> HIDE DEF F
  <2> QED BY <1>1, <2>1, PartsInduction
<1> QED BY <1>3

\* The functions f and g, and the sets S and T, differ at s only, if there.
DifferAt(s, f, g, S, T, U) ==
    /\ S \in SUBSET U /\ T \in SUBSET U
    /\ \A x \in U : x # s => f[x] = g[x] /\ (x \in S <=> x \in T)
    /\ s \in U => f[s] \in Nat /\ g[s] \in Nat

(* Sums of functions and sets that differ at s only differ by what s adds. *)
LEMMA SumsDiffer ==
    ASSUME NEW U, IsFiniteSet(U), NEW s, NEW f, NEW g, NEW S, NEW T,
           DifferAt(s, f, g, S, T, U),
           NEW m, IsSum(m, f, S, U), NEW n, IsSum(n, g, T, U)
    PROVE  /\ m \in Nat /\ n \in Nat
           /\ n + (IF s \in S THEN f[s] ELSE 0) = m + (IF s \in T THEN g[s] ELSE 0)
<1> USE DEF DifferAt
<1>1. PICK G : Additive(G, f, U) /\ m = G[S]
  BY DEF IsSum
<1>2. PICK H : Additive(H, g, U) /\ n = H[T]
  BY DEF IsSum
<1>3. S \ {s} = T \ {s} /\ S \ {s} \in SUBSET U /\ \A x \in S \ {s} : f[x] = g[x]
  OBVIOUS
<1>4. G[S \ {s}] = H[T \ {s}]
  <2>1. \A R \in SUBSET U : (\A x \in R : f[x] = g[x]) => G[R] = H[R]
    BY <1>1, <1>2, SumsAgree
  <2> QED BY <2>1, <1>3
<1>5. G[S \ {s}] \in Nat /\ m \in Nat /\ n \in Nat
  BY <1>1, <1>2, <1>3 DEF Additive
<1>6. m = G[S \ {s}] + (IF s \in S THEN f[s] ELSE 0)
  <2>1. CASE s \in S
    <3>1. m = f[s] + G[S \ {s}] /\ f[s] \in Nat
      BY <1>1, <2>1 DEF Additive
    <3> QED BY <3>1, <2>1, <1>5
  <2>2. CASE s \notin S
    <3>1. S \ {s} = S
      BY <2>2
    <3> QED BY <3>1, <2>2, <1>1, <1>5
  <2> QED BY <2>1, <2>2
<1>7. n = H[T \ {s}] + (IF s \in T THEN g[s] ELSE 0)
  <2>1. CASE s \in T
    <3>1. n = g[s] + H[T \ {s}] /\ g[s] \in Nat
      BY <1>2, <2>1 DEF Additive
    <3> QED BY <3>1, <2>1, <1>4, <1>5
  <2>2. CASE s \notin T
    <3>1. H[T \ {s}] = n
      <4>1. T \ {s} = T
        BY <2>2
      <4> QED BY <4>1, <1>2
    <3> QED BY <3>1, <2>2, <1>5
  <2> QED BY <2>1, <2>2
<1>8. (IF s \in S THEN f[s] ELSE 0) \in Nat /\ (IF s \in T THEN g[s] ELSE 0) \in Nat
  OBVIOUS
<1>9. \A k, a, b \in Nat : (k + b) + a = (k + a) + b
  OBVIOUS
<1> QED BY <1>4, <1>5, <1>6, <1>7, <1>8, <1>9

(* What the folds of the community modules compute, whichever member they pick first. *)
Picked(s) == CHOOSE x \in s : TRUE
LEMMA FoldIsSum ==
    ASSUME NEW U, IsFiniteSet(U), NEW f \in [U -> Nat], NEW T \in SUBSET U
    PROVE  /\ \E iter : iter = [s \in SUBSET T |->
                           IF s = {} THEN 0 ELSE f[Picked(s)] + iter[s \ {Picked(s)}]]
           /\ \A iter : iter = [s \in SUBSET T |->
                           IF s = {} THEN 0 ELSE f[Picked(s)] + iter[s \ {Picked(s)}]]
                        => IsSum(iter[T], f, T, U)
<1>1. PICK G : Additive(G, f, U)
  BY SumsExist
<1>2. \A s \in SUBSET T : s # {} => Picked(s) \in s
  BY DEF Picked
<1>3. \A s \in SUBSET T : s # {} => G[s] = f[Picked(s)] + G[s \ {Picked(s)}]
  BY <1>1, <1>2 DEF Additive
<1>4. \E iter : iter = [s \in SUBSET T |->
                   IF s = {} THEN 0 ELSE f[Picked(s)] + iter[s \ {Picked(s)}]]
  <2> DEFINE it == [s \in SUBSET T |-> G[s]]
  <2>1. \A s \in SUBSET T : it[s] = IF s = {} THEN 0 ELSE f[Picked(s)] + it[s \ {Picked(s)}]
    BY <1>1, <1>3 DEF Additive
  <2>2. it = [s \in SUBSET T |-> it[s]]
    OBVIOUS
  <2> HIDE DEF it
  <2>3. it = [s \in SUBSET T |-> IF s = {} THEN 0 ELSE f[Picked(s)] + it[s \ {Picked(s)}]]
    BY <2>1, <2>2
  <2> QED BY <2>3
<1>5. ASSUME NEW iter, iter = [s \in SUBSET T |->
                   IF s = {} THEN 0 ELSE f[Picked(s)] + iter[s \ {Picked(s)}]]
      PROVE  IsSum(iter[T], f, T, U)
  <2> DEFINE F == {s \in SUBSET T : iter[s] = G[s]}
  <2>1. {} \in F
    BY <1>1, <1>5 DEF Additive
  <2>2. ASSUME NEW s \in SUBSET T, s # {} PROVE \E x \in s : s \ {x} \in F => s \in F
    <3>1. Picked(s) \in s
      BY <1>2, <2>2
    <3>2. iter[s] = f[Picked(s)] + iter[s \ {Picked(s)}]
      BY <1>5, <2>2
    <3>3. G[s] = f[Picked(s)] + G[s \ {Picked(s)}]
      BY <1>3, <2>2
    <3> QED BY <3>1, <3>2, <3>3
  <2>3. IsFiniteSet(T)
    BY FS_Subset
  <2>4. T \in F
    <3> HIDE DEF F
    <3> QED BY <2>1, <2>2, <2>3, PartsInduction
  <2>5. iter[T] = G[T]
    BY <2>4
  <2> QED BY <1>1, <2>5 DEF IsSum
<1> QED BY <1>4, <1>5

-----------------------------------------------------------------------------
(* What is reserved is held *)

HeldSessions(b) == {s \in Sessions : Holding(b, s)}
EndingClients(b) == {h \in Clients : Ending(b, h)}

\* What the sessions of the table r reserved in all, and what the requests of j read.
Reserves(r, T) == MapThenSumSet(LAMBDA s : r[s].reserved, T)
Reads(j, T)    == MapThenSumSet(LAMBDA h : j[h].read.reserved, T)

ReservedIn(r) == [s \in Sessions |-> r[s].reserved]
ReadIn(j)     == [h \in Clients |-> j[h].read.reserved]

(* These folds are sums of functions. *)
LEMMA ReservesIsSum ==
    ASSUME NEW r \in [Sessions -> Session], NEW T \in SUBSET Sessions
    PROVE  IsSum(Reserves(r, T), ReservedIn(r), T, Sessions)
<1> DEFINE f == ReservedIn(r)
           chosen == CHOOSE iter : iter = [t \in SUBSET T |->
                       IF t = {} THEN 0 ELSE r[Picked(t)].reserved + iter[t \ {Picked(t)}]]
<1>1. f \in [Sessions -> Nat]
  BY DEF Session, ReservedIn
<1>2. \A t \in SUBSET T : t # {} => r[Picked(t)].reserved = f[Picked(t)]
  BY DEF Picked, ReservedIn
<1> HIDE DEF f
<1>3. \A iter : [t \in SUBSET T |->
                   IF t = {} THEN 0 ELSE r[Picked(t)].reserved + iter[t \ {Picked(t)}]]
              = [t \in SUBSET T |->
                   IF t = {} THEN 0 ELSE f[Picked(t)] + iter[t \ {Picked(t)}]]
  BY <1>2
<1>4. IsFiniteSet(Sessions)
  OBVIOUS
<1>5. /\ \E iter : iter = [t \in SUBSET T |->
                      IF t = {} THEN 0 ELSE f[Picked(t)] + iter[t \ {Picked(t)}]]
      /\ \A iter : iter = [t \in SUBSET T |->
                      IF t = {} THEN 0 ELSE f[Picked(t)] + iter[t \ {Picked(t)}]]
                   => IsSum(iter[T], f, T, Sessions)
  BY <1>1, <1>4, FoldIsSum
<1>6. \E iter : iter = [t \in SUBSET T |->
                  IF t = {} THEN 0 ELSE r[Picked(t)].reserved + iter[t \ {Picked(t)}]]
  BY <1>3, <1>5
<1>7. chosen = [t \in SUBSET T |->
                  IF t = {} THEN 0 ELSE r[Picked(t)].reserved + chosen[t \ {Picked(t)}]]
  BY <1>6
<1>8. IsSum(chosen[T], f, T, Sessions)
  <2> HIDE DEF chosen
  <2> QED BY <1>3, <1>5, <1>7
<1>9. Reserves(r, T) = chosen[T]
  BY DEF Reserves, MapThenSumSet, MapThenFoldSet, Picked
<1> QED BY <1>8, <1>9 DEF f

LEMMA ReadsIsSum ==
    ASSUME NEW j \in [Clients \cup Crons -> Job], NEW T \in SUBSET Clients
    PROVE  IsSum(Reads(j, T), ReadIn(j), T, Clients)
<1> DEFINE f == ReadIn(j)
           chosen == CHOOSE iter : iter = [t \in SUBSET T |->
                       IF t = {} THEN 0 ELSE j[Picked(t)].read.reserved + iter[t \ {Picked(t)}]]
<1>1. f \in [Clients -> Nat]
  BY DEF Job, SeenRow, ReadIn
<1>2. \A t \in SUBSET T : t # {} => j[Picked(t)].read.reserved = f[Picked(t)]
  BY DEF Picked, ReadIn
<1> HIDE DEF f
<1>3. \A iter : [t \in SUBSET T |->
                   IF t = {} THEN 0 ELSE j[Picked(t)].read.reserved + iter[t \ {Picked(t)}]]
              = [t \in SUBSET T |->
                   IF t = {} THEN 0 ELSE f[Picked(t)] + iter[t \ {Picked(t)}]]
  BY <1>2
<1>4. IsFiniteSet(Clients)
  OBVIOUS
<1>5. /\ \E iter : iter = [t \in SUBSET T |->
                      IF t = {} THEN 0 ELSE f[Picked(t)] + iter[t \ {Picked(t)}]]
      /\ \A iter : iter = [t \in SUBSET T |->
                      IF t = {} THEN 0 ELSE f[Picked(t)] + iter[t \ {Picked(t)}]]
                   => IsSum(iter[T], f, T, Clients)
  BY <1>1, <1>4, FoldIsSum
<1>6. \E iter : iter = [t \in SUBSET T |->
                  IF t = {} THEN 0 ELSE j[Picked(t)].read.reserved + iter[t \ {Picked(t)}]]
  BY <1>3, <1>5
<1>7. chosen = [t \in SUBSET T |->
                  IF t = {} THEN 0 ELSE j[Picked(t)].read.reserved + chosen[t \ {Picked(t)}]]
  BY <1>6
<1>8. IsSum(chosen[T], f, T, Clients)
  <2> HIDE DEF chosen
  <2> QED BY <1>3, <1>5, <1>7
<1>9. Reads(j, T) = chosen[T]
  BY DEF Reads, MapThenSumSet, MapThenFoldSet, Picked
<1> QED BY <1>8, <1>9 DEF f

\* What is held in budget b, and what ends are about to give back to it.
Held(b)         == Reserves(sess, HeldSessions(b))
BeingSettled(b) == Reads(job, EndingClients(b))

HeldBy(b, s)    == IF Holding(b, s) THEN sess[s].reserved ELSE 0
SettledBy(b, h) == IF Ending(b, h) THEN job[h].read.reserved ELSE 0

LEMMA PropertyIsBalance ==
    ReservedIsHeld <=> (errors = 0 => \A b \in Scopes :
                            budget[b].reserved <= Held(b) + BeingSettled(b))
BY DEF ReservedIsHeld, Held, BeingSettled, Reserves, Reads, HeldSessions, EndingClients,
       MapThenSumSet, MapThenFoldSet

(* A step that changes no session but s changes what is held by what s holds. *)
LEMMA HeldChanges ==
    ASSUME TypeOK, TypeOK', NEW s, \A x \in Sessions : x # s => sess'[x] = sess[x],
           NEW b \in Scopes
    PROVE  /\ Held(b) \in Nat /\ Held(b)' \in Nat
           /\ s \in Sessions => Held(b)' + HeldBy(b, s) = Held(b) + HeldBy(b, s)'
           /\ s \notin Sessions => Held(b)' = Held(b)
<1> DEFINE f == ReservedIn(sess)
           g == ReservedIn(sess')
           S == HeldSessions(b)
           T == HeldSessions(b)'
<1>1. sess \in [Sessions -> Session] /\ sess' \in [Sessions -> Session]
  BY DEF TypeOK
<1>2. S \in SUBSET Sessions /\ T \in SUBSET Sessions /\ IsFiniteSet(Sessions)
  BY DEF HeldSessions
<1>3. IsSum(Held(b), f, S, Sessions)
  BY <1>1, <1>2, ReservesIsSum DEF Held
<1>4. IsSum(Held(b)', g, T, Sessions)
  BY <1>1, <1>2, ReservesIsSum DEF Held
<1>5. \A x \in Sessions : x # s => f[x] = g[x] /\ (x \in S <=> x \in T)
  BY DEF ReservedIn, HeldSessions, Holding
<1>6. s \in Sessions => f[s] \in Nat /\ g[s] \in Nat
  BY <1>1 DEF ReservedIn, Session
<1>7. s \in Sessions => f[s] = sess[s].reserved /\ g[s] = sess'[s].reserved
  BY DEF ReservedIn
<1>8. (s \in S <=> s \in Sessions /\ Holding(b, s)) /\ (s \in T <=> s \in Sessions /\ Holding(b, s)')
  BY DEF HeldSessions
<1> HIDE DEF f, g, S, T
<1>9. PICK m, n : m = Held(b) /\ n = Held(b)'
  OBVIOUS
<1>10. /\ m \in Nat /\ n \in Nat
       /\ n + (IF s \in S THEN f[s] ELSE 0) = m + (IF s \in T THEN g[s] ELSE 0)
  <2>1. IsSum(m, f, S, Sessions) /\ IsSum(n, g, T, Sessions) /\ IsFiniteSet(Sessions)
    BY <1>2, <1>3, <1>4, <1>9
  <2>2. DifferAt(s, f, g, S, T, Sessions)
    BY <1>2, <1>5, <1>6 DEF DifferAt
  <2> QED BY <2>1, <2>2, SumsDiffer
<1>11. s \in Sessions => /\ HeldBy(b, s) = (IF s \in S THEN f[s] ELSE 0)
                         /\ HeldBy(b, s)' = (IF s \in T THEN g[s] ELSE 0)
  BY <1>7, <1>8 DEF HeldBy
<1>12. s \notin Sessions => s \notin S /\ s \notin T
  BY <1>8
<1> QED BY <1>9, <1>10, <1>11, <1>12

(* A step that changes no request but that of h changes what is being settled by its part. *)
LEMMA SettledChanges ==
    ASSUME TypeOK, TypeOK', NEW h, \A x \in Clients : x # h => job'[x] = job[x],
           NEW b \in Scopes
    PROVE  /\ BeingSettled(b) \in Nat /\ BeingSettled(b)' \in Nat
           /\ h \in Clients => BeingSettled(b)' + SettledBy(b, h)
                                 = BeingSettled(b) + SettledBy(b, h)'
           /\ h \notin Clients => BeingSettled(b)' = BeingSettled(b)
<1> DEFINE f == ReadIn(job)
           g == ReadIn(job')
           S == EndingClients(b)
           T == EndingClients(b)'
<1>1. job \in [Clients \cup Crons -> Job] /\ job' \in [Clients \cup Crons -> Job]
  BY DEF TypeOK
<1>2. S \in SUBSET Clients /\ T \in SUBSET Clients /\ IsFiniteSet(Clients)
  BY DEF EndingClients
<1>3. IsSum(BeingSettled(b), f, S, Clients)
  BY <1>1, <1>2, ReadsIsSum DEF BeingSettled
<1>4. IsSum(BeingSettled(b)', g, T, Clients)
  BY <1>1, <1>2, ReadsIsSum DEF BeingSettled
<1>5. \A x \in Clients : x # h => f[x] = g[x] /\ (x \in S <=> x \in T)
  BY DEF ReadIn, EndingClients, Ending
<1>6. h \in Clients => f[h] \in Nat /\ g[h] \in Nat
  BY <1>1 DEF ReadIn, Job, SeenRow
<1>7. h \in Clients => f[h] = job[h].read.reserved /\ g[h] = job'[h].read.reserved
  BY DEF ReadIn
<1>8. (h \in S <=> h \in Clients /\ Ending(b, h)) /\ (h \in T <=> h \in Clients /\ Ending(b, h)')
  BY DEF EndingClients
<1> HIDE DEF f, g, S, T
<1>9. PICK m, n : m = BeingSettled(b) /\ n = BeingSettled(b)'
  OBVIOUS
<1>10. /\ m \in Nat /\ n \in Nat
       /\ n + (IF h \in S THEN f[h] ELSE 0) = m + (IF h \in T THEN g[h] ELSE 0)
  <2>1. IsSum(m, f, S, Clients) /\ IsSum(n, g, T, Clients) /\ IsFiniteSet(Clients)
    BY <1>2, <1>3, <1>4, <1>9
  <2>2. DifferAt(h, f, g, S, T, Clients)
    BY <1>2, <1>5, <1>6 DEF DifferAt
  <2> QED BY <2>1, <2>2, SumsDiffer
<1>11. h \in Clients => /\ SettledBy(b, h) = (IF h \in S THEN f[h] ELSE 0)
                        /\ SettledBy(b, h)' = (IF h \in T THEN g[h] ELSE 0)
  BY <1>7, <1>8 DEF SettledBy
<1>12. h \notin Clients => h \notin S /\ h \notin T
  BY <1>8
<1> QED BY <1>9, <1>10, <1>11, <1>12

-----------------------------------------------------------------------------
(* The inductive invariant, and what keeps it *)

\* A request that is to write a session it reserved, or read before it ends it, is about
\* an existing session and knows what that reserved; it missed no reservation.
ReadsRow(h, s) ==
    job[h].at \in {"TOKEN", "END", "SETTLE"} /\ job[h].s = {s} =>
        /\ sess[s].status # "NONE"
        /\ job[h].read.reserved = sess[s].reserved
        /\ (job[h].at = "END" /\ sess[s].reservation = "RESERVED") =>
               job[h].read.reservation = "RESERVED"
RowsRead   == \A h \in Clients, s \in Sessions : ReadsRow(h, s)
KeysUnused == \A s \in Sessions : sess[s].status = "NONE" => sess[s] = NoSession
Balance    == errors = 0 => \A b \in Scopes : budget[b].reserved <= Held(b) + BeingSettled(b)

HeldInv == RowsRead /\ KeysUnused /\ Balance

\* A step of request h that writes no session but s.
Touches(h, s) == /\ \A x \in Clients \cup Crons : x # h => job'[x] = job[x]
                 /\ \A x \in Sessions : x # s => sess'[x] = sess[x]

(* What a step takes from what is held and being settled, it takes from the budget. *)
LEMMA BalanceStep ==
    ASSUME TypeOK, TypeOK', Balance, errors' = errors,
           NEW h \in Clients \cup Crons, NEW s \in Sessions, Touches(h, s),
           \A b \in Scopes : h \notin Clients => SettledBy(b, h)' = SettledBy(b, h),
           \A b \in Scopes : budget'[b].reserved + HeldBy(b, s) + SettledBy(b, h)
                               <= budget[b].reserved + HeldBy(b, s)' + SettledBy(b, h)'
    PROVE  Balance'
<1>1. SUFFICES ASSUME errors = 0, NEW b \in Scopes
               PROVE  budget'[b].reserved <= Held(b)' + BeingSettled(b)'
  BY DEF Balance, Scopes
<1>2. budget[b].reserved <= Held(b) + BeingSettled(b)
  BY <1>1 DEF Balance
<1>3. /\ Held(b) \in Nat /\ Held(b)' \in Nat
      /\ Held(b)' + HeldBy(b, s) = Held(b) + HeldBy(b, s)'
  BY HeldChanges DEF Touches
<1>4. /\ BeingSettled(b) \in Nat /\ BeingSettled(b)' \in Nat
      /\ h \in Clients => BeingSettled(b)' + SettledBy(b, h)
                            = BeingSettled(b) + SettledBy(b, h)'
      /\ h \notin Clients => BeingSettled(b)' = BeingSettled(b)
  BY SettledChanges DEF Touches
<1>5. HeldBy(b, s) \in Nat /\ HeldBy(b, s)' \in Nat
  BY DEF HeldBy, TypeOK, Session
<1>6. SettledBy(b, h) \in Nat /\ SettledBy(b, h)' \in Nat
  BY DEF SettledBy, TypeOK, Job, SeenRow
<1>7. budget[b].reserved \in Int /\ budget'[b].reserved \in Int
  BY DEF TypeOK
<1>8. PICK q, r, l, m, n, o, v, w, x, y :
        /\ q = budget[b].reserved /\ r = budget'[b].reserved
        /\ l = Held(b) /\ m = Held(b)' /\ n = HeldBy(b, s) /\ o = HeldBy(b, s)'
        /\ v = BeingSettled(b) /\ w = BeingSettled(b)'
        /\ x = SettledBy(b, h) /\ y = SettledBy(b, h)'
  OBVIOUS
<1>9. w + x = v + y
  BY <1>4, <1>6, <1>8
<1>10. r + n + x <= q + o + y
  BY <1>8
<1>11. q \in Int /\ r \in Int /\ l \in Nat /\ m \in Nat /\ n \in Nat /\ o \in Nat
       /\ v \in Nat /\ w \in Nat /\ x \in Nat /\ y \in Nat
       /\ q <= l + v /\ m + n = l + o
  BY <1>2, <1>3, <1>4, <1>5, <1>6, <1>7, <1>8
<1>12. r <= m + w
  BY <1>9, <1>10, <1>11
<1> QED BY <1>8, <1>12

(* A step that deletes no session, reserves none again and changes no reserve keeps what
   the other requests read true. *)
LEMMA RowsStep ==
    ASSUME RowsRead, KeysUnused,
           NEW h \in Clients \cup Crons, NEW s \in Sessions, Touches(h, s),
           sess[s].status # "NONE" =>
               /\ sess'[s].reserved = sess[s].reserved
               /\ sess'[s].reservation = "RESERVED" => sess[s].reservation = "RESERVED",
           sess'[s].status = "NONE" => sess[s].status = "NONE" /\ sess'[s] = NoSession,
           \A x \in Sessions : ReadsRow(h, x)'
    PROVE  RowsRead' /\ KeysUnused'
<1>1. ASSUME NEW g \in Clients, NEW x \in Sessions
      PROVE  ReadsRow(g, x)'
  <2>1. CASE g = h
    BY <2>1
  <2>2. CASE g # h
    <3>1. job'[g] = job[g] /\ ReadsRow(g, x)
      BY <2>2 DEF Touches, RowsRead
    <3>2. CASE x # s
      BY <3>1, <3>2 DEF Touches, ReadsRow
    <3>3. CASE x = s
      BY <3>1, <3>3 DEF ReadsRow
    <3> QED BY <3>2, <3>3
  <2> QED BY <2>1, <2>2
<1>2. KeysUnused'
  <2>1. ASSUME NEW x \in Sessions, sess'[x].status = "NONE"
        PROVE  sess'[x] = NoSession
    BY <2>1 DEF KeysUnused, Touches
  <2> QED BY <2>1 DEF KeysUnused, NoSession
<1> QED BY <1>1, <1>2 DEF RowsRead

(* A step that moves no seconds: no reservation changes and no end begins to settle. *)
LEMMA QuietHeld ==
    ASSUME BudgetInv, BudgetInv', HeldInv, errors' = errors, budget' = budget,
           NEW h \in Clients \cup Crons, NEW s \in Sessions, Touches(h, s),
           sess'[s].reserved = sess[s].reserved,
           sess'[s].reservation = sess[s].reservation,
           sess'[s].status = "NONE" => sess'[s] = sess[s],
           job[h].at # "SETTLE", job'[h].at # "SETTLE",
           \A x \in Sessions : ReadsRow(h, x)'
    PROVE  HeldInv'
<1>1. TypeOK /\ TypeOK'
  BY DEF BudgetInv
<1>2. \A b \in Scopes : /\ HeldBy(b, s)' = HeldBy(b, s)
                        /\ SettledBy(b, h) = 0 /\ SettledBy(b, h)' = 0
  BY DEF HeldBy, Holding, SettledBy, Ending, ScopesOf
<1>3. \A b \in Scopes : HeldBy(b, s) \in Nat /\ budget[b].reserved \in Int
  BY <1>1 DEF HeldBy, TypeOK, Session
<1>4. Balance'
  <2>1. \A b \in Scopes : budget'[b].reserved + HeldBy(b, s) + SettledBy(b, h)
                            <= budget[b].reserved + HeldBy(b, s)' + SettledBy(b, h)'
    BY <1>2, <1>3
  <2>2. \A b \in Scopes : h \notin Clients => SettledBy(b, h)' = SettledBy(b, h)
    BY <1>2
  <2> QED BY <1>1, <2>1, <2>2, BalanceStep DEF HeldInv
<1>5. RowsRead' /\ KeysUnused'
  <2>1. sess'[s].status = "NONE" => sess[s].status = "NONE" /\ sess'[s] = NoSession
    BY DEF HeldInv, KeysUnused, NoSession
  <2> QED BY <2>1, RowsStep DEF HeldInv
<1> QED BY <1>4, <1>5 DEF HeldInv

-----------------------------------------------------------------------------
(* The actions that move seconds keep the balance *)

LEMMA ReserveHeld ==
    ASSUME BudgetInv, BudgetInv', HeldInv,
           NEW h \in Clients, NEW s \in Sessions, reserveSessionTx(h, s)
    PROVE  HeldInv'
<1> DEFINE seconds == SessionBudget(Owner[s])
<1>1. TypeOK /\ TypeOK' /\ errors' = errors
  BY DEF BudgetInv, reserveSessionTx, Env
<1>2. /\ sess[s] = NoSession
      /\ sess'[s].status = "ACTIVE" /\ sess'[s].reservation = "RESERVED"
      /\ sess'[s].reserved = seconds
  BY <1>1 DEF reserveSessionTx, TypeOK, NoSession
<1>3. /\ job[h].at = "RESERVE" /\ job[h].s = {s}
      /\ job'[h].at = "TOKEN" /\ job'[h].s = {s} /\ job'[h].read.reserved = seconds
  BY <1>1 DEF reserveSessionTx, At, Set, TypeOK, Job, Seen, NoSession
<1>4. Touches(h, s)
  BY <1>1 DEF reserveSessionTx, Set, TypeOK, Touches
<1>5. seconds \in Nat
  BY <1>1, <1>2 DEF TypeOK, Session
<1>6. \A b \in Scopes : /\ budget[b].reserved \in Int
                        /\ budget'[b].reserved = budget[b].reserved
                               + (IF b \in ScopesOf(Owner[s]) THEN seconds ELSE 0)
  BY <1>1, <1>5 DEF reserveSessionTx, TypeOK
<1> HIDE DEF seconds
<1>7. \A b \in Scopes :
          /\ HeldBy(b, s) = 0
          /\ HeldBy(b, s)' = (IF b \in ScopesOf(Owner[s]) THEN seconds ELSE 0)
          /\ SettledBy(b, h) = 0 /\ SettledBy(b, h)' = 0
  BY <1>2, <1>3 DEF HeldBy, Holding, SettledBy, Ending, NoSession, ScopesOf
<1>8. Balance'
  <2>1. \A b \in Scopes : budget'[b].reserved + HeldBy(b, s) + SettledBy(b, h)
                            <= budget[b].reserved + HeldBy(b, s)' + SettledBy(b, h)'
    BY <1>5, <1>6, <1>7
  <2> QED BY <1>1, <1>4, <2>1, BalanceStep DEF HeldInv
<1>9. \A x \in Sessions : ReadsRow(h, x)'
  BY <1>2, <1>3 DEF ReadsRow
<1>10. RowsRead' /\ KeysUnused'
  <2>1. sess[s].status = "NONE" /\ sess'[s].status # "NONE"
    BY <1>2 DEF NoSession
  <2> QED BY <1>4, <1>9, <2>1, RowsStep DEF HeldInv
<1> QED BY <1>8, <1>10 DEF HeldInv

(* Both scopes of a session give back what it reserved. *)
LEMMA ChargeGivesBack ==
    ASSUME TypeOK, NEW s \in Sessions, NEW reserved \in Nat, NEW used \in Nat,
           Charge(Owner[s], reserved, used)
    PROVE  \A b \in Scopes :
               /\ budget[b].reserved \in Int
               /\ budget'[b].reserved = budget[b].reserved
                      - (IF b \in ScopesOf(Owner[s]) THEN reserved ELSE 0)
BY DEF TypeOK, Charge

LEMMA FailedIssueHeld ==
    ASSUME BudgetInv, BudgetInv', HeldInv,
           NEW h \in Clients, NEW s \in Sessions, releaseFailedReservation(h, s)
    PROVE  HeldInv'
<1>1. TypeOK /\ TypeOK' /\ errors' = errors
  BY DEF BudgetInv, releaseFailedReservation, Env
<1>2. /\ job[h].at = "TOKEN" /\ job[h].s = {s} /\ job'[h] = NoJob
      /\ job[h].read.reserved = sess[s].reserved /\ sess[s].status # "NONE"
  BY <1>1 DEF releaseFailedReservation, At, Done, Set, TypeOK, HeldInv, RowsRead, ReadsRow
<1>3. /\ sess'[s].status = "FAILED" /\ sess'[s].reservation = "RELEASED"
      /\ sess'[s].reserved = sess[s].reserved /\ sess[s].reserved \in Nat
  <2>1. sess[s] \in Session
    BY <1>1 DEF TypeOK
  <2>2. sess'[s] = [sess[s] EXCEPT !.credential = "ISSUE_FAILED",
                       !.reservation = "RELEASED", !.status = "FAILED"]
    BY <1>1 DEF releaseFailedReservation, TypeOK
  <2> QED BY <2>1, <2>2 DEF Session
<1>4. Touches(h, s)
  BY <1>1 DEF releaseFailedReservation, Done, Set, TypeOK, Touches
<1>5. \A b \in Scopes :
          /\ budget[b].reserved \in Int
          /\ budget'[b].reserved = budget[b].reserved
                 - (IF b \in ScopesOf(Owner[s]) THEN sess[s].reserved ELSE 0)
  BY <1>1, <1>2, <1>3, ChargeGivesBack DEF releaseFailedReservation
<1>6. \A b \in Scopes :
          /\ HeldBy(b, s) \in Nat
          /\ HeldBy(b, s) <= (IF b \in ScopesOf(Owner[s]) THEN sess[s].reserved ELSE 0)
          /\ HeldBy(b, s)' = 0 /\ SettledBy(b, h) = 0 /\ SettledBy(b, h)' = 0
  BY <1>2, <1>3 DEF HeldBy, Holding, SettledBy, Ending, ScopesOf, NoJob
<1>7. Balance'
  <2>1. \A b \in Scopes : budget'[b].reserved + HeldBy(b, s) + SettledBy(b, h)
                            <= budget[b].reserved + HeldBy(b, s)' + SettledBy(b, h)'
    BY <1>3, <1>5, <1>6
  <2> QED BY <1>1, <1>4, <2>1, BalanceStep DEF HeldInv
<1>8. \A x \in Sessions : ReadsRow(h, x)'
  BY <1>2 DEF ReadsRow, NoJob
<1>9. RowsRead' /\ KeysUnused'
  BY <1>3, <1>4, <1>8, RowsStep DEF HeldInv
<1> QED BY <1>7, <1>9 DEF HeldInv

LEMMA EndUpdateHeld ==
    ASSUME BudgetInv, BudgetInv', HeldInv,
           NEW h \in Clients, NEW s \in Sessions, EndUpdate(h, s)
    PROVE  HeldInv'
<1>1. TypeOK /\ TypeOK' /\ errors' = errors /\ budget' = budget
  BY DEF BudgetInv, EndUpdate, Env
<1>2. /\ job[h].at = "END" /\ job[h].s = {s} /\ sess[s].status # "NONE"
      /\ job[h].read.reserved = sess[s].reserved
      /\ sess[s].reservation = "RESERVED" => job[h].read.reservation = "RESERVED"
  BY DEF EndUpdate, At, HeldInv, RowsRead, ReadsRow
<1>3. /\ sess'[s].status = "ENDED" /\ sess'[s].reservation = "ALLOCATED"
      /\ sess'[s].reserved = sess[s].reserved /\ sess[s].reserved \in Nat
  <2> DEFINE seconds == computeUsedSeconds(job[h].read)
  <2>1. sess[s] \in Session
    BY <1>1 DEF TypeOK
  <2>2. sess'[s] = [sess[s] EXCEPT !.status = "ENDED", !.reservation = "ALLOCATED",
                       !.used = seconds, !.allocated = seconds,
                       !.startedAt = -1, !.blockedUntil = now]
    BY <1>1 DEF EndUpdate, TypeOK
  <2> HIDE DEF seconds
  <2> QED BY <2>1, <2>2 DEF Session
<1>4. Touches(h, s)
  BY <1>1 DEF EndUpdate, Done, Set, TypeOK, Touches
<1>5. IF job[h].read.reservation = "RESERVED"
      THEN /\ job'[h].at = "SETTLE" /\ job'[h].s = {s}
           /\ job'[h].read.reserved = sess[s].reserved
      ELSE job'[h] = NoJob
  <2>1. job[h] \in Job /\ h \in Clients \cup Crons
    BY <1>1 DEF TypeOK
  <2>2. CASE job[h].read.reservation = "RESERVED"
    <3> DEFINE seconds == computeUsedSeconds(job[h].read)
    <3>1. job'[h] = [job[h] EXCEPT !.at = "SETTLE", !.used = seconds]
      BY <1>1, <2>2 DEF EndUpdate, Set, TypeOK
    <3> HIDE DEF seconds
    <3> QED BY <1>2, <2>1, <2>2, <3>1 DEF Job
  <2>3. CASE job[h].read.reservation # "RESERVED"
    BY <1>1, <2>3 DEF EndUpdate, Done, Set, TypeOK
  <2> QED BY <2>2, <2>3
<1>6. \A b \in Scopes :
          /\ HeldBy(b, s) \in Nat /\ HeldBy(b, s)' = 0 /\ SettledBy(b, h) = 0
          /\ SettledBy(b, h)' \in Nat /\ HeldBy(b, s) <= SettledBy(b, h)'
  <2>1. ASSUME NEW b \in Scopes
        PROVE  /\ HeldBy(b, s) \in Nat /\ HeldBy(b, s)' = 0 /\ SettledBy(b, h) = 0
               /\ SettledBy(b, h)' \in Nat /\ HeldBy(b, s) <= SettledBy(b, h)'
    <3>1. HeldBy(b, s) \in Nat /\ HeldBy(b, s)' = 0 /\ SettledBy(b, h) = 0
      BY <1>2, <1>3 DEF HeldBy, Holding, SettledBy, Ending
    <3>2. CASE job[h].read.reservation = "RESERVED"
      <4>1. SettledBy(b, h)' = (IF b \in ScopesOf(Owner[s]) THEN sess[s].reserved ELSE 0)
        BY <1>5, <3>2 DEF SettledBy, Ending, ScopesOf
      <4>2. HeldBy(b, s) = 0 \/ (b \in ScopesOf(Owner[s]) /\ HeldBy(b, s) = sess[s].reserved)
        BY DEF HeldBy, Holding
      <4> QED BY <1>3, <3>1, <4>1, <4>2
    <3>3. CASE job[h].read.reservation # "RESERVED"
      <4>1. SettledBy(b, h)' = 0
        BY <1>5, <3>3 DEF SettledBy, Ending, NoJob
      <4>2. HeldBy(b, s) = 0
        BY <1>2, <3>3 DEF HeldBy, Holding
      <4> QED BY <3>1, <4>1, <4>2
    <3> QED BY <3>2, <3>3
  <2> QED BY <2>1
<1>7. Balance'
  <2>1. \A b \in Scopes : budget[b].reserved \in Int
    BY <1>1 DEF TypeOK
  <2>2. \A b \in Scopes : budget'[b].reserved + HeldBy(b, s) + SettledBy(b, h)
                            <= budget[b].reserved + HeldBy(b, s)' + SettledBy(b, h)'
    BY <1>1, <1>6, <2>1
  <2> QED BY <1>1, <1>4, <2>2, BalanceStep DEF HeldInv
<1>8. \A x \in Sessions : ReadsRow(h, x)'
  BY <1>3, <1>5 DEF ReadsRow, NoJob
<1>9. RowsRead' /\ KeysUnused'
  BY <1>3, <1>4, <1>8, RowsStep DEF HeldInv
<1> QED BY <1>7, <1>9 DEF HeldInv

LEMMA EndSettleHeld ==
    ASSUME BudgetInv, BudgetInv', HeldInv,
           NEW h \in Clients, NEW s \in Sessions, EndSettle(h, s)
    PROVE  HeldInv'
<1>1. TypeOK /\ TypeOK' /\ errors' = errors /\ sess' = sess
  BY DEF BudgetInv, EndSettle, Env
<1>2. job[h].at = "SETTLE" /\ job[h].s = {s} /\ job'[h] = NoJob
  BY <1>1 DEF EndSettle, At, Done, Set, TypeOK
<1>3. Touches(h, s)
  BY <1>1 DEF EndSettle, Done, Set, TypeOK, Touches
<1>4. job[h].read.reserved \in Nat /\ job[h].used \in Nat
  BY <1>1 DEF TypeOK, Job, SeenRow
<1>5. \A b \in Scopes :
          /\ budget[b].reserved \in Int
          /\ budget'[b].reserved = budget[b].reserved
                 - (IF b \in ScopesOf(Owner[s]) THEN job[h].read.reserved ELSE 0)
  BY <1>1, <1>4, ChargeGivesBack DEF EndSettle
<1>6. \A b \in Scopes :
          /\ HeldBy(b, s) \in Nat /\ HeldBy(b, s)' = HeldBy(b, s)
          /\ SettledBy(b, h) = (IF b \in ScopesOf(Owner[s]) THEN job[h].read.reserved ELSE 0)
          /\ SettledBy(b, h)' = 0
  BY <1>1, <1>2 DEF HeldBy, Holding, SettledBy, Ending, NoJob, TypeOK, Session, ScopesOf
<1>7. Balance'
  <2>1. \A b \in Scopes : budget'[b].reserved + HeldBy(b, s) + SettledBy(b, h)
                            <= budget[b].reserved + HeldBy(b, s)' + SettledBy(b, h)'
    BY <1>4, <1>5, <1>6
  <2> QED BY <1>1, <1>3, <2>1, BalanceStep DEF HeldInv
<1>8. \A x \in Sessions : ReadsRow(h, x)'
  BY <1>2 DEF ReadsRow, NoJob
<1>9. RowsRead' /\ KeysUnused'
  BY <1>1, <1>3, <1>8, RowsStep DEF HeldInv, KeysUnused
<1> QED BY <1>7, <1>9 DEF HeldInv

LEMMA CronSettleHeld ==
    ASSUME BudgetInv, BudgetInv', HeldInv,
           NEW c \in Crons, NEW s \in Sessions, settleExpiredSession(c, s)
    PROVE  HeldInv'
<1>1. TypeOK /\ TypeOK' /\ errors' = errors
  BY DEF BudgetInv, settleExpiredSession, Env
<1>2. job[c].at = "CRON" /\ job'[c].at \in {"CRON", "IDLE"}
  <2>1. job[c].at = "CRON" /\ job[c] \in Job
    BY <1>1 DEF settleExpiredSession, TypeOK
  <2>2. CASE job[c].s = {s}
    BY <1>1, <2>1, <2>2 DEF settleExpiredSession, Done, Set, TypeOK, NoJob
  <2>3. CASE job[c].s # {s}
    BY <1>1, <2>1, <2>3 DEF settleExpiredSession, Set, TypeOK, Job
  <2> QED BY <2>1, <2>2, <2>3
<1>3. \A x \in Clients \cup Crons : x # c => job'[x] = job[x]
  BY <1>1 DEF settleExpiredSession, Done, Set, TypeOK
<1>4. \A x \in Sessions : ReadsRow(c, x)'
  BY <1>2 DEF ReadsRow
<1>5. CASE ~Due(s)
  <2>1. sess' = sess /\ budget' = budget
    BY <1>5 DEF settleExpiredSession, rows
  <2> QED BY <1>1, <1>2, <1>3, <1>4, <2>1, QuietHeld DEF Touches
<1>6. CASE Due(s)
  <2> DEFINE seconds == computeUsedSeconds(sess[s])
             row == [sess[s] EXCEPT
                         !.status = IF @ = "ACTIVE" THEN "EXPIRED" ELSE @,
                         !.credential = IF @ = "ISSUING" THEN "ISSUE_UNKNOWN" ELSE @,
                         !.reservation = "ALLOCATED", !.allocated = seconds,
                         !.used = seconds, !.startedAt = -1]
  <2>1. sess[s] \in Session /\ now \in 0..MaxTime
    BY <1>1 DEF TypeOK
  <2>2. seconds \in Nat
    BY <2>1, UsedWithinReserve DEF Session
  <2>3. sess[s].reservation = "RESERVED" /\ sess[s].status # "NONE"
    BY <1>6 DEF Due, HeldInv, KeysUnused, NoSession
  <2>4. sess' = [sess EXCEPT ![s] = row] /\ Charge(Owner[s], sess[s].reserved, seconds)
    BY <1>1, <1>6 DEF settleExpiredSession
  <2>5. /\ row.status # "NONE" /\ row.reservation = "ALLOCATED"
        /\ row.reserved = sess[s].reserved /\ sess[s].reserved \in Nat
    <3> HIDE DEF seconds
    <3> QED BY <2>1, <2>3 DEF Session
  <2> HIDE DEF seconds, row
  <2>6. sess'[s] = row /\ Touches(c, s)
    BY <1>1, <1>3, <2>4 DEF TypeOK, Touches
  <2>7. \A b \in Scopes :
            /\ budget[b].reserved \in Int
            /\ budget'[b].reserved = budget[b].reserved
                   - (IF b \in ScopesOf(Owner[s]) THEN sess[s].reserved ELSE 0)
    BY <1>1, <2>2, <2>4, <2>5, ChargeGivesBack
  <2>8. \A b \in Scopes :
            /\ HeldBy(b, s) = (IF b \in ScopesOf(Owner[s]) THEN sess[s].reserved ELSE 0)
            /\ HeldBy(b, s)' = 0 /\ SettledBy(b, c) = 0 /\ SettledBy(b, c)' = 0
    BY <1>2, <2>3, <2>5, <2>6 DEF HeldBy, Holding, SettledBy, Ending, ScopesOf
  <2>9. Balance'
    <3>1. \A b \in Scopes : budget'[b].reserved + HeldBy(b, s) + SettledBy(b, c)
                              <= budget[b].reserved + HeldBy(b, s)' + SettledBy(b, c)'
      BY <2>5, <2>7, <2>8
    <3>2. \A b \in Scopes : c \notin Clients => SettledBy(b, c)' = SettledBy(b, c)
      BY <2>8
    <3> QED BY <1>1, <2>6, <3>1, <3>2, BalanceStep DEF HeldInv
  <2>10. RowsRead' /\ KeysUnused'
    BY <1>4, <2>5, <2>6, RowsStep DEF HeldInv
  <2> QED BY <2>9, <2>10 DEF HeldInv
<1> QED BY <1>5, <1>6

-----------------------------------------------------------------------------
(* The actions that move no seconds *)

LEMMA CreateHeld ==
    ASSUME BudgetInv, BudgetInv', HeldInv,
           NEW h \in Clients, NEW s \in Sessions, Create(h, s)
    PROVE  HeldInv'
<1>1. TypeOK /\ TypeOK' /\ sess[s] \in Session /\ job[h] \in Job
  BY DEF BudgetInv, TypeOK
<1>2. CASE CreateRead(h, s)
  <2>1. /\ sess' = sess /\ budget' = budget /\ errors' = errors
        /\ job[h] = NoJob /\ job'[h] = Since("RESERVE", s, now) /\ Touches(h, s)
    BY <1>1, <1>2 DEF CreateRead, rows, Env, Start, Set, TypeOK, Touches, Since
  <2>2. now \in -1..MaxTime /\ "RESERVE" \in Stages
    BY <1>1, ClockTimes DEF Stages
  <2>3. job[h].at # "SETTLE" /\ job'[h].at = "RESERVE"
    BY <2>1, <2>2, JobSince DEF NoJob
  <2>4. \A x \in Sessions : ReadsRow(h, x)'
    BY <2>3 DEF ReadsRow
  <2> QED BY <2>1, <2>3, <2>4, QuietHeld
<1>3. CASE ReserveRefused(h, s)
  <2>1. /\ sess' = sess /\ budget' = budget /\ errors' = errors
        /\ job[h].at = "RESERVE" /\ job'[h] = NoJob /\ Touches(h, s)
    BY <1>1, <1>3 DEF ReserveRefused, At, rows, Env, Done, Set, TypeOK, Touches
  <2>2. job'[h].at = "IDLE" /\ \A x \in Sessions : ReadsRow(h, x)'
    BY <2>1 DEF ReadsRow, NoJob
  <2> QED BY <2>1, <2>2, QuietHeld
<1>4. CASE Issue(h, s)
  <2>1. /\ budget' = budget /\ errors' = errors
        /\ job[h].at = "TOKEN" /\ job[h].s = {s} /\ job'[h] = NoJob /\ Touches(h, s)
    BY <1>1, <1>4 DEF Issue, At, Env, Done, Set, TypeOK, Touches
  <2>2. sess[s].status # "NONE"
    BY <2>1 DEF HeldInv, RowsRead, ReadsRow
  <2>3. /\ sess'[s].reserved = sess[s].reserved /\ sess'[s].status = sess[s].status
        /\ sess'[s].reservation = sess[s].reservation
    <3>1. sess'[s] = [sess[s] EXCEPT !.credential = "ISSUED", !.startedAt = job[h].since]
      BY <1>1, <1>4 DEF Issue, TypeOK
    <3> QED BY <1>1, <3>1 DEF Session
  <2>4. job'[h].at = "IDLE" /\ \A x \in Sessions : ReadsRow(h, x)'
    BY <2>1 DEF ReadsRow, NoJob
  <2> QED BY <2>1, <2>2, <2>3, <2>4, QuietHeld
<1> QED BY <1>2, <1>3, <1>4, ReserveHeld, FailedIssueHeld DEF Create

LEMMA ControlHeld ==
    ASSUME BudgetInv, BudgetInv', HeldInv,
           NEW h \in Clients, NEW s \in Sessions, Control(h, s)
    PROVE  HeldInv'
<1>1. TypeOK /\ TypeOK' /\ sess[s] \in Session /\ job[h] \in Job
  BY DEF BudgetInv, TypeOK
<1>2. ASSUME NEW stage \in {"PAUSE", "RESUME", "END"}, Read(h, s, stage),
             sess[s] # NoSession
      PROVE  HeldInv'
  <2>1. /\ sess' = sess /\ budget' = budget /\ errors' = errors
        /\ job[h] = NoJob /\ Touches(h, s)
        /\ job'[h] = [NoJob EXCEPT !.at = stage, !.s = {s}, !.read = Seen(sess[s])]
    BY <1>1, <1>2 DEF Read, rows, Env, Start, Set, TypeOK, Touches
  <2>2. /\ job'[h].at = stage /\ job'[h].s = {s}
        /\ job'[h].read.reserved = sess[s].reserved
        /\ job'[h].read.reservation = sess[s].reservation
    BY <2>1 DEF NoJob, Seen
  <2>3. sess[s].status # "NONE"
    BY <1>2 DEF HeldInv, KeysUnused
  <2>4. \A x \in Sessions : ReadsRow(h, x)'
    BY <2>1, <2>2, <2>3 DEF ReadsRow
  <2>5. job[h].at # "SETTLE" /\ job'[h].at # "SETTLE"
    BY <1>2, <2>1, <2>2 DEF NoJob
  <2> QED BY <2>1, <2>4, <2>5, QuietHeld
<1>3. CASE PauseRead(h, s) \/ ResumeRead(h, s) \/ EndRead(h, s)
  <2>1. sess[s] # NoSession
    BY <1>3 DEF PauseRead, ResumeRead, EndRead, NoSession
  <2> QED BY <1>2, <1>3, <2>1 DEF PauseRead, ResumeRead, EndRead
<1>4. CASE Pause(h, s)
  <2>1. /\ budget' = budget /\ errors' = errors
        /\ job[h].at = "PAUSE" /\ job'[h] = NoJob /\ Touches(h, s)
    BY <1>1, <1>4 DEF Pause, At, Env, Done, Set, TypeOK, Touches
  <2>2. /\ sess'[s].reserved = sess[s].reserved /\ sess'[s].status = "PAUSED"
        /\ sess'[s].reservation = sess[s].reservation
    <3> DEFINE seconds == computeUsedSeconds(job[h].read)
    <3>1. sess'[s] = [sess[s] EXCEPT !.status = "PAUSED", !.startedAt = -1,
                         !.used = seconds, !.pauseUntil = now + pauseTimeoutSeconds]
      BY <1>1, <1>4 DEF Pause, TypeOK
    <3> HIDE DEF seconds
    <3> QED BY <1>1, <3>1 DEF Session
  <2>3. job'[h].at = "IDLE" /\ \A x \in Sessions : ReadsRow(h, x)'
    BY <2>1 DEF ReadsRow, NoJob
  <2> QED BY <2>1, <2>2, <2>3, QuietHeld
<1>5. CASE Resume(h, s)
  <2>1. /\ budget' = budget /\ errors' = errors
        /\ job[h].at = "RESUME" /\ job'[h] = NoJob /\ Touches(h, s)
    BY <1>1, <1>5 DEF Resume, At, Env, Done, Set, TypeOK, Touches
  <2>2. /\ sess'[s].reserved = sess[s].reserved /\ sess'[s].status = "ACTIVE"
        /\ sess'[s].reservation = sess[s].reservation
    <3>1. sess'[s] = [sess[s] EXCEPT !.status = "ACTIVE", !.credential = "ISSUED",
                         !.startedAt = now]
      BY <1>1, <1>5 DEF Resume, TypeOK
    <3> QED BY <1>1, <3>1 DEF Session
  <2>3. job'[h].at = "IDLE" /\ \A x \in Sessions : ReadsRow(h, x)'
    BY <2>1 DEF ReadsRow, NoJob
  <2> QED BY <2>1, <2>2, <2>3, QuietHeld
<1>6. CASE ResumeRefused(h, s)
  <2>1. /\ sess' = sess /\ budget' = budget /\ errors' = errors
        /\ job[h].at = "RESUME" /\ job'[h] = NoJob /\ Touches(h, s)
    BY <1>1, <1>6 DEF ResumeRefused, At, rows, Env, Done, Set, TypeOK, Touches
  <2>2. job'[h].at = "IDLE" /\ \A x \in Sessions : ReadsRow(h, x)'
    BY <2>1 DEF ReadsRow, NoJob
  <2> QED BY <2>1, <2>2, QuietHeld
<1> QED BY <1>3, <1>4, <1>5, <1>6, EndUpdateHeld, EndSettleHeld DEF Control

LEMMA CronStartHeld ==
    ASSUME BudgetInv, BudgetInv', HeldInv, NEW c \in Crons, reconcileExpiredSessions(c)
    PROVE  HeldInv'
<1> DEFINE due == {s \in Sessions : Due(s) /\ sess[s].credential \in SettledCredentials}
<1>1. TypeOK /\ TypeOK'
  BY DEF BudgetInv
<1>2. PICK s \in Sessions : s \in due
  BY DEF reconcileExpiredSessions
<1>3. /\ sess' = sess /\ budget' = budget /\ errors' = errors
      /\ job[c] = NoJob /\ Touches(c, s)
      /\ job'[c] = [NoJob EXCEPT !.at = "CRON", !.s = due]
  BY <1>1 DEF reconcileExpiredSessions, rows, Env, Start, Set, TypeOK, Touches
<1> HIDE DEF due
<1>4. job[c].at = "IDLE" /\ job'[c].at = "CRON"
  BY <1>3 DEF NoJob
<1>5. \A x \in Sessions : ReadsRow(c, x)'
  BY <1>4 DEF ReadsRow
<1> QED BY <1>3, <1>4, <1>5, QuietHeld

LEMMA OutsideHeld ==
    ASSUME BudgetInv, HeldInv,
           \/ \E h \in Clients \cup Crons : Crash(h)
           \/ \E tiers \in SUBSET LiveTiers : SetPolicy(tiers)
           \/ Tick
           \/ UNCHANGED vars
    PROVE  HeldInv'
<1>1. TypeOK
  BY DEF BudgetInv
<1>2. ASSUME NEW h \in Clients \cup Crons, Crash(h)
      PROVE  HeldInv'
  <2>1. sess' = sess /\ errors' # 0
    BY <1>1, <1>2 DEF Crash, rows, TypeOK
  <2>2. \A g \in Clients \cup Crons : job'[g] = job[g] \/ job'[g] = NoJob
    BY <1>1, <1>2 DEF Crash, Done, Set, TypeOK
  <2>3. RowsRead'
    BY <2>1, <2>2 DEF HeldInv, RowsRead, ReadsRow, NoJob
  <2>4. KeysUnused' /\ Balance'
    BY <2>1 DEF HeldInv, KeysUnused, Balance
  <2> QED BY <2>3, <2>4 DEF HeldInv
<1>3. ASSUME UNCHANGED <<sess, budget, job, errors>>
      PROVE  HeldInv'
  <2>1. RowsRead' /\ KeysUnused'
    BY <1>3 DEF HeldInv, RowsRead, ReadsRow, KeysUnused
  <2>2. \A b \in Scopes : Held(b)' = Held(b) /\ BeingSettled(b)' = BeingSettled(b)
    BY <1>3 DEF Held, BeingSettled, HeldSessions, EndingClients, Holding, Ending
  <2>3. Balance'
    BY <1>3, <2>2 DEF HeldInv, Balance, Scopes
  <2> QED BY <2>1, <2>3 DEF HeldInv
<1> QED BY <1>2, <1>3 DEF SetPolicy, Tick, vars, rows

LEMMA HeldTyped ==
    ASSUME TypeOK, NEW b \in Scopes
    PROVE  Held(b) \in Nat /\ BeingSettled(b) \in Nat
<1>1. \A n, f, T, U : T \in SUBSET U /\ IsSum(n, f, T, U) => n \in Nat
  BY DEF IsSum, Additive
<1>2. HeldSessions(b) \in SUBSET Sessions /\ EndingClients(b) \in SUBSET Clients
  BY DEF HeldSessions, EndingClients
<1>3. IsSum(Held(b), ReservedIn(sess), HeldSessions(b), Sessions)
  BY <1>2, ReservesIsSum DEF Held, TypeOK
<1>4. IsSum(BeingSettled(b), ReadIn(job), EndingClients(b), Clients)
  BY <1>2, ReadsIsSum DEF BeingSettled, TypeOK
<1> QED BY <1>1, <1>2, <1>3, <1>4

LEMMA HeldInvHolds == Spec => [](BudgetInv /\ HeldInv)
<1>1. ASSUME Init, BudgetInv PROVE HeldInv
  <2>1. TypeOK
    BY <1>1 DEF BudgetInv
  <2>2. RowsRead /\ KeysUnused
    BY <1>1 DEF Init, RowsRead, ReadsRow, KeysUnused, NoJob
  <2>3. Balance
    <3>1. \A b \in Scopes : budget[b].reserved = 0
      BY <1>1 DEF Init
    <3> QED BY <2>1, <3>1, HeldTyped DEF Balance
  <2> QED BY <2>2, <2>3 DEF HeldInv
<1>2. BudgetInv /\ BudgetInv' /\ HeldInv /\ [Next]_vars => HeldInv'
  BY CreateHeld, ControlHeld, CronStartHeld, CronSettleHeld, OutsideHeld DEF Next, Cron
<1>3. Spec => []BudgetInv
  BY BudgetInvHolds
<1> QED BY <1>1, <1>2, <1>3, PTL DEF Spec

(* While no request died, the seconds reserved in a budget are those of sessions still
   RESERVED and of ends that are about to give them back, whatever requests and runs of
   the cron are mixed (reserveSessionTx, releaseFailedReservation, endSession and
   settleExpiredSession of live-try-on.service.ts). *)
THEOREM ReservedIsHeldHolds == Spec => []ReservedIsHeld
<1>1. HeldInv => ReservedIsHeld
  BY PropertyIsBalance DEF HeldInv, Balance
<1> QED BY <1>1, HeldInvHolds, PTL

=============================================================================
