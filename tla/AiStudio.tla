------------------------------- MODULE AiStudio -------------------------------
(***************************************************************************)
(* A metered AI feature (try-on pictures, the stylist or the chatbot), one *)
(* user and one quota day.  The daily counter lives in Redis, or in the    *)
(* memory of the process while Redis is away, and is copied to             *)
(* `daily_usage` without waiting; try-on and the chat socket take a lock   *)
(* that expires by itself; try-on and stylist answer from the results they *)
(* stored.  The features share nothing with each other, so `action` picks  *)
(* one of them.                                                            *)
(*                                                                         *)
(* Pictures, prompts and answers are left out.  An outfit is a function    *)
(* from the layers worn to the pictures of the garments: one garment per   *)
(* layer is what layerCombinationError asks for.                           *)
(***************************************************************************)
EXTENDS Integers, FiniteSets, Sequences, FiniteSetsExt, SequencesExt

CONSTANTS
    Handlers,                  \* requests at one time
    Outfits,                   \* what the user tries on
    Limit,                     \* AI_ACTION_LIMITS of his tier, per action
    Mock,                      \* AI_TRYON_PROVIDER is mock
    MaxFaults                  \* bound: deaths, outages, lock expiries and deletions together

Actions == {"TRY_ON", "STYLIST", "CHATBOT"}
KindsOf == [TRY_ON |-> {"TRY_ON"}, STYLIST |-> {"STYLIST"}, CHATBOT |-> {"CHAT_SOCKET", "CHAT_SSE"}]

-----------------------------------------------------------------------------
(* Outfits *)

\* Inner first, the outer layer on top of it.
LayerOrder == <<"INNER", "BOTTOM", "OUTER", "FULL_BODY">>
MAX_TRY_ON_LAYERS == 3
layerCombinationAllowed(o) ==
    /\ Cardinality(DOMAIN o) \in 1..MAX_TRY_ON_LAYERS
    /\ "FULL_BODY" \in DOMAIN o => DOMAIN o = {"FULL_BODY"}

Pictures(o) == LET worn == SelectSeq(LayerOrder, LAMBDA l : l \in DOMAIN o)
               IN  [i \in DOMAIN worn |-> o[worn[i]]]
\* The hashes sorted and the layers sorted, each on its own.
CacheKey(o) == [pictures |-> [p \in Range(o) |-> Cardinality({l \in DOMAIN o : o[l] = p})],
                layers |-> DOMAIN o]

VARIABLES
    action,             \* the feature
    up,                 \* Redis answers
    counter, memory,    \* the counter in Redis and in the process; -1: no such key
    usage, pending,     \* daily_usage; upserts under way
    locks, memLocks,    \* lock keys in Redis and in the process
    tryOns, styled,     \* try_on_results in order; the stylist has a stored result
    open,               \* the chat session exists
    delivered,          \* results given to the user today
    job, errors, outages, expiries, deletes

vars == <<action, up, counter, memory, usage, pending, locks, memLocks, tryOns, styled, open,
          delivered, job, errors, outages, expiries, deletes>>

\* The steps of a request.  The mock provider's result is returned without an await,
\* so the lock is released before it is stored.
EarlyRelease == <<"GUARD", "LOCK", "CACHE", "QUOTA", "RELEASE", "PROVIDER", "SAVE", "CONSUME">>
TryOnSteps   == <<"GUARD", "LOCK", "CACHE", "QUOTA", "PROVIDER", "SAVE", "CONSUME", "RELEASE">>
MockSteps    == <<"GUARD", "LOCK", "CACHE", "QUOTA", "RELEASE", "SAVE", "CONSUME">>
ChargedFirst == <<"GUARD", "CACHE", "CONSUME", "PROVIDER", "SAVE">>
StylistSteps == <<"GUARD", "CACHE", "PROVIDER", "SAVE", "CONSUME">>
ChatSteps    == <<"GUARD", "ASK", "PROVIDER", "SAVE", "CONSUME">>
SocketSteps  == <<"GUARD", "LOCK", "ASK", "PROVIDER", "SAVE", "CONSUME", "RELEASE">>
Flow(k) == CASE k = "TRY_ON"      -> IF Mock THEN MockSteps ELSE TryOnSteps
             [] k = "STYLIST"     -> StylistSteps
             [] k = "CHAT_SOCKET" -> SocketSteps
             [] k = "CHAT_SSE"    -> ChatSteps

NoJob == [kind |-> "NONE", step |-> 0, reading |-> "NO", used |-> 0, outfit |-> {}, failed |-> FALSE]

Init ==
    /\ action \in Actions
    /\ up = TRUE
    /\ counter = -1 /\ memory = -1
    /\ usage = 0 /\ pending = 0 /\ delivered = 0
    /\ locks = {} /\ memLocks = {}
    /\ tryOns = <<>> /\ styled = FALSE /\ open = FALSE
    /\ job = [h \in Handlers |-> NoJob]
    /\ errors = 0 /\ outages = 0 /\ expiries = 0 /\ deletes = 0

quotas == <<counter, memory, usage, pending, delivered>>
stored == <<tryOns, styled, open>>
guards == <<locks, memLocks>>
Env    == UNCHANGED <<action, up, errors, outages, expiries, deletes>>

Active(h) == job[h].kind # "NONE"
Steps(h)  == Flow(job[h].kind)
At(h, s)  == Active(h) /\ Steps(h)[job[h].step] = s
AtEnd(h)  == job[h].step = Len(Steps(h))
Outfit(h) == CHOOSE o \in job[h].outfit : TRUE
Count(h)  == IF job[h].kind = "TRY_ON" THEN Cardinality(DOMAIN Outfit(h)) ELSE 1
Go(h, j)  == job' = [job EXCEPT ![h] = j]
Advance(h) == Go(h, IF AtEnd(h) THEN NoJob
                    ELSE [job[h] EXCEPT !.step = @ + 1, !.reading = "NO", !.used = 0])

LockKey(h) == IF job[h].kind = "TRY_ON" THEN Pictures(Outfit(h)) ELSE <<>>
ReleaseStep(h) == {i \in DOMAIN Steps(h) : Steps(h)[i] = "RELEASE"}
Holding(h) == \E l, r \in DOMAIN Steps(h) :
                  /\ Steps(h)[l] = "LOCK" /\ Steps(h)[r] = "RELEASE"
                  /\ l < job[h].step /\ job[h].step < r
\* An error ends the request, by way of the finally block that releases its lock.
Fail(h) == Go(h, IF Holding(h)
                 THEN [job[h] EXCEPT !.step = Max(ReleaseStep(h)), !.reading = "NO",
                                     !.failed = TRUE]
                 ELSE NoJob)

-----------------------------------------------------------------------------
(* RedisService: every operation falls back to the memory of the process *)

Read  == IF up THEN counter ELSE memory
Write(n) == IF up THEN counter' = n /\ UNCHANGED memory
                  ELSE memory' = n /\ UNCHANGED counter
Used == IF Read = -1 THEN 0 ELSE Read

acquireLock(h) ==
    /\ At(h, "LOCK")
    /\ IF LockKey(h) \in (IF up THEN locks ELSE memLocks)
       THEN Go(h, NoJob) /\ UNCHANGED guards
       ELSE /\ Advance(h)
            /\ IF up THEN locks' = locks \cup {LockKey(h)} /\ UNCHANGED memLocks
                     ELSE memLocks' = memLocks \cup {LockKey(h)} /\ UNCHANGED locks
    /\ UNCHANGED <<quotas, stored>> /\ Env

\* It deletes the key whoever holds it now.
releaseLock(h) ==
    /\ At(h, "RELEASE")
    /\ IF up THEN locks' = locks \ {LockKey(h)} /\ UNCHANGED memLocks
             ELSE memLocks' = memLocks \ {LockKey(h)} /\ UNCHANGED locks
    /\ IF job[h].failed THEN Go(h, NoJob) ELSE Advance(h)
    /\ UNCHANGED <<quotas, stored>> /\ Env

-----------------------------------------------------------------------------
(* QuotaService.assertQuota: in the guard, in the socket handler, and in try-on *)

\* The guard asks for one use whatever the number of garments.
Asked(h) == IF At(h, "QUOTA") THEN Count(h) ELSE 1
Decide(h, used) == IF used + Asked(h) > Limit[action] THEN Fail(h) ELSE Advance(h)
Asserting(h) == At(h, "GUARD") \/ At(h, "QUOTA")

AssertGet(h) ==
    /\ Asserting(h) /\ job[h].reading = "NO"
    /\ IF Read # -1 THEN Decide(h, Read)
       ELSE Go(h, [job[h] EXCEPT !.reading = "USAGE"])
    /\ UNCHANGED <<quotas, stored, guards>> /\ Env

AssertLoad(h) ==
    /\ Asserting(h) /\ job[h].reading = "USAGE"
    /\ Go(h, [job[h] EXCEPT !.reading = "LOADED", !.used = usage])
    /\ UNCHANGED <<quotas, stored, guards>> /\ Env

AssertStore(h) ==
    /\ Asserting(h) /\ job[h].reading = "LOADED"
    /\ Write(job[h].used)
    /\ Decide(h, job[h].used)
    /\ UNCHANGED <<usage, pending, delivered, stored, guards>> /\ Env

\* incrBy, and an upsert nobody waits for.
consumeQuota(h) ==
    /\ At(h, "CONSUME")
    /\ Write(Used + Count(h))
    /\ pending' = pending + Count(h)
    /\ Advance(h)
    /\ UNCHANGED <<usage, delivered, stored, guards>> /\ Env

SyncUsage ==
    /\ pending > 0 /\ pending' = 0
    /\ usage' = usage + pending
    /\ UNCHANGED <<counter, memory, delivered, job, stored, guards>> /\ Env

-----------------------------------------------------------------------------
(* generateTryOn, analyzeAndAdvise, streamChat *)

Request(h, k, outfit) ==
    /\ Go(h, [NoJob EXCEPT !.kind = k, !.step = 1, !.outfit = outfit])
    /\ UNCHANGED <<quotas, stored, guards>> /\ Env

Wearable == {o \in Outfits : layerCombinationAllowed(o)}
FreshRequest(h) ==
    ~Active(h) /\ \E k \in KindsOf[action] :
        \E worn \in (IF k = "TRY_ON" THEN {{o} : o \in Wearable} ELSE {{}}) : Request(h, k, worn)

CachedTryOns(o) == {i \in DOMAIN tryOns : CacheKey(tryOns[i]) = CacheKey(o)}

\* A stored result is returned without asking a provider and without charge.  The
\* stylist may be asked something new.
CacheLookup(h) ==
    /\ At(h, "CACHE")
    /\ \/ action = "TRY_ON" /\ CachedTryOns(Outfit(h)) = {} /\ Advance(h)
       \/ action = "TRY_ON" /\ CachedTryOns(Outfit(h)) # {} /\ Fail(h)
       \/ action = "STYLIST" /\ Advance(h)
       \/ action = "STYLIST" /\ styled /\ Fail(h)
    /\ UNCHANGED <<quotas, stored, guards>> /\ Env

\* The chat session is created when the client names none; the question is stored.
Ask(h) ==
    /\ At(h, "ASK")
    /\ open' = TRUE
    /\ Advance(h)
    /\ UNCHANGED <<quotas, tryOns, styled, guards>> /\ Env

ProviderAnswers(h) ==
    /\ At(h, "PROVIDER")
    /\ Advance(h)
    /\ UNCHANGED <<quotas, stored, guards>> /\ Env

Unanswered(h) == At(h, "PROVIDER") /\ Fail(h) /\ UNCHANGED <<quotas, stored, guards>> /\ Env

\* The photograph is not usable; a prediction fails or does not end in time; both
\* attempts fail or the repaired advice is unusable; the stream breaks off.
PhotoRefused(h)    == job[h].kind = "TRY_ON" /\ Unanswered(h)
PredictionFails(h) == job[h].kind = "TRY_ON" /\ Unanswered(h)
AdviceUnusable(h)  == job[h].kind = "STYLIST" /\ Unanswered(h)
StreamBreaks(h)    == action = "CHATBOT" /\ Unanswered(h)

\* An answer whose chat session was deleted meanwhile cannot be stored.
Save(h) ==
    /\ At(h, "SAVE")
    /\ IF action = "CHATBOT" /\ ~open
       THEN Fail(h) /\ UNCHANGED <<delivered, stored>>
       ELSE /\ Advance(h)
            /\ delivered' = delivered + Count(h)
            /\ tryOns' = IF action = "TRY_ON" THEN Append(tryOns, Outfit(h)) ELSE tryOns
            /\ styled' = (styled \/ action = "STYLIST")
            /\ UNCHANGED open
    /\ UNCHANGED <<counter, memory, usage, pending, guards>> /\ Env

-----------------------------------------------------------------------------
(* History, and what goes wrong *)

Calm == errors + outages + expiries + deletes < MaxFaults

Delete ==
    /\ Calm /\ deletes' = deletes + 1
    /\ \/ tryOns # <<>> /\ tryOns' = <<>> /\ UNCHANGED <<styled, open>>
       \/ \E i \in DOMAIN tryOns : tryOns' = RemoveAt(tryOns, i) /\ UNCHANGED <<styled, open>>
       \/ styled /\ styled' = FALSE /\ UNCHANGED <<tryOns, open>>
       \/ open /\ open' = FALSE /\ UNCHANGED <<tryOns, styled>>
    /\ UNCHANGED <<quotas, guards, job, action, up, errors, outages, expiries>>

\* A lock outlives its time to live, or goes with the restart of whoever keeps it.  The
\* bound leaves room for one that was kept by the process, after an outage.
Expire(k) ==
    /\ errors + expiries + deletes < MaxFaults /\ expiries' = expiries + 1
    /\ \/ k \in locks /\ locks' = locks \ {k} /\ UNCHANGED memLocks
       \/ k \in memLocks /\ memLocks' = memLocks \ {k} /\ UNCHANGED locks
    /\ UNCHANGED <<quotas, stored, job, action, up, errors, outages, deletes>>

Disconnect ==
    /\ up /\ Calm /\ outages' = outages + 1
    /\ up' = FALSE
    /\ UNCHANGED <<quotas, stored, guards, job, action, errors, expiries, deletes>>

Reconnect ==
    /\ ~up /\ up' = TRUE
    /\ UNCHANGED <<quotas, stored, guards, job, action, errors, outages, expiries, deletes>>

\* The request dies, or an upsert nobody waits for fails.
Crash(h) ==
    /\ Calm /\ errors' = errors + 1
    /\ Active(h) /\ Go(h, NoJob)
    /\ UNCHANGED <<quotas, stored, guards, action, up, outages, expiries, deletes>>

LoseUpsert ==
    /\ Calm /\ errors' = errors + 1
    /\ pending > 0 /\ pending' = 0
    /\ UNCHANGED <<counter, memory, usage, delivered, stored, guards, job, action, up, outages,
                   expiries, deletes>>

Step(h) ==
    \/ FreshRequest(h) \/ acquireLock(h) \/ releaseLock(h)
    \/ AssertGet(h) \/ AssertLoad(h) \/ AssertStore(h) \/ consumeQuota(h)
    \/ CacheLookup(h) \/ Ask(h) \/ ProviderAnswers(h) \/ Save(h)
    \/ PhotoRefused(h) \/ PredictionFails(h) \/ AdviceUnusable(h) \/ StreamBreaks(h)

Next ==
    \/ \E h \in Handlers : Step(h) \/ Crash(h)
    \/ SyncUsage \/ LoseUpsert
    \/ \E k \in locks \cup memLocks : Expire(k)
    \/ Delete \/ Disconnect \/ Reconnect

Spec == Init /\ [][Next]_vars

-----------------------------------------------------------------------------
(* Properties *)

MaxCount == IF action = "TRY_ON"
            THEN Max({1} \cup {Cardinality(DOMAIN o) : o \in Wearable}) ELSE 1
OverrunIsBounded ==
    LET n == Cardinality(Handlers) IN
    delivered <= (n * Limit[action] + ((n * (n - 1)) \div 2) * MaxCount) * (1 + outages)
                 + errors * MaxCount
NothingElseIsCharged == counter <= delivered /\ memory <= delivered /\ usage + pending <= delivered

\* Requests that run at once may pass the check on one reading of the counter, and one
\* that loaded the count of the day before the others sets the counter back when it stores
\* it.  But each request in flight does so once, so the error does not grow with the
\* number of requests: a user gets at most his limit for each of the n requests that may be
\* in flight at one moment, each time exceeded by those that passed the check together (none,
\* one, ..., n - 1: fewer still hold a count of before); the same once more per outage of
\* Redis (the process then counts in its own memory), and what a request that died did not
\* charge.  And
\* "a failing request or a cache hit is not charged" (quota.guard.ts): counters and table
\* never say more than what the user was given.
QuotaFollowsResults == OverrunIsBounded /\ NothingElseIsCharged

\* A picture is bought once: of the same garments in the same order there is one result,
\* and one more for each lock that expired under a running request and for Redis lost in
\* the middle of one.
Bought(o) == {i \in DOMAIN tryOns : Pictures(tryOns[i]) = Pictures(o)
                                    /\ CacheKey(tryOns[i]) = CacheKey(o)}
BoughtOnce == \A o \in Outfits : Cardinality(Bought(o)) <= 1 + expiries + outages

=============================================================================
