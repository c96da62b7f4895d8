------------------------------- MODULE Sessions -------------------------------
(***************************************************************************)
(* The sessions of one user: refresh tokens that are exchanged once for a  *)
(* new one, the minute of grace in which a repeated exchange is answered,  *)
(* and the revocation of all of them (log out everywhere, a password       *)
(* changed or reset).  Token n is the n-th one issued; its access token    *)
(* has the same number.                                                    *)
(*                                                                         *)
(* The keys of Redis used here all live REFRESH_REUSE_GRACE_SECONDS, so    *)
(* they expire in the order they were set: `keys` is that order, and a     *)
(* tick of the clock is the end of its first key.                          *)
(***************************************************************************)
EXTENDS Naturals, Sequences, SequencesExt

CONSTANTS
    Handlers,          \* requests at one time
    MaxTokens,         \* bound: tokens issued
    MaxRevocations,    \* bound: revocations
    MaxFaults          \* bound: requests that die, tokens that expire, Redis lost or back

Tokens == 1..MaxTokens
Block  == 0            \* refresh:grace-block of the user; token n stands for its refresh:grace

VARIABLES
    issued,            \* tokens issued so far
    rows,              \* refresh_tokens
    expired,           \* past their expiry
    keys, hidden,      \* keys of Redis, or of the process while Redis is away; the others
    blacklist,         \* access tokens taken back
    codes,             \* auth_code of the Google login: token it stands for
    job,
    revocations, faults,
    ended,             \* history: tokens whose refusal has a reason
    late,              \* history: tokens exchanged during a revocation
    revoked            \* history: tokens revoked while none of their exchanges was under way

vars == <<issued, rows, expired, keys, hidden, blacklist, codes, job, revocations, faults,
          ended, late, revoked>>

MarkLate     == <<"DELETE", "MARK", "ISSUE">>
ConsumeSteps == <<"MARK", "DELETE", "ISSUE">>
NeverBlocked == <<"DELETE_ALL", "BLACKLIST">>
RevokeSteps  == <<"BLOCK", "DELETE_ALL", "BLACKLIST">>

NoJob == [todo |-> <<>>, token |-> 0]

Init ==
    /\ issued = 0 /\ rows = {} /\ expired = {}
    /\ keys = <<>> /\ hidden = <<>>
    /\ blacklist = {} /\ codes = {}
    /\ job = [h \in Handlers |-> NoJob]
    /\ revocations = 0 /\ faults = 0
    /\ ended = {} /\ late = {} /\ revoked = {}

tables  == <<issued, rows, expired>>
redis   == <<keys, hidden, blacklist, codes>>
history == <<ended, late, revoked>>
bounds  == <<revocations, faults>>

Issued == 1..issued
At(h, s) == job[h].todo # <<>> /\ Head(job[h].todo) = s
Set(h, todo, t) == job' = [job EXCEPT ![h] = [todo |-> todo, token |-> t]]
Done(h)  == job' = [job EXCEPT ![h] = NoJob]
Next1(h) == IF Len(job[h].todo) = 1 THEN Done(h)
            ELSE job' = [job EXCEPT ![h].todo = Tail(@)]
Start(h, todo, t) == job[h] = NoJob /\ Set(h, todo, t)
Refreshing(t) == \E h \in Handlers : job[h].token = t /\ job[h].todo # <<>>
                    /\ Last(job[h].todo) = "ISSUE"

verifyRefreshJwt(t) == t \in Issued \ expired

\* The guard of a route lets through an access token that was not taken back.
validate(t) == t \in Issued \ blacklist

Holds(k) == k \in ToSet(keys)
\* A key that is set again lives its minute anew.
SetKey(k) == IF Holds(k)
             THEN \E i \in DOMAIN keys : keys[i] = k /\ keys' = Append(RemoveAt(keys, i), k)
             ELSE keys' = Append(keys, k)
Revoking == \E h \in Handlers : "DELETE_ALL" \in ToSet(job[h].todo)

-----------------------------------------------------------------------------
(* login, handleGoogleLogin, exchange *)

\* The password is right and the e-mail verified.
Login(h) ==
    /\ Start(h, <<"ISSUE">>, 0)
    /\ UNCHANGED <<tables, redis, history, bounds>>

GoogleLogin(h) ==
    /\ Start(h, <<"ISSUE", "CODE">>, 0)
    /\ UNCHANGED <<tables, redis, history, bounds>>

Issue(h) ==
    /\ At(h, "ISSUE") /\ issued < MaxTokens
    /\ issued' = issued + 1
    /\ rows' = rows \cup {issued'}
    /\ IF Len(job[h].todo) = 1 THEN Done(h) ELSE Set(h, Tail(job[h].todo), issued')
    /\ UNCHANGED <<expired, redis, history, bounds>>

\* The page the browser is sent back to is given a code that stands for the tokens.
CreateCode(h) ==
    /\ At(h, "CODE")
    /\ codes' = codes \cup {job[h].token}
    /\ Next1(h)
    /\ UNCHANGED <<tables, keys, hidden, blacklist, history, bounds>>

ReadCode(h, t) ==
    /\ t \in codes
    /\ Start(h, <<"DROP_CODE">>, t)
    /\ UNCHANGED <<tables, redis, history, bounds>>

DropCode(h) ==
    /\ At(h, "DROP_CODE")
    /\ codes' = codes \ {job[h].token}
    /\ Next1(h)
    /\ UNCHANGED <<tables, keys, hidden, blacklist, history, bounds>>

-----------------------------------------------------------------------------
(* refresh: consumeRefreshToken, then issueAuthResponse *)

refresh(h, t) ==
    /\ verifyRefreshJwt(t)
    /\ Start(h, IF t \in rows THEN ConsumeSteps ELSE <<"GRACE", "UNBLOCKED", "ISSUE">>, t)
    /\ UNCHANGED <<tables, redis, history, bounds>>

Mark(h) ==
    /\ At(h, "MARK")
    /\ SetKey(job[h].token)
    /\ late' = IF Revoking THEN late \cup {job[h].token} ELSE late
    /\ Next1(h)
    /\ UNCHANGED <<tables, hidden, blacklist, codes, ended, revoked, bounds>>

Delete(h) ==
    /\ At(h, "DELETE")
    /\ rows' = rows \ {job[h].token}
    /\ Next1(h)
    /\ UNCHANGED <<issued, expired, redis, history, bounds>>

\* isInReuseGrace reads one key, then the other.
Spared(h) == IF At(h, "GRACE") THEN Holds(job[h].token) ELSE ~Holds(Block)

InReuseGrace(h) ==
    /\ At(h, "GRACE") \/ At(h, "UNBLOCKED")
    /\ Spared(h) /\ Next1(h)
    /\ UNCHANGED <<tables, redis, history, bounds>>

Refuse(h) ==
    /\ At(h, "GRACE") \/ At(h, "UNBLOCKED")
    /\ ~Spared(h) /\ Done(h)
    /\ UNCHANGED <<tables, redis, history, bounds>>

-----------------------------------------------------------------------------
(* logout, logoutAll, changePassword, resetPassword *)

Logout(h, t) ==
    /\ t \in Issued
    /\ Start(h, <<"BLACKLIST">>, t)
    /\ rows' = rows \ {t} /\ ended' = ended \cup {t}
    /\ UNCHANGED <<issued, expired, redis, late, revoked, bounds>>

Revoke(h, t) ==
    /\ revocations < MaxRevocations /\ revocations' = revocations + 1
    /\ validate(t)
    /\ Start(h, RevokeSteps, t)
    /\ UNCHANGED <<tables, redis, history, faults>>

\* A password reset has no access token to take back.
ResetPassword(h) ==
    /\ revocations < MaxRevocations /\ revocations' = revocations + 1
    /\ Start(h, SubSeq(RevokeSteps, 1, Len(RevokeSteps) - 1), 0)
    /\ UNCHANGED <<tables, redis, history, faults>>

SetBlock(h) ==
    /\ At(h, "BLOCK")
    /\ SetKey(Block)
    /\ ended' = ended \cup Issued
    /\ Next1(h)
    /\ UNCHANGED <<tables, hidden, blacklist, codes, late, revoked, bounds>>

DeleteAll(h) ==
    /\ At(h, "DELETE_ALL")
    /\ rows' = {}
    /\ ended' = ended \cup Issued
    /\ revoked' = revoked \cup {t \in Issued \ late : ~Refreshing(t)}
    /\ Next1(h)
    /\ UNCHANGED <<issued, expired, redis, late, bounds>>

blacklistAccessToken(h) ==
    /\ At(h, "BLACKLIST")
    /\ blacklist' = blacklist \cup {job[h].token}
    /\ Next1(h)
    /\ UNCHANGED <<tables, keys, hidden, codes, history, bounds>>

-----------------------------------------------------------------------------
(* Time and faults *)

KeyExpires ==
    /\ keys # <<>> /\ keys' = Tail(keys)
    /\ ended' = ended \cup {Head(keys)}
    /\ UNCHANGED <<tables, hidden, blacklist, codes, job, late, revoked, bounds>>

Fault == faults < MaxFaults /\ faults' = faults + 1 /\ UNCHANGED revocations

TokenExpires(t) ==
    /\ Fault /\ t \in Issued \ expired
    /\ expired' = expired \cup {t} /\ ended' = ended \cup {t}
    /\ UNCHANGED <<issued, rows, redis, job, late, revoked>>

cleanExpiredTokens ==
    /\ rows \cap expired # {}
    /\ rows' = rows \ expired
    /\ UNCHANGED <<issued, expired, redis, job, history, bounds>>

\* Redis goes or comes back, and with it the keys set there.
Switch ==
    /\ Fault
    /\ keys' = hidden /\ hidden' = keys
    /\ ended' = ended \cup ToSet(keys)
    /\ UNCHANGED <<tables, blacklist, codes, job, late, revoked>>

Crash(h) ==
    /\ Fault
    /\ job[h] # NoJob /\ Done(h)
    /\ UNCHANGED <<tables, redis, history>>

Step(h) ==
    \/ Login(h) \/ GoogleLogin(h) \/ Issue(h) \/ CreateCode(h) \/ DropCode(h)
    \/ Mark(h) \/ Delete(h) \/ InReuseGrace(h) \/ Refuse(h)
    \/ ResetPassword(h) \/ SetBlock(h) \/ DeleteAll(h) \/ blacklistAccessToken(h)
    \/ \E t \in Tokens : refresh(h, t) \/ ReadCode(h, t) \/ Logout(h, t) \/ Revoke(h, t)

Next ==
    \/ \E h \in Handlers : Step(h) \/ Crash(h)
    \/ KeyExpires \/ cleanExpiredTokens \/ Switch
    \/ \E t \in Tokens : TokenExpires(t)

Spec == Init /\ [][Next]_vars

-----------------------------------------------------------------------------
(* Properties *)

RetryServed ==
    \A h \in Handlers :
        At(h, "GRACE") /\ job'[h] = NoJob /\ faults' = faults => job[h].token \in ended

\* A refresh that is sent again because its answer was lost, or that runs beside
\* another one of the same token, is answered for a minute ("write the grace before
\* deleting, so that a request that comes after the deletion still sees it",
\* token.service.ts): it is refused only when the token was logged out, revoked or
\* expired, its minute is over, Redis went, or a revocation is less than a minute old.
RetryIsServed == [][RetryServed]_vars

\* Once everything is revoked no token of before opens a session again: its row is gone,
\* and while the grace of one rotated a moment earlier still runs the block stands ("a
\* token just rotated cannot be used again either", token.service.ts).  Exchanges that
\* overlap with the revocation are left out, and histories with a fault: an outage of Redis,
\* a request that died, or a token that expired.
RevokedStaysOut ==
    faults = 0 => /\ revoked \cap rows = {}
                  /\ \A t \in revoked : Holds(t) => Holds(Block)
===============================================================================
