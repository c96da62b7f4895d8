-------------------------------- MODULE Accounts --------------------------------
(***************************************************************************)
(* The account behind one e-mail address: registration, the code that      *)
(* verifies the address, a Google login, the reset of a forgotten          *)
(* password; and the roles administrators give each other.  What becomes   *)
(* of the sessions is the subject of Sessions.                             *)
(***************************************************************************)
EXTENDS Naturals, FiniteSets

CONSTANTS
    Handlers,              \* requests at one time
    Admins,                \* users with the role ADMIN at first
    OTP_MAX_ATTEMPTS,
    MaxCodes, MaxResets,   \* bounds: codes mailed, reset tokens issued
    MaxCrashes             \* bound: requests that die

VARIABLES
    account,               \* NONE, UNVERIFIED, VERIFIED
    otp, attempts,         \* the code stored in Redis, 0: none; guesses counted
    cooling,               \* no code is sent again for a minute
    sent,                  \* codes are numbered as they are made
    due, guesses,          \* history: the code the user was mailed last, guesses at it
    tokens, issued,        \* password_reset_tokens; how many were issued
    applied,               \* history: how often a token set the password
    spared,                \* history: how often such a request died with the token undeleted
    admins,
    job, faults,           \* requests; how many died
    confused,              \* history: a code was being made while another request used one
    together               \* history: two requests changed roles, or used a token, at once

vars == <<account, otp, attempts, cooling, sent, due, guesses, tokens, issued, applied, spared,
          admins, job, faults, confused, together>>

NoJob == [at |-> "IDLE", code |-> 0, token |-> 0, user |-> "none"]
Roles == {"ADMIN", "USER"}

Init ==
    /\ account = "NONE"
    /\ otp = 0 /\ attempts = 0 /\ sent = 0 /\ due = 0 /\ guesses = 0
    /\ cooling = FALSE /\ confused = FALSE /\ together = FALSE
    /\ tokens = {} /\ issued = 0
    /\ applied = [t \in 1..MaxResets |-> 0] /\ spared = [t \in 1..MaxResets |-> 0]
    /\ admins = Admins /\ faults = 0
    /\ job = [h \in Handlers |-> NoJob]

codes  == <<otp, attempts, cooling, sent, due, guesses, confused>>
resets == <<tokens, issued, applied, spared>>
At(h, s)  == job[h].at = s
Set(h, j) == job' = [job EXCEPT ![h] = j]
Go(h, s)  == Set(h, [job[h] EXCEPT !.at = s])
Done(h)   == Set(h, NoJob)
Others(h, stages) == \E g \in Handlers \ {h} : job[g].at \in stages
NoCodeDue == due' = 0 /\ guesses' = 0

-----------------------------------------------------------------------------
(* register, handleGoogleLogin: look the address up, then write; it is unique *)

register(h) ==
    /\ job[h] = NoJob /\ account = "NONE" /\ Go(h, "CREATE")
    /\ UNCHANGED <<account, codes, resets, admins, together>>

CreateUser(h) ==
    /\ At(h, "CREATE")
    /\ IF account = "NONE" THEN account' = "UNVERIFIED" /\ Go(h, "SEND")
                           ELSE Done(h) /\ UNCHANGED account
    /\ UNCHANGED <<codes, resets, admins, together>>

\* A user who exists is linked and verified with it.
handleGoogleLogin ==
    /\ account' = "VERIFIED" /\ NoCodeDue
    /\ UNCHANGED <<otp, attempts, cooling, sent, confused, resets, admins, job, together>>

-----------------------------------------------------------------------------
(* sendEmailVerification: four operations of Redis, then the mail *)

Sending   == {"STORE", "RESET", "MAIL"}
Verifying == {"DROP", "READ", "MARK", "CLEAR"}

resendEmailVerification(h) ==
    /\ job[h] = NoJob /\ account # "NONE" /\ Go(h, "SEND")
    /\ UNCHANGED <<account, codes, resets, admins, together>>

CheckCooldown(h) ==
    /\ At(h, "SEND")
    /\ IF cooling \/ account = "VERIFIED" THEN Done(h) ELSE Go(h, "STORE")
    /\ UNCHANGED <<account, codes, resets, admins, together>>

StoreCode(h) ==
    /\ At(h, "STORE") /\ sent < MaxCodes
    /\ sent' = sent + 1 /\ otp' = sent + 1 /\ NoCodeDue
    /\ Set(h, [job[h] EXCEPT !.at = "RESET", !.code = sent + 1])
    /\ confused' = (confused \/ Others(h, Sending \cup Verifying))
    /\ UNCHANGED <<account, attempts, cooling, resets, admins, together>>

KeepAttempts == UNCHANGED attempts
ResetAttempts == attempts' = 0

ForgetAttempts(h) ==
    /\ At(h, "RESET") /\ Go(h, "MAIL")
    /\ ResetAttempts
    /\ UNCHANGED <<account, otp, cooling, sent, due, guesses, confused, resets, admins, together>>

Mail(h) ==
    /\ At(h, "MAIL") /\ Done(h)
    /\ cooling' = TRUE
    /\ due' = (IF account = "UNVERIFIED" THEN job[h].code ELSE 0) /\ guesses' = 0
    /\ UNCHANGED <<account, otp, attempts, sent, confused, resets, admins, together>>

CooldownEnds ==
    /\ cooling /\ cooling' = FALSE
    /\ UNCHANGED <<account, otp, attempts, sent, due, guesses, confused, resets, admins, job,
                   together>>

\* OTP_TTL_SECONDS, longer than the cooldown and than a request; the guesses are
\* forgotten as long after the first of them.
CodeExpires ==
    /\ otp # 0 /\ ~cooling /\ \A h \in Handlers : job[h].at \notin Sending
    /\ otp' = 0 /\ NoCodeDue
    /\ attempts' \in {0, attempts}
    /\ UNCHANGED <<account, cooling, sent, confused, resets, admins, job, together>>

-----------------------------------------------------------------------------
(* verifyEmail: count the guess, compare, mark, clear *)

\* Counted no further than what the limit tells apart.
OneMore(n, limit) == IF n < limit THEN n + 1 ELSE limit

verifyEmail(h, code) ==
    /\ job[h] = NoJob /\ account = "UNVERIFIED"
    /\ attempts' = OneMore(attempts, OTP_MAX_ATTEMPTS + 1)
    /\ guesses' = IF due = 0 THEN guesses ELSE OneMore(guesses, OTP_MAX_ATTEMPTS)
    /\ Set(h, IF attempts' > OTP_MAX_ATTEMPTS THEN [NoJob EXCEPT !.at = "DROP"]
              ELSE [NoJob EXCEPT !.at = "READ", !.code = code])
    /\ confused' = (confused \/ Others(h, Sending))
    /\ UNCHANGED <<account, otp, cooling, sent, due, resets, admins, together>>

DropCode(h) ==
    /\ At(h, "DROP") /\ Done(h)
    /\ otp' = 0
    /\ UNCHANGED <<account, attempts, cooling, sent, due, guesses, confused, resets, admins,
                   together>>

Compare(h) ==
    /\ At(h, "READ")
    /\ IF otp # 0 /\ otp = job[h].code THEN Set(h, [NoJob EXCEPT !.at = "MARK"])
                                       ELSE Done(h)
    /\ UNCHANGED <<account, codes, resets, admins, together>>

MarkVerified(h) ==
    /\ At(h, "MARK") /\ Go(h, "CLEAR")
    /\ account' = "VERIFIED" /\ NoCodeDue
    /\ UNCHANGED <<otp, attempts, cooling, sent, confused, resets, admins, together>>

ClearCode(h) ==
    /\ At(h, "CLEAR") /\ Done(h)
    /\ otp' = 0 /\ attempts' = 0
    /\ UNCHANGED <<account, cooling, sent, due, guesses, confused, resets, admins, together>>

-----------------------------------------------------------------------------
(* forgotPassword, resetPassword *)

forgotPassword ==
    /\ account # "NONE" /\ issued < MaxResets
    /\ issued' = issued + 1 /\ tokens' = tokens \cup {issued + 1}
    /\ UNCHANGED <<account, codes, applied, spared, admins, job, together>>

TokenExpires(t) ==
    /\ t \in tokens /\ tokens' = tokens \ {t}
    /\ UNCHANGED <<account, codes, issued, applied, spared, admins, job, together>>

FindToken(h, t) ==
    /\ job[h] = NoJob /\ t \in tokens
    /\ Set(h, [NoJob EXCEPT !.at = "PASSWORD", !.token = t])
    /\ UNCHANGED <<account, codes, resets, admins, together>>

SetPassword(h) ==
    /\ At(h, "PASSWORD") /\ Go(h, "TOKENS")
    /\ applied' = [applied EXCEPT ![job[h].token] = @ + 1]
    /\ together' = (together \/ Others(h, {"PASSWORD", "TOKENS"}))
    /\ UNCHANGED <<account, codes, tokens, issued, spared, admins>>

\* Every token of the user, not only the one that was used.
AllTokens(t) == tokens

DeleteTokens(h) ==
    /\ At(h, "TOKENS") /\ Done(h)
    /\ tokens' = tokens \ AllTokens(job[h].token)
    /\ together' = (together \/ Others(h, {"PASSWORD"}))
    /\ UNCHANGED <<account, codes, issued, applied, spared, admins>>

-----------------------------------------------------------------------------
(* updateByAdmin: one administrator changes the role of another user *)

NotTheLast == Cardinality(admins) > 1

\* validate and RolesGuard: the role of the actor is read from his row first.  To make
\* somebody an administrator nothing else that is read matters.
RolesGuard(h, actor, u, role) ==
    /\ job[h] = NoJob /\ actor \in admins /\ actor # u
    /\ Set(h, [NoJob EXCEPT !.at = IF role = "USER" THEN "ROLE" ELSE "PROMOTE", !.user = u])
    /\ UNCHANGED <<account, codes, resets, admins, together>>

\* To make somebody a user his row is read, and the administrators are counted if he is one;
\* the actor may be none of them any more.  USER for an account that is no administrator is
\* written without a count.
CheckRole(h) ==
    /\ At(h, "ROLE")
    /\ IF job[h].user \notin admins \/ NotTheLast THEN Go(h, "DEMOTE") ELSE Done(h)
    /\ UNCHANGED <<account, codes, resets, admins, together>>

updateByAdmin(h) ==
    /\ job[h].at \in {"DEMOTE", "PROMOTE"} /\ Done(h)
    /\ admins' = IF At(h, "DEMOTE") THEN admins \ {job[h].user} ELSE admins \cup {job[h].user}
    /\ together' = (together \/ Others(h, {"DEMOTE"}))
    /\ UNCHANGED <<account, codes, resets>>

\* The server stops, or a statement fails, between two of a request's steps.  The minute of
\* cooldown is stored before the mail is queued.
Crash(h) ==
    /\ job[h] # NoJob
    /\ faults < MaxCrashes /\ faults' = faults + 1
    /\ cooling' \in {cooling, cooling \/ At(h, "MAIL")}
    /\ spared' = IF At(h, "TOKENS") THEN [spared EXCEPT ![job[h].token] = @ + 1] ELSE spared
    /\ Done(h)
    /\ UNCHANGED <<account, otp, attempts, sent, due, guesses, confused, tokens, issued, applied,
                   admins, together>>

Next ==
    \/ \E h \in Handlers : Crash(h)
    \/ /\ UNCHANGED faults
       /\ \/ \E h \in Handlers :
                \/ register(h) \/ CreateUser(h) \/ resendEmailVerification(h) \/ CheckCooldown(h)
                \/ StoreCode(h) \/ ForgetAttempts(h) \/ Mail(h)
                \/ \E code \in 1..sent : verifyEmail(h, code)
                \/ DropCode(h) \/ Compare(h) \/ MarkVerified(h) \/ ClearCode(h)
                \/ \E t \in tokens : FindToken(h, t)
                \/ SetPassword(h) \/ DeleteTokens(h)
                \/ \E actor, u \in Admins, role \in Roles : RolesGuard(h, actor, u, role)
                \/ CheckRole(h) \/ updateByAdmin(h)
          \/ handleGoogleLogin \/ CooldownEnds \/ CodeExpires \/ forgotPassword
          \/ \E t \in tokens : TokenExpires(t)

Spec == Init /\ [][Next]_vars

-----------------------------------------------------------------------------
(* Properties *)

MailedCodeWorks ==
    due # 0 /\ guesses < OTP_MAX_ATTEMPTS /\ ~confused => otp = due /\ attempts <= guesses
AdminRemains == ~together => admins # {}
ResetOnce == ~together => \A t \in 1..issued : applied[t] <= 1 + spared[t]

\* Nobody is locked out, and no link is worth more than one visit: the code that was
\* mailed last works for OTP_MAX_ATTEMPTS guesses until it expires, however many were
\* made at the codes before it, unless it was being made while another request used a code
\* (that request may delete it, auth.service.ts:249); somebody can always administer the
\* shop, and a reset link sets the password once, unless two requests ran at one time
\* (checked before they are written, users.service.ts:175, auth.service.ts:178).  A link
\* works once more for every request that died between the password and the deletion of
\* the tokens (auth.service.ts:187-194).
NobodyLockedOut == MailedCodeWorks /\ AdminRemains /\ ResetOnce
===============================================================================
