--------------------------------- MODULE Outbox ---------------------------------
(***************************************************************************)
(* Work that is done after the answer: the event of a payment (a row of    *)
(* outbox_events and a job of the outbox queue), a mail with a code that   *)
(* expires, and a mail about the state of an order, which may be asked for *)
(* again.  BullMQ keeps one job per job id and tries it several times.     *)
(* The three share nothing; `kind` says which one is looked at.            *)
(***************************************************************************)
EXTENDS Naturals

CONSTANTS
    OutboxAttempts, MailAttempts,   \* attempts of a job
    MaxAsks,                        \* bound: requests for the same mail
    MaxFaults                       \* bound: what goes wrong outside the attempts

Kinds == {"PURCHASE", "CODE", "STATUS"}

VARIABLES
    kind,          \* what the job does
    enabled,       \* of an event: tracking is on, the provider not excluded, the order
                   \* there; of a mail: BREVO_API_KEY is set
    malformed,     \* isValidJob refuses the mail: no address, or one of another version
    row,           \* outbox_events.status, NONE before it exists
    attemptCount,  \* outbox_events.attempt_count
    job,           \* the job: ABSENT, WAITING, ACTIVE, MARK, CATCH, DONE, FAILED
    made, stalls,  \* attempts made; how often its worker died
    late,          \* the code of the mail has expired
    sent,          \* deliveries by the mail server or the analytics service
    asked,         \* how often the job was asked for and accepted
    failed,        \* history: failed attempts before the job went
    faults

vars == <<kind, enabled, malformed, row, attemptCount, job, made, stalls, late, sent, asked, failed,
          faults>>

Init ==
    /\ kind \in Kinds /\ enabled \in BOOLEAN
    /\ malformed \in BOOLEAN /\ (kind = "PURCHASE" => ~malformed)
    /\ row = "NONE" /\ attemptCount = 0
    /\ job = "ABSENT" /\ made = 0 /\ stalls = 0
    /\ late = FALSE
    /\ sent = 0 /\ asked = 0 /\ failed = 0 /\ faults = 0

Fault    == faults < MaxFaults /\ faults' = faults + 1
Attempts == IF kind = "PURCHASE" THEN OutboxAttempts ELSE MailAttempts
counts   == <<attemptCount, made, stalls, sent, asked, failed>>
setting  == <<kind, enabled, malformed>>

-----------------------------------------------------------------------------
(* enqueueEvent writes the row, then adds the job; enqueue of the mail queue only adds *)

CreateRow ==
    /\ kind = "PURCHASE" /\ row = "NONE" /\ row' = "PENDING"
    /\ UNCHANGED <<setting, counts, job, late, faults>>

MayAsk ==
    CASE kind = "PURCHASE" -> row = "PENDING" /\ asked = 0 /\ job = "ABSENT"
      [] kind = "CODE"     -> asked = 0
      [] kind = "STATUS"   -> asked < MaxAsks

\* A job id that is still known is not added again.
Add ==
    /\ MayAsk /\ asked' = asked + 1
    /\ IF job \in {"ABSENT", "DONE"}
       THEN job' = "WAITING" /\ made' = 0 /\ stalls' = 0 /\ failed' = 0
       ELSE UNCHANGED <<job, made, stalls, failed>>
    /\ UNCHANGED <<setting, row, attemptCount, late, sent, faults>>

\* The process dies, or Redis is away: the row stays PENDING, and nothing adds the job.
NotAdded ==
    /\ kind = "PURCHASE" /\ MayAsk /\ Fault
    /\ job' = "DONE"
    /\ UNCHANGED <<setting, counts, row, late>>

-----------------------------------------------------------------------------
(* process of OutboxProcessor and MailProcessor *)

Take ==
    /\ job = "WAITING" /\ job' = "ACTIVE"
    /\ UNCHANGED <<setting, counts, row, late, faults>>

\* trackPurchase and sendMail return quietly when there is nothing to track, or no key.
Skipped == ~enabled
Expired == kind = "CODE" /\ late

\* job.discard: a mail that is not valid is not tried again, and one with an old code is done.
Refuse ==
    /\ job = "ACTIVE" /\ malformed /\ job' = "FAILED"
    /\ made' = made + 1 /\ failed' = failed + 1
    /\ UNCHANGED <<setting, row, attemptCount, stalls, sent, asked, late, faults>>

Discard ==
    /\ job = "ACTIVE" /\ ~malformed /\ Expired /\ job' = "DONE"
    /\ UNCHANGED <<setting, counts, row, late, faults>>

Handled == job = "ACTIVE" /\ ~malformed /\ ~Expired
AfterHandling == IF kind = "PURCHASE" THEN "MARK" ELSE "DONE"

Handle ==
    /\ Handled
    /\ sent' = IF Skipped THEN sent ELSE sent + 1
    /\ job' = AfterHandling
    /\ UNCHANGED <<setting, row, attemptCount, made, stalls, asked, failed, late, faults>>

\* The call fails or its answer is lost, or what comes before it fails: reading the order,
\* writing the mail.
HandleFails(delivered) ==
    /\ Handled /\ (delivered => ~Skipped)
    /\ sent' = IF delivered THEN sent + 1 ELSE sent
    /\ job' = "CATCH"
    /\ UNCHANGED <<setting, row, attemptCount, made, stalls, asked, failed, late, faults>>

Mark ==
    /\ job = "MARK" /\ job' = "DONE" /\ row' = "PROCESSED"
    /\ UNCHANGED <<setting, counts, late, faults>>

MarkFails ==
    /\ job = "MARK" /\ Fault /\ job' = "CATCH"
    /\ UNCHANGED <<setting, counts, row, late>>

\* The error is written to the row and thrown again, so that the queue tries again.
Swallowed == "DONE"
Rethrown  == IF made + 1 >= Attempts THEN "FAILED" ELSE "WAITING"

Catch ==
    /\ job = "CATCH"
    /\ made' = made + 1 /\ failed' = failed + 1
    /\ job' = Rethrown
    /\ IF kind = "PURCHASE" THEN row' = "FAILED_RETRYABLE" /\ attemptCount' = attemptCount + 1
                            ELSE UNCHANGED <<row, attemptCount>>
    /\ UNCHANGED <<setting, stalls, sent, asked, late, faults>>

\* The error cannot be written either: what is thrown is that.
CatchFails ==
    /\ job = "CATCH" /\ kind = "PURCHASE" /\ Fault
    /\ made' = made + 1 /\ failed' = failed + 1
    /\ job' = Rethrown
    /\ UNCHANGED <<setting, row, attemptCount, stalls, sent, asked, late>>

\* A job whose worker died is given to another one, once.
WorkerDies ==
    /\ job \in {"ACTIVE", "MARK", "CATCH"} /\ Fault
    /\ stalls' = stalls + 1
    /\ job' = IF stalls = 1 THEN "FAILED" ELSE "WAITING"
    /\ UNCHANGED <<setting, row, attemptCount, made, sent, asked, failed, late>>

\* The row said PROCESSED and the worker died before the queue knew.
DiesAfterMark ==
    /\ job = "MARK" /\ Fault
    /\ row' = "PROCESSED" /\ stalls' = stalls + 1
    /\ job' = IF stalls = 1 THEN "FAILED" ELSE "WAITING"
    /\ UNCHANGED <<setting, attemptCount, made, sent, asked, failed, late>>

\* removeOnFail: a failed job is forgotten after a day.
Forget ==
    /\ job = "FAILED" /\ job' = "ABSENT"
    /\ UNCHANGED <<setting, counts, row, late, faults>>

CodeExpires ==
    /\ ~late /\ kind = "CODE" /\ late' = TRUE
    /\ UNCHANGED <<setting, counts, row, job, faults>>

Next ==
    \/ CreateRow \/ Add \/ NotAdded \/ Take \/ Refuse \/ Discard \/ Handle
    \/ \E delivered \in BOOLEAN : HandleFails(delivered)
    \/ Mark \/ MarkFails \/ Catch \/ CatchFails \/ WorkerDies \/ DiesAfterMark
    \/ Forget \/ CodeExpires

Spec == Init /\ [][Next]_vars

-----------------------------------------------------------------------------
(* Properties *)

\* What was accepted is done: the event of a payment is recorded as PROCESSED only after
\* the purchase was reported, if it is to be, and a job that nothing was ever delivered for
\* is still in the queue, or all its attempts failed, or its worker died twice, or its code
\* expired, or it was refused as malformed, or nothing is ever sent here: without
\* BREVO_API_KEY a mail is done quietly (mail.service.ts:95).
AcceptedIsDone ==
    /\ row = "PROCESSED" /\ enabled => sent > 0
    /\ asked > 0 /\ sent = 0 /\ job \in {"DONE", "FAILED", "ABSENT"}
         => \/ failed >= Attempts \/ stalls >= 2 \/ Expired
            \/ malformed /\ failed > 0
            \/ Skipped
===============================================================================
