------------------------------- MODULE OrderChat -------------------------------
(***************************************************************************)
(* The conversation about one order between its customer and the shop.     *)
(* Each side has a counter of the messages it has not read, kept beside    *)
(* the messages themselves: sending adds to it in the message's own        *)
(* transaction, reading counts the messages, marks them and subtracts in   *)
(* three statements.  A message is dated when its transaction begins.      *)
(***************************************************************************)
EXTENDS Naturals, Sequences, FiniteSets

CONSTANTS
    Handlers,          \* requests at one time
    ClientIds,         \* ids clients give their messages, to send them again
    MaxMessages,       \* bound: messages
    MAX_MESSAGES_PER_MINUTE,
    MaxCrashes         \* bound: requests that die

Roles == {"CUSTOMER", "ADMIN"}
Other(r) == IF r = "CUSTOMER" THEN "ADMIN" ELSE "CUSTOMER"

VARIABLES
    closed,            \* the order is cancelled or returned, and its refund confirmed
    messages,          \* order_chat_messages in the order of their dates
    unread,            \* customer_unread_count, admin_unread_count
    sent,              \* messages of the running minute
    job,
    faults,            \* requests that died
    blurred,           \* history: sides whose reading overlapped with another, or with a
                       \* message dated before it and not there yet
    forgotten          \* history: messages marked by a reading that died before it subtracted

vars == <<closed, messages, unread, sent, job, faults, blurred, forgotten>>
histories == <<faults, blurred, forgotten>>

NoJob == [at |-> "IDLE", role |-> "CUSTOMER", client |-> "NONE", message |-> 0, upTo |-> 0,
          count |-> 0]

Init ==
    /\ closed = FALSE /\ messages = <<>>
    /\ unread = [r \in Roles |-> 0] /\ sent = 0
    /\ job = [h \in Handlers |-> NoJob]
    /\ faults = 0 /\ blurred = {} /\ forgotten = [r \in Roles |-> 0]

At(h, s) == job[h].at = s
Done(h)  == job' = [job EXCEPT ![h] = NoJob]
Numbers  == DOMAIN messages

-----------------------------------------------------------------------------
(* sendMessage *)

isChatLocked == closed

\* Refused when the conversation is closed or the minute has had its messages; the
\* transaction begins.
Begin(h, role, client) ==
    /\ job[h] = NoJob /\ ~isChatLocked
    /\ sent < MAX_MESSAGES_PER_MINUTE /\ sent' = sent + 1
    /\ Len(messages) < MaxMessages
    /\ messages' = Append(messages, [from |-> role, client |-> client, there |-> FALSE,
                                     read |-> FALSE])
    /\ job' = [job EXCEPT ![h] = [NoJob EXCEPT !.at = "SEND", !.role = role, !.client = client,
                                              !.message = Len(messages')]]
    /\ UNCHANGED <<closed, unread, histories>>

\* The client's id is found, or the unique index refuses the second of two at once.
Duplicate(j) == \E n \in Numbers : messages[n].there /\ messages[n].client = j.client

Send(h) ==
    LET j == job[h] IN
    /\ At(h, "SEND") /\ ~Duplicate(j)
    /\ messages' = [messages EXCEPT ![j.message].there = TRUE]
    /\ unread' = [unread EXCEPT ![Other(j.role)] = @ + 1]
    /\ Done(h)
    /\ UNCHANGED <<closed, sent, histories>>

SendAgain(h) ==
    /\ At(h, "SEND") /\ Duplicate(job[h])
    /\ Done(h)
    /\ UNCHANGED <<closed, messages, unread, sent, histories>>

-----------------------------------------------------------------------------
(* markRead: what the other side wrote, up to a message or to now *)

EveryUnread(role, last) ==
    {n \in Numbers : messages[n].from = Other(role) /\ messages[n].there /\ ~messages[n].read}

Unread(role, last) ==
    {n \in Numbers : /\ messages[n].from = Other(role) /\ messages[n].there
                     /\ ~messages[n].read /\ n <= last}

Reading(role) == \E h \in Handlers : job[h].at \in {"MARK", "SUBTRACT"} /\ job[h].role = role

Count(h, role, last) ==
    /\ job[h] = NoJob
    /\ LET count == Cardinality(Unread(role, last))
       IN /\ count > 0
          /\ job' = [job EXCEPT ![h] = [NoJob EXCEPT !.at = "MARK", !.role = role,
                                                    !.upTo = last, !.count = count]]
    /\ blurred' = IF Reading(role) \/ \E g \in Handlers : At(g, "SEND") /\ job[g].message <= last
                                                          /\ job[g].role = Other(role)
                  THEN blurred \cup {role} ELSE blurred
    /\ UNCHANGED <<closed, messages, unread, sent, faults, forgotten>>

Mark(h) ==
    /\ At(h, "MARK")
    /\ LET marked == Unread(job[h].role, job[h].upTo)
       IN messages' = [n \in Numbers |-> IF n \in marked THEN [messages[n] EXCEPT !.read = TRUE]
                                         ELSE messages[n]]
    /\ job' = [job EXCEPT ![h].at = "SUBTRACT"]
    /\ UNCHANGED <<closed, unread, sent, histories>>

Subtract(h) ==
    /\ At(h, "SUBTRACT")
    /\ unread' = [unread EXCEPT ![job[h].role] =
                     IF @ > job[h].count THEN @ - job[h].count ELSE 0]
    /\ Done(h)
    /\ UNCHANGED <<closed, messages, sent, histories>>

\* The server stops, or a statement fails: the message of a sending is rolled back with its
\* transaction; what a reading has marked stays marked, and nothing subtracts it any more.
Crash(h) ==
    /\ job[h] # NoJob
    /\ faults < MaxCrashes /\ faults' = faults + 1
    /\ forgotten' = IF At(h, "SUBTRACT") THEN [forgotten EXCEPT ![job[h].role] = @ + job[h].count]
                    ELSE forgotten
    /\ Done(h)
    /\ UNCHANGED <<closed, messages, unread, sent, blurred>>

-----------------------------------------------------------------------------

\* The customer confirms the refund, or the shop owes another one.
Close ==
    /\ closed' = ~closed
    /\ UNCHANGED <<messages, unread, sent, job, histories>>

Minute ==
    /\ sent > 0 /\ sent' = 0
    /\ UNCHANGED <<closed, messages, unread, job, histories>>

Next ==
    \/ \E h \in Handlers :
          \/ Send(h) \/ SendAgain(h) \/ Mark(h) \/ Subtract(h) \/ Crash(h)
          \/ \E r \in Roles : \/ \E c \in ClientIds : Begin(h, r, c)
                              \/ \E last \in Numbers : Count(h, r, last)
    \/ Close \/ Minute

Spec == Init /\ [][Next]_vars

-----------------------------------------------------------------------------
(* Properties *)

\* The counter of a side is the number of messages it has not read, also when messages
\* arrive between the three statements of markRead: those are dated after what is read
\* (order-chat.service.ts:300).  A reading that dies after it marked its messages and
\* before it subtracted them (order-chat.service.ts:305-321) leaves the counter ahead by
\* that many.  Left out is a side that reads on two devices at once, both of which
\* subtract, and a message dated before the reading that commits between its count and its
\* mark, which is read without being subtracted.
UnreadIsCounted ==
    \A r \in Roles \ blurred :
        ~Reading(r) => unread[r] = Cardinality(Unread(r, Len(messages))) + forgotten[r]
===============================================================================
