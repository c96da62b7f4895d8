--------------------------------- MODULE Notices ---------------------------------
(***************************************************************************)
(* How a notification reaches a user: the row, the socket that is in the   *)
(* user's room as long as its token is valid, and the push messages to the *)
(* devices that are registered for the user.  Time moves in steps, and a   *)
(* timer goes off before time moves on.                                    *)
(***************************************************************************)
EXTENDS Naturals, FiniteSets

CONSTANTS
    Handlers,          \* pushes under way at one time
    Users, Devices,
    MaxTime,           \* bound
    MaxNotes           \* bound: notifications

None == "none"

VARIABLES
    now,
    socket,            \* whose the socket is, and until when its token is valid
    timers,            \* expiryKickTimer: when the timers that run go off
    renewals,          \* auth:refresh under way: the expiry of the new token
    revived,           \* history: a renewal ended after the socket was gone
    owner,             \* device_tokens: the user of each device
    created, unread,   \* notifications so far; unread ones, by user and number
    push,              \* pushes under way
    pushed,            \* history: for whom a message was, and whose device got it
    swapped            \* history: a device changed hands while a push was under way

vars == <<now, socket, timers, renewals, revived, owner, created, unread, push, pushed, swapped>>

NoSocket == [user |-> None, exp |-> 0]
NoPush   == [at |-> "IDLE", user |-> None, devices |-> {}]

Init ==
    /\ now = 0 /\ socket = NoSocket /\ timers = {} /\ renewals = {}
    /\ revived = FALSE /\ swapped = FALSE
    /\ owner = [d \in Devices |-> None]
    /\ created = 0 /\ unread = {} /\ pushed = {}
    /\ push = [h \in Handlers |-> NoPush]

live  == <<now, socket, timers, renewals, revived>>
notes == <<created, unread, push, pushed, swapped, owner>>
Set(h, p) == push' = [push EXCEPT ![h] = p]

-----------------------------------------------------------------------------
(* RealtimeGateway *)

\* clearExpiry first: the timers of the earlier token do not go off any more.
AddTimer(exp)       == timers' = timers \cup {exp}
scheduleExpiry(exp) == timers' = {exp}

authenticate(exp) == exp > now

handleConnection(u, exp) ==
    /\ socket = NoSocket /\ renewals = {} /\ authenticate(exp)
    /\ socket' = [user |-> u, exp |-> exp]
    /\ scheduleExpiry(exp)
    /\ revived' = FALSE
    /\ UNCHANGED <<now, renewals, notes>>

\* The token is verified ...
handleReauth(exp) ==
    /\ socket # NoSocket /\ authenticate(exp) /\ exp \notin renewals
    /\ renewals' = renewals \cup {exp}
    /\ UNCHANGED <<now, socket, timers, revived, notes>>

\* ... and some awaits later it takes the place of the other; nobody asks whether the
\* socket is still there.
InstallToken(exp) ==
    /\ exp \in renewals /\ renewals' = renewals \ {exp}
    /\ IF exp <= now
       THEN timers' = {} /\ socket' = NoSocket /\ UNCHANGED revived
       ELSE /\ scheduleExpiry(exp)
            /\ socket' = IF socket = NoSocket THEN socket ELSE [socket EXCEPT !.exp = exp]
            /\ revived' = (revived \/ socket = NoSocket)
    /\ UNCHANGED <<now, notes>>

\* The token of another user closes the socket.
MismatchedToken ==
    /\ socket # NoSocket /\ socket' = NoSocket /\ timers' = {}
    /\ UNCHANGED <<now, renewals, revived, notes>>

handleDisconnect ==
    /\ socket # NoSocket /\ socket' = NoSocket /\ timers' = {}
    /\ UNCHANGED <<now, renewals, revived, notes>>

\* A timer goes off: the socket is closed.
Kick ==
    /\ now \in timers
    /\ timers' = {} /\ socket' = NoSocket
    /\ UNCHANGED <<now, renewals, revived, notes>>

Tick ==
    /\ now < MaxTime /\ now \notin timers /\ now' = now + 1
    /\ UNCHANGED <<socket, timers, renewals, revived, notes>>

-----------------------------------------------------------------------------
(* NotificationService *)

\* The row first; the message to the room and the push do not hold the caller up.
create(h, u) ==
    /\ created < MaxNotes /\ push[h] = NoPush
    /\ created' = created + 1 /\ unread' = unread \cup {<<u, created + 1>>}
    /\ Set(h, [at |-> "TOKENS", user |-> u, devices |-> {}])
    /\ UNCHANGED <<live, pushed, swapped, owner>>

markRead(n) ==
    /\ n \in unread /\ unread' = unread \ {n}
    /\ UNCHANGED <<live, created, push, pushed, swapped, owner>>

markAllRead(u) ==
    /\ unread' = {n \in unread : n[1] # u} /\ unread' # unread
    /\ UNCHANGED <<live, created, push, pushed, swapped, owner>>

-----------------------------------------------------------------------------
(* DeviceTokenService and PushService *)

Under(d) == \E h \in Handlers : d \in push[h].devices

\* A device that is used by another user now is his, not also his.
register(d, u) ==
    /\ owner[d] # u /\ owner' = [owner EXCEPT ![d] = u]
    /\ swapped' = (swapped \/ Under(d))
    /\ UNCHANGED <<live, created, unread, push, pushed>>

unregister(d) ==
    /\ owner[d] # None /\ owner' = [owner EXCEPT ![d] = None]
    /\ swapped' = (swapped \/ Under(d))
    /\ UNCHANGED <<live, created, unread, push, pushed>>

getTokensForUser(u) == {d \in Devices : owner[d] = u}

ReadTokens(h) ==
    /\ push[h].at = "TOKENS"
    /\ LET devices == getTokensForUser(push[h].user)
       IN Set(h, IF devices = {} THEN NoPush
                 ELSE [push[h] EXCEPT !.at = "SEND", !.devices = devices])
    /\ UNCHANGED <<live, created, unread, pushed, swapped, owner>>

\* The service answers which devices it does not know any more.
sendToUser(h, gone) ==
    /\ push[h].at = "SEND" /\ gone \subseteq push[h].devices
    /\ pushed' = pushed \cup {<<push[h].user, owner[d]>> : d \in push[h].devices \ gone}
    /\ Set(h, IF gone = {} THEN NoPush ELSE [push[h] EXCEPT !.at = "TICKETS", !.devices = gone])
    /\ UNCHANGED <<live, created, unread, swapped, owner>>

SendFails(h) ==
    /\ push[h].at = "SEND" /\ Set(h, NoPush)
    /\ UNCHANGED <<live, created, unread, pushed, swapped, owner>>

\* removeByToken: whoever the device belongs to by now.
handleTickets(h) ==
    /\ push[h].at = "TICKETS" /\ Set(h, NoPush)
    /\ owner' = [d \in Devices |-> IF d \in push[h].devices THEN None ELSE owner[d]]
    /\ swapped' = (swapped \/ \E d \in push[h].devices, g \in Handlers \ {h} :
                                  d \in push[g].devices)
    /\ UNCHANGED <<live, created, unread, pushed>>

Next ==
    \/ \E exp \in 1..MaxTime : \/ \E u \in Users : handleConnection(u, exp)
                               \/ handleReauth(exp) \/ InstallToken(exp)
    \/ MismatchedToken \/ handleDisconnect \/ Kick \/ Tick
    \/ \E u \in Users : \/ markAllRead(u) \/ \E h \in Handlers : create(h, u)
                        \/ \E d \in Devices : register(d, u)
    \/ \E n \in unread : markRead(n)
    \/ \E d \in Devices : unregister(d)
    \/ \E h \in Handlers : \/ ReadTokens(h) \/ SendFails(h) \/ handleTickets(h)
                           \/ \E gone \in SUBSET Devices : sendToUser(h, gone)

Spec == Init /\ [][Next]_vars

-----------------------------------------------------------------------------
(* Properties *)

SocketLivesAsItsToken ==
    IF socket = NoSocket THEN timers # {} => revived
    ELSE timers = {socket.exp} /\ now <= socket.exp
PushedToItsUser == ~swapped => \A p \in pushed : p[1] = p[2]

\* A notification reaches nobody but its user.  The socket in his room lives as long as
\* its token: it is closed when the token that was installed last ends, not when an
\* earlier one does, and a socket that is gone leaves no timer behind unless a renewal was
\* under way ("timers must be cleared, or every connection leaks two",
\* realtime.gateway.ts:91).  And a device that changed hands gets no message of the earlier
\* user's, unless it changed hands between the reading of the tokens and the sending
\* ("the token must be given to the new user instead of a second row",
\* device-token.service.ts:10).
ReachesOnlyItsUser == SocketLivesAsItsToken /\ PushedToItsUser
===============================================================================
