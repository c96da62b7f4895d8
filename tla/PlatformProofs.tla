--------------------------- MODULE PlatformProofs ---------------------------
(***************************************************************************)
(* Theorems about what the other services stand on: the outbox, notices    *)
(* and their sockets, the catalogue, the accounts, the carrier's           *)
(* locations, the sessions and the sales, for any number of users,         *)
(* devices, requests, tokens, attempts and faults.  Each service has an    *)
(* inductive invariant of its own, which holds of the behaviours of        *)
(* Services that are that service's.                                       *)
(***************************************************************************)
EXTENDS Services, Integers, Sequences, SequenceTheorems, FiniteSetTheorems, WellFoundedInduction, TLAPS

-----------------------------------------------------------------------------
(* Outbox: what was accepted is done *)

\* The attempts that failed are those made, until the mail is asked for again.
OutboxInv ==
    /\ kind \in Outbox!Kinds /\ enabled \in BOOLEAN
    /\ malformed \in BOOLEAN /\ (malformed => kind # "PURCHASE")
    /\ sent \in Nat /\ asked \in Nat /\ stalls \in Nat
    /\ made \in Nat /\ failed = made
    /\ job = "MARK" => kind = "PURCHASE" /\ (enabled => sent > 0)
    /\ row = "PROCESSED" /\ enabled => sent > 0
    /\ job = "FAILED" \/ (job = "ABSENT" /\ asked > 0)
         => failed >= Outbox!Attempts \/ stalls >= 2 \/ (malformed /\ failed > 0)
    /\ job = "DONE" /\ asked > 0 /\ sent = 0 => Outbox!Expired \/ Outbox!Skipped

LEMMA OutboxStart == Outbox!Init => OutboxInv
BY ServicesAssumption DEF Outbox!Init, OutboxInv

LEMMA OutboxStep == ASSUME OutboxInv, [Outbox!Next]_(Outbox!vars) PROVE OutboxInv'
<1> USE ServicesAssumption DEF OutboxInv, Outbox!counts, Outbox!setting, Outbox!Kinds,
                               Outbox!Attempts, Outbox!Expired, Outbox!Skipped, Outbox!Handled
<1>1. CASE Outbox!CreateRow \/ Outbox!Take \/ Outbox!Discard
  BY <1>1 DEF Outbox!CreateRow, Outbox!Take, Outbox!Discard
<1>9. CASE Outbox!NotAdded
  <2>1. asked = 0
    BY <1>9 DEF Outbox!NotAdded, Outbox!MayAsk
  <2> QED BY <1>9, <2>1 DEF Outbox!NotAdded, Outbox!Fault
<1>2. CASE Outbox!Add
  BY <1>2 DEF Outbox!Add, Outbox!MayAsk
<1>3. CASE Outbox!Handle
  BY <1>3 DEF Outbox!Handle, Outbox!AfterHandling
<1>4. ASSUME NEW got \in BOOLEAN, Outbox!HandleFails(got) PROVE OutboxInv'
  BY <1>4 DEF Outbox!HandleFails
<1>5. CASE Outbox!Mark \/ Outbox!MarkFails
  BY <1>5 DEF Outbox!Mark, Outbox!MarkFails, Outbox!Fault
<1>6. CASE Outbox!Catch
  BY <1>6 DEF Outbox!Catch, Outbox!Rethrown
<1>10. CASE Outbox!CatchFails
  BY <1>10 DEF Outbox!CatchFails, Outbox!Rethrown, Outbox!Fault
<1>11. CASE Outbox!Refuse
  BY <1>11 DEF Outbox!Refuse
<1>7. CASE Outbox!WorkerDies \/ Outbox!DiesAfterMark
  BY <1>7 DEF Outbox!WorkerDies, Outbox!DiesAfterMark, Outbox!Fault
<1>8. CASE Outbox!Forget \/ Outbox!CodeExpires \/ UNCHANGED Outbox!vars
  BY <1>8 DEF Outbox!Forget, Outbox!CodeExpires, Outbox!vars
<1> QED BY <1>1, <1>2, <1>3, <1>4, <1>5, <1>6, <1>7, <1>8, <1>9, <1>10, <1>11
    DEF Outbox!Next

LEMMA OutboxShown == OutboxInv => Outbox!AcceptedIsDone
BY ServicesAssumption DEF OutboxInv, Outbox!AcceptedIsDone, Outbox!Attempts, Outbox!Skipped

(* An event or a mail that was accepted is delivered, unless every attempt failed, its worker
   died twice, its code expired, it was refused as malformed, tracking is off or there is no
   BREVO_API_KEY, for any number of attempts, requests and faults (OutboxProcessor,
   MailProcessor and MailService). *)
THEOREM AcceptedIsDoneHolds == Spec => []AcceptedIsDone
<1>1. Init => (scope = "Outbox" => OutboxInv)
  BY OutboxStart DEF Init
<1>2. (scope = "Outbox" => OutboxInv) /\ [Next]_vars => (scope = "Outbox" => OutboxInv)'
  <2>1. [Next]_vars /\ scope' = "Outbox" => scope = "Outbox" /\ [Outbox!Next]_(Outbox!vars)
    BY DEF Next, vars, shared, outbox, Outbox!vars
  <2> QED BY <2>1, OutboxStep
<1>3. (scope = "Outbox" => OutboxInv) => AcceptedIsDone
  BY OutboxShown DEF AcceptedIsDone
<1> QED BY <1>1, <1>2, <1>3, PTL DEF Spec

-----------------------------------------------------------------------------
(* Notices: a notice reaches its own user only *)

PushStages == {"IDLE", "TOKENS", "SEND", "TICKETS"}
Pushes == [at : PushStages, user : Users \cup {Notices!None}, devices : SUBSET Devices]

\* A push that has read the devices of its user finds them the user's, while no device under
\* way changes hands.
PushInv ==
    /\ push \in [Handlers -> Pushes]
    /\ owner \in [Devices -> Users \cup {Notices!None}]
    /\ ~swapped => /\ \A h \in Handlers, d \in Devices :
                         push[h].at = "SEND" /\ d \in push[h].devices => owner[d] = push[h].user
                   /\ Notices!PushedToItsUser

\* The socket has one timer, that of its token, and time does not pass it.
SocketInv ==
    /\ now \in Nat /\ renewals \subseteq 1..MaxTime
    /\ socket = Notices!NoSocket \/ socket \in [user : Users, exp : 1..MaxTime]
    /\ Notices!SocketLivesAsItsToken

NoticesInv == SocketInv /\ PushInv

LEMMA SocketSteps ==
    ASSUME SocketInv,
           \/ \E exp \in 1..MaxTime : \/ \E x \in Users : Notices!handleConnection(x, exp)
                                      \/ Notices!handleReauth(exp) \/ Notices!InstallToken(exp)
           \/ Notices!MismatchedToken \/ Notices!handleDisconnect \/ Notices!Kick \/ Notices!Tick
    PROVE  SocketInv'
<1> USE ServicesAssumption DEF SocketInv, Notices!SocketLivesAsItsToken
<1>1. ASSUME NEW exp \in 1..MaxTime, NEW x \in Users, Notices!handleConnection(x, exp)
      PROVE  SocketInv'
  BY <1>1 DEF Notices!handleConnection, Notices!authenticate, Notices!scheduleExpiry, Notices!NoSocket
<1>2. ASSUME NEW exp \in 1..MaxTime, Notices!handleReauth(exp) PROVE SocketInv'
  BY <1>2 DEF Notices!handleReauth
<1>3. ASSUME NEW exp \in 1..MaxTime, Notices!InstallToken(exp) PROVE SocketInv'
  <2>1. CASE exp <= now
    BY <1>3, <2>1 DEF Notices!InstallToken
  <2>2. CASE exp > now /\ socket = Notices!NoSocket
    BY <1>3, <2>2 DEF Notices!InstallToken, Notices!scheduleExpiry
  <2>3. CASE exp > now /\ socket # Notices!NoSocket
    <3>1. socket' = [socket EXCEPT !.exp = exp] /\ timers' = {exp} /\ now' = now
          /\ renewals' \subseteq renewals
      BY <1>3, <2>3 DEF Notices!InstallToken, Notices!scheduleExpiry
    <3>2. socket' \in [user : Users, exp : 1..MaxTime] /\ socket'.exp = exp
      BY <2>3, <3>1
    <3>3. socket' # Notices!NoSocket
      BY <3>2 DEF Notices!NoSocket
    <3> QED BY <2>3, <3>1, <3>2, <3>3
  <2> QED BY <2>1, <2>2, <2>3
<1>4. CASE Notices!MismatchedToken \/ Notices!handleDisconnect
  BY <1>4 DEF Notices!MismatchedToken, Notices!handleDisconnect
<1>5. CASE Notices!Kick
  BY <1>5 DEF Notices!Kick
<1>6. CASE Notices!Tick
  BY <1>6 DEF Notices!Tick, Notices!NoSocket
<1> QED BY <1>1, <1>2, <1>3, <1>4, <1>5, <1>6

LEMMA PushSteps ==
    ASSUME PushInv, NEW h \in Handlers,
           \/ \E x \in Users : Notices!create(h, x)
           \/ Notices!ReadTokens(h) \/ Notices!SendFails(h) \/ Notices!handleTickets(h)
           \/ \E gone \in SUBSET Devices : Notices!sendToUser(h, gone)
    PROVE  PushInv'
<1> USE DEF PushInv, Notices!Set, Notices!PushedToItsUser, Pushes, PushStages
<1>0. Notices!NoPush \in Pushes /\ Notices!NoPush.at = "IDLE" /\ Notices!NoPush.devices = {}
  BY DEF Notices!NoPush
<1>1. ASSUME NEW x \in Users, Notices!create(h, x) PROVE PushInv'
  BY <1>1 DEF Notices!create
<1>2. CASE Notices!ReadTokens(h)
  <2>1. PICK p \in Pushes : /\ push' = [push EXCEPT ![h] = p]
                            /\ \A d \in p.devices : owner[d] = p.user
    <3>1. CASE Notices!getTokensForUser(push[h].user) = {}
      BY <1>0, <1>2, <3>1 DEF Notices!ReadTokens
    <3>2. CASE Notices!getTokensForUser(push[h].user) # {}
      <4>1. PICK p : p = [push[h] EXCEPT !.at = "SEND",
                                         !.devices = Notices!getTokensForUser(push[h].user)]
        OBVIOUS
      <4>2. p \in Pushes /\ p.user = push[h].user
            /\ p.devices = Notices!getTokensForUser(push[h].user)
        BY <4>1 DEF Notices!getTokensForUser
      <4>3. push' = [push EXCEPT ![h] = p]
        BY <1>2, <3>2, <4>1 DEF Notices!ReadTokens
      <4>4. \A d \in p.devices : owner[d] = p.user
        BY <4>2 DEF Notices!getTokensForUser
      <4> QED BY <4>2, <4>3, <4>4
    <3> QED BY <3>1, <3>2
  <2>2. UNCHANGED <<owner, swapped, pushed>>
    BY <1>2 DEF Notices!ReadTokens
  <2> QED BY <2>1, <2>2
<1>3. CASE Notices!SendFails(h)
  BY <1>0, <1>3 DEF Notices!SendFails
<1>4. CASE Notices!handleTickets(h)
  <2>1. \A g \in Handlers : push'[g] = IF g = h THEN Notices!NoPush ELSE push[g]
    BY <1>4 DEF Notices!handleTickets
  <2>2. push' \in [Handlers -> Pushes] /\ owner' \in [Devices -> Users \cup {Notices!None}]
        /\ pushed' = pushed /\ (~swapped' => ~swapped)
    BY <1>0, <1>4 DEF Notices!handleTickets
  <2>3. ASSUME ~swapped', NEW g \in Handlers, NEW d \in Devices,
               push'[g].at = "SEND", d \in push'[g].devices
        PROVE  owner'[d] = push'[g].user
    <3>1. g # h /\ push'[g] = push[g] /\ owner[d] = push[g].user
      BY <1>0, <2>1, <2>2, <2>3
    <3>2. d \notin push[h].devices
      BY <1>4, <2>3, <3>1 DEF Notices!handleTickets
    <3> QED BY <1>4, <3>1, <3>2 DEF Notices!handleTickets
  <2> QED BY <2>2, <2>3
<1>5. ASSUME NEW gone \in SUBSET Devices, Notices!sendToUser(h, gone) PROVE PushInv'
  <2>1. PICK p \in Pushes : push' = [push EXCEPT ![h] = p] /\ p.at # "SEND"
    <3>1. CASE gone = {}
      BY <1>0, <1>5, <3>1 DEF Notices!sendToUser
    <3>2. CASE gone # {}
      <4>1. PICK q : q = [push[h] EXCEPT !.at = "TICKETS", !.devices = gone]
        OBVIOUS
      <4>2. q \in Pushes /\ q.at = "TICKETS"
        BY <4>1
      <4>3. push' = [push EXCEPT ![h] = q]
        BY <1>5, <3>2, <4>1 DEF Notices!sendToUser
      <4> QED BY <4>2, <4>3
    <3> QED BY <3>1, <3>2
  <2>2. UNCHANGED <<owner, swapped>> /\ push[h].at = "SEND"
        /\ pushed' = pushed \cup {<<push[h].user, owner[d]>> : d \in push[h].devices \ gone}
    BY <1>5 DEF Notices!sendToUser
  <2>3. ~swapped => \A x \in pushed' : x[1] = x[2]
    BY <2>2
  <2> QED BY <2>1, <2>2, <2>3
<1> QED BY <1>1, <1>2, <1>3, <1>4, <1>5

LEMMA DeviceSteps ==
    ASSUME PushInv, NEW d \in Devices,
           (\E x \in Users : Notices!register(d, x)) \/ Notices!unregister(d)
    PROVE  PushInv'
<1>1. PICK x \in Users \cup {Notices!None} :
        /\ owner' = [owner EXCEPT ![d] = x] /\ UNCHANGED <<push, pushed>>
        /\ swapped' = (swapped \/ Notices!Under(d))
  BY DEF Notices!register, Notices!unregister
<1> QED BY <1>1 DEF PushInv, Notices!Under, Notices!PushedToItsUser

LEMMA NoticesStart == Notices!Init => NoticesInv
BY DEF Notices!Init, NoticesInv, SocketInv, PushInv, Notices!NoPush, Notices!PushedToItsUser, Pushes,
       PushStages, Notices!SocketLivesAsItsToken

LEMMA NoticesStep == ASSUME NoticesInv, [Notices!Next]_(Notices!vars) PROVE NoticesInv'
<1> USE DEF NoticesInv
<1>1. ASSUME UNCHANGED Notices!live PROVE SocketInv'
  BY <1>1 DEF SocketInv, Notices!live, Notices!SocketLivesAsItsToken
<1>2. ASSUME UNCHANGED Notices!notes PROVE PushInv'
  BY <1>2 DEF PushInv, Notices!notes, Notices!PushedToItsUser
<1>3. ASSUME \/ \E exp \in 1..MaxTime : \/ \E x \in Users : Notices!handleConnection(x, exp)
                                        \/ Notices!handleReauth(exp) \/ Notices!InstallToken(exp)
             \/ Notices!MismatchedToken \/ Notices!handleDisconnect \/ Notices!Kick \/ Notices!Tick
      PROVE  SocketInv' /\ PushInv'
  <2>1. UNCHANGED Notices!notes
    BY <1>3 DEF Notices!handleConnection, Notices!handleReauth, Notices!InstallToken,
                Notices!MismatchedToken, Notices!handleDisconnect, Notices!Kick, Notices!Tick
  <2> QED BY <1>2, <1>3, <2>1, SocketSteps
<1>4. ASSUME NEW h \in Handlers,
             \/ \E x \in Users : Notices!create(h, x)
             \/ Notices!ReadTokens(h) \/ Notices!SendFails(h) \/ Notices!handleTickets(h)
             \/ \E gone \in SUBSET Devices : Notices!sendToUser(h, gone)
      PROVE  SocketInv' /\ PushInv'
  <2>1. UNCHANGED Notices!live
    BY <1>4 DEF Notices!create, Notices!ReadTokens, Notices!SendFails, Notices!handleTickets,
                Notices!sendToUser
  <2> QED BY <1>1, <1>4, <2>1, PushSteps
<1>5. ASSUME NEW d \in Devices, (\E x \in Users : Notices!register(d, x)) \/ Notices!unregister(d)
      PROVE  SocketInv' /\ PushInv'
  <2>1. UNCHANGED Notices!live
    BY <1>5 DEF Notices!register, Notices!unregister
  <2> QED BY <1>1, <1>5, <2>1, DeviceSteps
<1>6. CASE (\E n \in unread : Notices!markRead(n)) \/ \E x \in Users : Notices!markAllRead(x)
  <2>1. UNCHANGED Notices!live /\ UNCHANGED <<owner, push, pushed, swapped>>
    BY <1>6 DEF Notices!markRead, Notices!markAllRead
  <2>2. PushInv'
    BY <2>1 DEF PushInv, Notices!PushedToItsUser
  <2> QED BY <1>1, <2>1, <2>2
<1>7. CASE UNCHANGED Notices!vars
  BY <1>1, <1>2, <1>7 DEF Notices!vars, Notices!live, Notices!notes
<1> QED BY <1>3, <1>4, <1>5, <1>6, <1>7 DEF Notices!Next

LEMMA NoticesShown == NoticesInv => Notices!ReachesOnlyItsUser
BY DEF NoticesInv, SocketInv, PushInv, Notices!ReachesOnlyItsUser, Notices!PushedToItsUser

(* The socket of a user has the timer of its token and is gone by then, and a message goes to
   devices of its user only, for any number of users, devices, pushes and renewals, unless a
   renewal ended after its socket was gone or a device changed hands under a push
   (realtime.gateway.ts, push.service.ts). *)
THEOREM ReachesOnlyItsUserHolds == Spec => []ReachesOnlyItsUser
<1>1. Init => (scope = "Notices" => NoticesInv)
  BY NoticesStart DEF Init
<1>2. (scope = "Notices" => NoticesInv) /\ [Next]_vars => (scope = "Notices" => NoticesInv)'
  <2>1. [Next]_vars /\ scope' = "Notices" => scope = "Notices" /\ [Notices!Next]_(Notices!vars)
    BY DEF Next, vars, shared, notices, Notices!vars
  <2> QED BY <2>1, NoticesStep
<1>3. (scope = "Notices" => NoticesInv) => ReachesOnlyItsUser
  BY NoticesShown DEF ReachesOnlyItsUser
<1> QED BY <1>1, <1>2, <1>3, PTL DEF Spec

-----------------------------------------------------------------------------
(* Catalogue: one main picture *)

LEMMA CatalogueCardinality == \A S : Catalogue!Cardinality(S) = Cardinality(S)
BY DEF Catalogue!Cardinality, Cardinality

LEMMA Greatest == ASSUME NEW c \in Nat, NEW S \in SUBSET (1..c), S # {} PROVE \E x \in S : \A z \in S : x >= z
<1> DEFINE T == {c - x : x \in S}
<1>1. T \subseteq Nat /\ T # {}
  <2>1. ASSUME NEW x \in S PROVE c - x \in Nat
    <3>1. x \in 1..c
      OBVIOUS
    <3> QED BY <3>1
  <2> QED BY <2>1
<1>2. PICK y \in T : \A z \in T : ~(<<z, y>> \in OpToRel(<, Nat))
  BY <1>1, NatLessThanWellFounded, WFMin
<1>3. PICK m \in S : y = c - m
  BY <1>2
<1>4. ASSUME NEW x \in S PROVE m >= x
  <2>1. c - x \in T /\ c - x \in Nat /\ y \in Nat
    BY <1>1, <1>2
  <2>2. ~(c - x < y)
    BY <1>2, <2>1 DEF OpToRel
  <2> QED BY <1>3, <2>1, <2>2
<1> QED BY <1>4

(* The newest of some pictures is one of them. *)
LEMMA NewestIsOne ==
    ASSUME NEW c \in Nat, NEW S \in SUBSET (1..c), S # {}
    PROVE  Catalogue!Max(S) \in S
<1>1. \E x \in S : \A z \in S : x >= z
  BY Greatest
<1> QED BY <1>1 DEF Catalogue!Max

CatalogueFields == {"op", "at", "picture", "isMain", "seen", "collection", "name"}
CatalogueJob(j) == j = [x \in CatalogueFields |-> j[x]]

\* What a request read of the pictures still holds: the picture it removes is the main one or
\* not and is not the last one, and what it demotes has the main one in it.
PicturesStand(j) ==
    /\ j.op = "REMOVE_IMAGE" /\ j.picture \in pictures => (j.isMain <=> j.picture \in mains)
    /\ j.op = "REMOVE_IMAGE" /\ j.at = "DELETE" => pictures # {j.picture}
    /\ j.op = "UPLOAD" /\ j.at = "WRITE" => mains \subseteq j.seen
CatalogueRows ==
    /\ job = [h \in Handlers |-> job[h]] /\ \A h \in Handlers : CatalogueJob(job[h])
    /\ stored \in Nat /\ pictures \in SUBSET (1..stored) /\ mains \subseteq pictures
    /\ life # "THERE" => pictures = {} /\ garment = 0
    /\ life = "NEW" => stored = 0 /\ \A h \in Handlers : job[h].op \notin {"UPLOAD", "REMOVE_IMAGE"}
PicturesInv ==
    ~overlapped => /\ pictures = {} \/ \E m : mains = {m}
                   /\ garment # 0 => mains = {garment}
                   /\ life = "THERE" /\ stored > 0 => pictures # {}
                   /\ \A h \in Handlers : PicturesStand(job[h])
CatalogueInv == CatalogueRows /\ PicturesInv

(* A step of one request that changes no picture. *)
LEMMA CatalogueGoesOn ==
    ASSUME CatalogueInv, NEW h \in Handlers, NEW j, CatalogueJob(j),
           job' = [job EXCEPT ![h] = j],
           UNCHANGED <<life, pictures, mains, garment, stored, overlapped>>,
           j.op \in {"UPLOAD", "REMOVE_IMAGE"} => life # "NEW",
           overlapped \/ PicturesStand(j)
    PROVE  CatalogueInv'
<1>1. \A g \in Handlers : job'[g] = IF g = h THEN j ELSE job[g]
  BY DEF CatalogueInv, CatalogueRows
<1>2. CatalogueRows'
  BY <1>1 DEF CatalogueInv, CatalogueRows
<1>3. ~overlapped => \A g \in Handlers : PicturesStand(job[g])' 
  BY <1>1 DEF CatalogueInv, PicturesInv, PicturesStand
<1>4. PicturesInv'
  BY <1>3 DEF CatalogueInv, PicturesInv
<1> QED BY <1>2, <1>4 DEF CatalogueInv

(* A request that is about to change the pictures, and does so: no other may be. *)
LEMMA PicturesChange ==
    ASSUME CatalogueInv, NEW h \in Handlers,
           job' = [job EXCEPT ![h] = Catalogue!NoJob], Catalogue!Overlap(h),
           stored' \in Nat, pictures' \in SUBSET (1..stored'), mains' \subseteq pictures',
           life' = life, life = "THERE",
           ~overlapped => /\ \E m : mains' = {m}
                          /\ garment' # 0 => mains' = {garment'}
    PROVE  CatalogueInv'
<1>1. CatalogueJob(Catalogue!NoJob) /\ Catalogue!NoJob.op = "NONE"
  BY DEF CatalogueJob, CatalogueFields, Catalogue!NoJob
<1>2. \A g \in Handlers : job'[g] = IF g = h THEN Catalogue!NoJob ELSE job[g]
  BY DEF CatalogueInv, CatalogueRows
<1>3. CatalogueRows'
  BY <1>1, <1>2 DEF CatalogueInv, CatalogueRows
<1>4. ASSUME ~overlapped'
      PROVE  ~overlapped /\ \A g \in Handlers : job'[g].op \notin {"UPLOAD", "REMOVE_IMAGE"}
  BY <1>1, <1>2, <1>4 DEF Catalogue!Overlap, Catalogue!Changing
<1>5. PicturesInv'
  BY <1>4 DEF PicturesInv, PicturesStand
<1> QED BY <1>3, <1>5 DEF CatalogueInv


\* The jobs of requests, and what a step makes of one.
LEMMA JobWithAt ==
    ASSUME NEW j, CatalogueJob(j), NEW s, NEW k, k = [j EXCEPT !.at = s]
    PROVE  CatalogueJob(k) /\ k.at = s /\ k.op = j.op /\ k.picture = j.picture
           /\ k.isMain = j.isMain /\ k.seen = j.seen
BY DEF CatalogueJob, CatalogueFields

LEMMA JobWithSeen ==
    ASSUME NEW j, CatalogueJob(j), NEW s, NEW k, k = [j EXCEPT !.seen = s]
    PROVE  CatalogueJob(k) /\ k.seen = s /\ k.op = j.op /\ k.at = j.at
BY DEF CatalogueJob, CatalogueFields

LEMMA JobWithOp ==
    ASSUME NEW j, CatalogueJob(j), NEW op, NEW k, k = [j EXCEPT !.op = op]
    PROVE  CatalogueJob(k) /\ k.op = op /\ k.picture = j.picture /\ k.isMain = j.isMain
BY DEF CatalogueJob, CatalogueFields

LEMMA JobIdle == CatalogueJob(Catalogue!NoJob) /\ Catalogue!NoJob.op = "NONE"
BY DEF CatalogueJob, CatalogueFields, Catalogue!NoJob

LEMMA CatalogueStarts ==
    ASSUME NEW h, NEW op, NEW s, NEW j, CatalogueJob(j), Catalogue!Start(h, op, s, j)
    PROVE  \E k : /\ CatalogueJob(k) /\ k.op = op /\ k.at = s /\ k.picture = j.picture
                  /\ k.isMain = j.isMain /\ job' = [job EXCEPT ![h] = k]
<1>1. PICK i : i = [j EXCEPT !.op = op]
  OBVIOUS
<1>2. PICK k : k = [i EXCEPT !.at = s]
  OBVIOUS
<1>3. CatalogueJob(i) /\ i.op = op /\ i.picture = j.picture /\ i.isMain = j.isMain
  BY <1>1, JobWithOp
<1>4. CatalogueJob(k) /\ k.op = op /\ k.at = s /\ k.picture = j.picture /\ k.isMain = j.isMain
  BY <1>2, <1>3, JobWithAt
<1>5. job' = [job EXCEPT ![h] = k]
  BY <1>1, <1>2 DEF Catalogue!Start
<1> QED BY <1>4, <1>5

(* Requests that touch no picture. *)
LEMMA CollectionSteps ==
    ASSUME CatalogueInv, NEW h \in Handlers,
           \/ Catalogue!WriteCollection(h) \/ Catalogue!addProduct(h) \/ Catalogue!StorageFails(h)
           \/ \E c \in Collections : \/ Catalogue!CheckProduct(h, c)
                                     \/ \E n \in Names : Catalogue!CheckName(h, c, n)
    PROVE  CatalogueInv'
<1>1. UNCHANGED <<life, pictures, mains, garment, stored, overlapped>>
  BY DEF Catalogue!WriteCollection, Catalogue!addProduct, Catalogue!StorageFails, Catalogue!CheckProduct,
         Catalogue!CheckName, Catalogue!product, Catalogue!Calm
<1>2. ASSUME NEW j, CatalogueJob(j), j.op \notin {"UPLOAD", "REMOVE_IMAGE"},
             job' = [job EXCEPT ![h] = j]
      PROVE  CatalogueInv'
  <2>1. PicturesStand(j)
    BY <1>2 DEF PicturesStand
  <2> QED BY <1>1, <1>2, <2>1, CatalogueGoesOn
<1>3. CASE Catalogue!WriteCollection(h) \/ Catalogue!addProduct(h) \/ Catalogue!StorageFails(h)
  <2>1. job' = [job EXCEPT ![h] = Catalogue!NoJob]
    BY <1>3 DEF Catalogue!WriteCollection, Catalogue!addProduct, Catalogue!StorageFails, Catalogue!Done,
                Catalogue!Set
  <2> QED BY <1>2, <2>1, JobIdle
<1>4. ASSUME NEW c \in Collections, Catalogue!CheckProduct(h, c) PROVE CatalogueInv'
  <2>1. PICK i : i = [Catalogue!NoJob EXCEPT !.collection = c]
    OBVIOUS
  <2>2. CatalogueJob(i)
    BY <2>1 DEF CatalogueJob, CatalogueFields, Catalogue!NoJob
  <2>3. Catalogue!Start(h, "ADD", "WRITE", i)
    BY <1>4, <2>1 DEF Catalogue!CheckProduct
  <2>4. PICK k : CatalogueJob(k) /\ k.op = "ADD" /\ job' = [job EXCEPT ![h] = k]
    BY <2>2, <2>3, CatalogueStarts
  <2> QED BY <1>2, <2>4
<1>5. ASSUME NEW c \in Collections, NEW n \in Names, Catalogue!CheckName(h, c, n)
      PROVE  CatalogueInv'
  <2>1. PICK i : i = [Catalogue!NoJob EXCEPT !.collection = c, !.name = n]
    OBVIOUS
  <2>2. CatalogueJob(i)
    BY <2>1 DEF CatalogueJob, CatalogueFields, Catalogue!NoJob
  <2>3. PICK op \in {"UPDATE", "CREATE"} : Catalogue!Start(h, op, "WRITE", i)
    BY <1>5, <2>1 DEF Catalogue!CheckName
  <2>4. PICK k : CatalogueJob(k) /\ k.op = op /\ job' = [job EXCEPT ![h] = k]
    BY <2>2, <2>3, CatalogueStarts
  <2> QED BY <1>2, <2>3, <2>4
<1> QED BY <1>3, <1>4, <1>5

(* Pictures are stored, then written; the ones it demotes are those it sees when it begins. *)
LEMMA UploadSteps ==
    ASSUME CatalogueInv, NEW h \in Handlers,
           \/ Catalogue!Upload(h) \/ Catalogue!StorePictures(h)
           \/ \E n \in 1..2, main \in 1..2 : Catalogue!uploadProductImages(h, n, main)
    PROVE  CatalogueInv'
<1>1. CASE Catalogue!Upload(h)
  <2>1. PICK k : CatalogueJob(k) /\ k.op = "UPLOAD" /\ k.at = "STORE" /\ job' = [job EXCEPT ![h] = k]
    BY <1>1, JobIdle, CatalogueStarts DEF Catalogue!Upload
  <2>2. PicturesStand(k)
    BY <2>1 DEF PicturesStand
  <2>3. UNCHANGED <<life, pictures, mains, garment, stored, overlapped>> /\ life # "NEW"
    BY <1>1 DEF Catalogue!Upload, Catalogue!product, Catalogue!Calm, Catalogue!exists
  <2> QED BY <2>1, <2>2, <2>3, CatalogueGoesOn
<1>2. CASE Catalogue!StorePictures(h)
  <2>1. PICK i : i = [job[h] EXCEPT !.at = "WRITE"]
    OBVIOUS
  <2>2. PICK k : k = [i EXCEPT !.seen = pictures]
    OBVIOUS
  <2>3. CatalogueJob(job[h]) /\ job[h].op = "UPLOAD"
    BY <1>2 DEF Catalogue!StorePictures, Catalogue!At, CatalogueInv, CatalogueRows
  <2>4. CatalogueJob(i) /\ i.op = "UPLOAD"
    BY <2>1, <2>3, JobWithAt
  <2>5. CatalogueJob(k) /\ k.op = "UPLOAD" /\ k.seen = pictures
    BY <2>2, <2>4, JobWithSeen
  <2>6. job' = [job EXCEPT ![h] = k]
    BY <1>2, <2>1, <2>2 DEF Catalogue!StorePictures, Catalogue!Set
  <2>7. PicturesStand(k)
    BY <2>5 DEF PicturesStand, CatalogueInv, CatalogueRows
  <2>8. UNCHANGED <<life, pictures, mains, garment, stored, overlapped>>
    BY <1>2 DEF Catalogue!StorePictures, Catalogue!product, Catalogue!Calm
  <2>9. life # "NEW"
    BY <2>3 DEF CatalogueInv, CatalogueRows
  <2> QED BY <2>5, <2>6, <2>7, <2>8, <2>9, CatalogueGoesOn
<1>3. ASSUME NEW n \in 1..2, NEW main \in 1..2, Catalogue!uploadProductImages(h, n, main)
      PROVE  CatalogueInv'
  <2>1. job' = [job EXCEPT ![h] = Catalogue!NoJob] /\ UNCHANGED life
    BY <1>3 DEF Catalogue!uploadProductImages, Catalogue!Done, Catalogue!Set
  <2>2. CASE Catalogue!exists
    <3>1. /\ stored' = stored + n /\ pictures' = pictures \cup (stored + 1..stored + n)
          /\ mains' = (mains \ job[h].seen) \cup {stored + main} /\ garment' = stored + main
          /\ Catalogue!Overlap(h) /\ main <= n /\ job[h].op = "UPLOAD" /\ job[h].at = "WRITE"
      BY <1>3, <2>2 DEF Catalogue!uploadProductImages, Catalogue!WriteMain, Catalogue!At
    <3>2. PICK k \in Nat : k = stored
      BY DEF CatalogueInv, CatalogueRows
    <3>3. k + n \in Nat /\ 1..k \subseteq 1..(k + n) /\ k + 1..k + n \subseteq 1..(k + n)
          /\ k + main \in k + 1..k + n
      BY <3>1
    <3>4. pictures \subseteq 1..k /\ mains \subseteq pictures
      BY <3>2 DEF CatalogueInv, CatalogueRows
    <3>5. stored' \in Nat /\ pictures' \in SUBSET (1..stored') /\ mains' \subseteq pictures'
      BY <3>1, <3>2, <3>3, <3>4
    <3>6. ~overlapped => mains \subseteq job[h].seen
      BY <3>1 DEF CatalogueInv, PicturesInv, PicturesStand
    <3>7. ~overlapped => mains' = {stored + main}
      BY <3>1, <3>6
    <3> QED BY <2>1, <2>2, <3>1, <3>5, <3>7, PicturesChange DEF Catalogue!exists
  <2>3. CASE ~Catalogue!exists
    <3>1. UNCHANGED <<life, pictures, mains, garment, stored, overlapped>>
      BY <1>3, <2>1, <2>3 DEF Catalogue!uploadProductImages
    <3>2. PicturesStand(Catalogue!NoJob)
      BY JobIdle DEF PicturesStand
    <3> QED BY <2>1, <3>1, <3>2, JobIdle, CatalogueGoesOn
  <2> QED BY <2>2, <2>3
<1> QED BY <1>1, <1>2, <1>3

(* A picture is read, the pictures are counted, it goes. *)
LEMMA RemovalSteps ==
    ASSUME CatalogueInv, NEW h \in Handlers,
           \/ \E p \in pictures : Catalogue!FindImage(h, p)
           \/ Catalogue!CountImages(h) \/ Catalogue!removeImage(h)
    PROVE  CatalogueInv'
<1>1. ASSUME NEW p \in pictures, Catalogue!FindImage(h, p) PROVE CatalogueInv'
  <2>1. PICK b \in BOOLEAN : b <=> p \in mains
    OBVIOUS
  <2>2. PICK i : i = [Catalogue!NoJob EXCEPT !.picture = p, !.isMain = p \in mains]
    OBVIOUS
  <2>3. CatalogueJob(i) /\ i.picture = p
    BY <2>2 DEF CatalogueJob, CatalogueFields, Catalogue!NoJob
  <2>4. i.isMain <=> p \in mains
    BY <2>2 DEF Catalogue!NoJob
  <2>5. Catalogue!Start(h, "REMOVE_IMAGE", "COUNT", i)
    BY <1>1, <2>2 DEF Catalogue!FindImage
  <2>6. PICK k : /\ CatalogueJob(k) /\ k.op = "REMOVE_IMAGE" /\ k.at = "COUNT" /\ k.picture = p
                 /\ k.isMain = i.isMain /\ job' = [job EXCEPT ![h] = k]
    BY <2>3, <2>5, CatalogueStarts
  <2>7. PicturesStand(k)
    BY <2>4, <2>6 DEF PicturesStand
  <2>8. UNCHANGED <<life, pictures, mains, garment, stored, overlapped>>
    BY <1>1 DEF Catalogue!FindImage, Catalogue!product, Catalogue!Calm
  <2>9. life # "NEW"
    BY <1>1 DEF CatalogueInv, CatalogueRows
  <2> QED BY <2>6, <2>7, <2>8, <2>9, CatalogueGoesOn
<1>2. CASE Catalogue!CountImages(h)
  <2>1. UNCHANGED <<life, pictures, mains, garment, stored, overlapped>>
    BY <1>2 DEF Catalogue!CountImages, Catalogue!product, Catalogue!Calm
  <2>2. CASE Catalogue!LastOne
    <3>1. job' = [job EXCEPT ![h] = Catalogue!NoJob]
      BY <1>2, <2>2 DEF Catalogue!CountImages, Catalogue!Done, Catalogue!Set
    <3>2. PicturesStand(Catalogue!NoJob)
      BY JobIdle DEF PicturesStand
    <3> QED BY <2>1, <3>1, <3>2, JobIdle, CatalogueGoesOn
  <2>3. CASE ~Catalogue!LastOne
    <3>1. PICK k : k = [job[h] EXCEPT !.at = "DELETE"]
      OBVIOUS
    <3>2. job' = [job EXCEPT ![h] = k] /\ job[h].op = "REMOVE_IMAGE"
      BY <1>2, <2>3, <3>1 DEF Catalogue!CountImages, Catalogue!Go, Catalogue!Set, Catalogue!At
    <3>3. CatalogueJob(job[h])
      BY DEF CatalogueInv, CatalogueRows
    <3>4. CatalogueJob(k) /\ k.op = "REMOVE_IMAGE" /\ k.picture = job[h].picture
          /\ k.isMain = job[h].isMain
      BY <3>1, <3>2, <3>3, JobWithAt
    <3>5. ASSUME NEW p, pictures = {p} PROVE FALSE
      <4>1. Cardinality({p}) = 1
        BY FS_Singleton
      <4> QED BY <2>3, <3>5, <4>1, CatalogueCardinality DEF Catalogue!LastOne
    <3>6. ~overlapped => PicturesStand(job[h])
      BY DEF CatalogueInv, PicturesInv
    <3>7. ~overlapped => PicturesStand(k)
      BY <3>2, <3>4, <3>5, <3>6 DEF PicturesStand
    <3>8. life # "NEW"
      BY <3>2 DEF CatalogueInv, CatalogueRows
    <3> QED BY <2>1, <3>2, <3>4, <3>7, <3>8, CatalogueGoesOn
  <2> QED BY <2>2, <2>3
<1>3. CASE Catalogue!removeImage(h)
  <2> DEFINE left == pictures \ {job[h].picture}
  <2>1. job' = [job EXCEPT ![h] = Catalogue!NoJob] /\ UNCHANGED <<life, stored>>
    BY <1>3 DEF Catalogue!removeImage, Catalogue!Done, Catalogue!Set
  <2>2. CASE job[h].picture \notin pictures
    <3>1. UNCHANGED <<life, pictures, mains, garment, stored, overlapped>>
      BY <1>3, <2>1, <2>2 DEF Catalogue!removeImage
    <3>2. PicturesStand(Catalogue!NoJob)
      BY JobIdle DEF PicturesStand
    <3> QED BY <2>1, <3>1, <3>2, JobIdle, CatalogueGoesOn
  <2>3. CASE job[h].picture \in pictures
    <3>1. /\ pictures' = left /\ Catalogue!Overlap(h) /\ job[h].op = "REMOVE_IMAGE"
          /\ job[h].at = "DELETE"
          /\ IF job[h].isMain /\ left # {}
             THEN mains' = (mains \cap left) \cup {Catalogue!Max(left)}
                  /\ garment' = Catalogue!Max(left)
             ELSE mains' = mains \cap left /\ UNCHANGED garment
      BY <1>3, <2>3 DEF Catalogue!removeImage, Catalogue!At
    <3>2. left \in SUBSET (1..stored) /\ stored \in Nat /\ mains \subseteq pictures
      BY DEF CatalogueInv, CatalogueRows
    <3>3. left # {} => Catalogue!Max(left) \in left
      BY <3>2, NewestIsOne
    <3>4. stored' \in Nat /\ pictures' \in SUBSET (1..stored') /\ mains' \subseteq pictures'
      BY <2>1, <3>1, <3>2, <3>3
    <3>5. life = "THERE"
      BY <2>3 DEF CatalogueInv, CatalogueRows
    <3>6. ASSUME ~overlapped
          PROVE  (\E m : mains' = {m}) /\ (garment' # 0 => mains' = {garment'})
      <4>1. left # {} /\ (job[h].isMain <=> job[h].picture \in mains)
        BY <2>3, <3>1, <3>6 DEF CatalogueInv, PicturesInv, PicturesStand
      <4>2. PICK m : mains = {m}
        BY <2>3, <3>6 DEF CatalogueInv, PicturesInv, CatalogueRows
      <4>3. CASE job[h].isMain
        BY <3>1, <4>1, <4>2, <4>3
      <4>4. CASE ~job[h].isMain
        <5>1. mains' = mains /\ garment' = garment
          BY <3>1, <3>2, <4>1, <4>4
        <5> QED BY <3>6, <4>2, <5>1 DEF CatalogueInv, PicturesInv
      <4> QED BY <4>3, <4>4
    <3> QED BY <2>1, <3>1, <3>4, <3>5, <3>6, PicturesChange
  <2> QED BY <2>2, <2>3
<1> QED BY <1>1, <1>2, <1>3

(* The product itself. *)
LEMMA ProductSteps ==
    ASSUME CatalogueInv, Catalogue!create \/ Catalogue!update \/ Catalogue!remove
    PROVE  CatalogueInv'
<1>1. UNCHANGED <<job, overlapped>>
  BY DEF Catalogue!create, Catalogue!update, Catalogue!remove, Catalogue!Calm
<1>2. CASE Catalogue!create
  <2>1. PICK n \in 0..2 : /\ stored' = n /\ pictures' = 1..n /\ mains' = (1..n) \cap {1}
                          /\ garment' = IF n = 0 THEN 0 ELSE 1
    BY <1>2 DEF Catalogue!create
  <2>2. life = "NEW" /\ life' = "THERE"
    BY <1>2 DEF Catalogue!create
  <2>3. CatalogueRows'
    BY <1>1, <2>1, <2>2 DEF CatalogueInv, CatalogueRows
  <2>4. \A h \in Handlers : PicturesStand(job[h])'
    BY <1>1, <2>2 DEF CatalogueInv, CatalogueRows, PicturesStand
  <2>5. /\ pictures' = {} \/ \E m : mains' = {m}
        /\ garment' # 0 => mains' = {garment'}
        /\ stored' > 0 => pictures' # {}
    <3>1. n = 0 \/ (1 \in 1..n /\ n # 0)
      OBVIOUS
    <3>2. CASE n = 0
      BY <2>1, <3>2
    <3>3. CASE 1 \in 1..n /\ n # 0
      BY <2>1, <3>3
    <3> QED BY <3>1, <3>2, <3>3
  <2>6. PicturesInv'
    BY <2>4, <2>5 DEF PicturesInv
  <2> QED BY <2>3, <2>6 DEF CatalogueInv
<1>3. CASE Catalogue!update
  <2>1. UNCHANGED <<life, pictures, mains, stored>> /\ garment' = 0
    BY <1>3 DEF Catalogue!update
  <2> QED BY <1>1, <2>1 DEF CatalogueInv, CatalogueRows, PicturesInv, PicturesStand
<1>4. CASE Catalogue!remove
  <2>1. life' = "GONE" /\ pictures' = {} /\ mains' = {} /\ garment' = 0 /\ stored' = stored
    BY <1>4 DEF Catalogue!remove
  <2>2. CatalogueRows'
    BY <1>1, <2>1 DEF CatalogueInv, CatalogueRows
  <2>3. PicturesInv'
    BY <1>1, <2>1 DEF CatalogueInv, PicturesInv, PicturesStand
  <2> QED BY <2>2, <2>3 DEF CatalogueInv
<1> QED BY <1>2, <1>3, <1>4

LEMMA CatalogueStart == Catalogue!Init => CatalogueInv
<1> SUFFICES ASSUME Catalogue!Init PROVE CatalogueInv
  OBVIOUS
<1>1. \A h \in Handlers : job[h] = Catalogue!NoJob
  BY DEF Catalogue!Init
<1>2. CatalogueRows
  BY <1>1, JobIdle DEF Catalogue!Init, CatalogueRows
<1>3. \A h \in Handlers : PicturesStand(job[h])
  BY <1>1, JobIdle DEF PicturesStand
<1>4. PicturesInv
  BY <1>3 DEF Catalogue!Init, PicturesInv
<1> QED BY <1>2, <1>4 DEF CatalogueInv

LEMMA CatalogueStep == ASSUME CatalogueInv, [Catalogue!Next]_(Catalogue!vars) PROVE CatalogueInv'
<1>1. CASE \/ Catalogue!Order \/ UNCHANGED Catalogue!vars
           \/ \E c \in Collections : Catalogue!removeCollection(c) \/ Catalogue!removeProduct(c)
  <2>1. UNCHANGED <<life, pictures, mains, garment, stored, overlapped, job>>
    BY <1>1 DEF Catalogue!Order, Catalogue!vars, Catalogue!removeCollection, Catalogue!removeProduct,
                Catalogue!product, Catalogue!Calm
  <2> QED BY <2>1 DEF CatalogueInv, CatalogueRows, PicturesInv, PicturesStand
<1>2. CASE Catalogue!create \/ Catalogue!update \/ Catalogue!remove
  BY <1>2, ProductSteps
<1>3. ASSUME NEW h \in Handlers,
             \/ Catalogue!Upload(h) \/ Catalogue!StorePictures(h) \/ Catalogue!StorageFails(h)
             \/ \E n \in 1..2, main \in 1..2 : Catalogue!uploadProductImages(h, n, main)
             \/ \E p \in pictures : Catalogue!FindImage(h, p)
             \/ Catalogue!CountImages(h) \/ Catalogue!removeImage(h)
             \/ \E c \in Collections : \/ \E n \in Names : Catalogue!CheckName(h, c, n)
                                       \/ Catalogue!CheckProduct(h, c)
             \/ Catalogue!WriteCollection(h) \/ Catalogue!addProduct(h)
      PROVE  CatalogueInv'
  BY <1>3, CollectionSteps, UploadSteps, RemovalSteps
<1> QED BY <1>1, <1>2, <1>3 DEF Catalogue!Next

LEMMA CatalogueShown == CatalogueInv => Catalogue!OneMainPicture
<1>1. ASSUME NEW m, mains = {m} PROVE Catalogue!Cardinality(mains) = 1
  <2>1. Cardinality({m}) = 1
    BY FS_Singleton
  <2> QED BY <1>1, <2>1, CatalogueCardinality
<1> QED BY <1>1 DEF CatalogueInv, PicturesInv, Catalogue!OneMainPicture, Catalogue!exists

(* A product with pictures has one main picture, which is what try-on wears unless its
   garment was given by hand, and it keeps a last picture, for any number of requests, pictures
   and collections, while no two requests change the pictures at one time
   (products.service.ts, collections.service.ts). *)
THEOREM OneMainPictureHolds == Spec => []OneMainPicture
<1>1. Init => (scope = "Catalogue" => CatalogueInv)
  BY CatalogueStart DEF Init
<1>2. (scope = "Catalogue" => CatalogueInv) /\ [Next]_vars => (scope = "Catalogue" => CatalogueInv)'
  <2>1. [Next]_vars /\ scope' = "Catalogue" => scope = "Catalogue" /\ [Catalogue!Next]_(Catalogue!vars)
    BY DEF Next, vars, shared, catalogue, Catalogue!vars
  <2> QED BY <2>1, CatalogueStep
<1>3. (scope = "Catalogue" => CatalogueInv) => OneMainPicture
  BY CatalogueShown DEF OneMainPicture
<1> QED BY <1>1, <1>2, <1>3, PTL DEF Spec

-----------------------------------------------------------------------------
(* Accounts: nobody is locked out *)

LEMMA AccountsCardinality == \A S : Accounts!Cardinality(S) = Cardinality(S)
BY DEF Accounts!Cardinality, Cardinality

LEMMA AccountLimits == OTP_MAX_ATTEMPTS \in Nat /\ MaxResets \in Nat /\ Admins # {}
BY ServicesAssumption

AccountFields == {"at", "code", "token", "user"}
AccountJob(j) == j = [x \in AccountFields |-> j[x]]
AccountRows == job = [h \in Handlers |-> job[h]] /\ \A h \in Handlers : AccountJob(job[h])

\* While a code is being made no other request makes or uses one, and who drops or clears a
\* code finds none due, or none that has guesses left.
CodeStands(h) ==
    /\ job[h].at \in {"RESET", "MAIL"} =>
          /\ otp = job[h].code /\ due = 0
          /\ \A g \in Handlers \ {h} : job[g].at \notin {"RESET", "MAIL"} \cup Accounts!Verifying
    /\ job[h].at = "MAIL" => attempts = 0
    /\ job[h].at = "DROP" => due = 0 \/ guesses >= OTP_MAX_ATTEMPTS
    /\ job[h].at = "CLEAR" => due = 0
CodesInv ==
    /\ attempts \in Nat /\ guesses \in Nat
    /\ ~confused => /\ \A h \in Handlers : CodeStands(h)
                    /\ Accounts!MailedCodeWorks

\* Who is about to demote an administrator leaves another.
RolesInv ==
    ~together => /\ admins # {}
                 /\ \A h \in Handlers : job[h].at = "DEMOTE" => \E a \in admins : a # job[h].user

\* A token that was used as often as it is worth and is still there, or was found, is being
\* deleted by the request that used it; if that one dies the token is worth one use more.
Deleting(x) == \E g \in Handlers : job[g].at = "TOKENS" /\ job[g].token = x
Spent(x) == applied[x] > spared[x]
ResetsInv ==
    /\ issued \in 0..MaxResets /\ tokens \subseteq 1..issued
    /\ applied \in [1..MaxResets -> Nat] /\ spared \in [1..MaxResets -> Nat]
    /\ \A t \in 1..MaxResets : t > issued => applied[t] = 0
    /\ \A h \in Handlers : job[h].at \in {"PASSWORD", "TOKENS"} => job[h].token \in 1..issued
    /\ ~together => /\ \A t \in 1..MaxResets : applied[t] <= 1 + spared[t]
                    /\ \A t \in tokens : Spent(t) => Deleting(t)
                    /\ \A h \in Handlers :
                          job[h].at = "PASSWORD" /\ Spent(job[h].token) => Deleting(job[h].token)

AccountsInv == AccountRows /\ CodesInv /\ RolesInv /\ ResetsInv

\* What a step makes of a job.
Moves(h, j) == AccountJob(j) /\ job' = [job EXCEPT ![h] = j]

LEMMA AccountIdle == AccountJob(Accounts!NoJob) /\ Accounts!NoJob.at = "IDLE"
BY DEF AccountJob, AccountFields, Accounts!NoJob

LEMMA AccountWithAt ==
    ASSUME NEW j, AccountJob(j), NEW s, NEW k, k = [j EXCEPT !.at = s]
    PROVE  AccountJob(k) /\ k.at = s /\ k.code = j.code /\ k.token = j.token /\ k.user = j.user
BY DEF AccountJob, AccountFields

LEMMA AccountWithCode ==
    ASSUME NEW j, AccountJob(j), NEW c, NEW k, k = [j EXCEPT !.code = c]
    PROVE  AccountJob(k) /\ k.at = j.at /\ k.code = c
BY DEF AccountJob, AccountFields

LEMMA AccountWithToken ==
    ASSUME NEW j, AccountJob(j), NEW t, NEW k, k = [j EXCEPT !.token = t]
    PROVE  AccountJob(k) /\ k.at = j.at /\ k.token = t
BY DEF AccountJob, AccountFields

LEMMA AccountWithUser ==
    ASSUME NEW j, AccountJob(j), NEW a, NEW k, k = [j EXCEPT !.user = a]
    PROVE  AccountJob(k) /\ k.at = j.at
BY DEF AccountJob, AccountFields

LEMMA AccountGoes ==
    ASSUME AccountRows, NEW h \in Handlers, NEW s, Accounts!Go(h, s)
    PROVE  \E j : Moves(h, j) /\ j.at = s /\ j.code = job[h].code /\ j.token = job[h].token
                  /\ j.user = job[h].user
<1>1. PICK k : k = [job[h] EXCEPT !.at = s]
  OBVIOUS
<1>2. AccountJob(job[h])
  BY DEF AccountRows
<1>3. AccountJob(k) /\ k.at = s /\ k.code = job[h].code /\ k.token = job[h].token
      /\ k.user = job[h].user
  BY <1>1, <1>2, AccountWithAt
<1>4. job' = [job EXCEPT ![h] = k]
  BY <1>1 DEF Accounts!Go, Accounts!Set
<1> QED BY <1>3, <1>4 DEF Moves

LEMMA AccountEnds ==
    ASSUME NEW h, Accounts!Done(h)
    PROVE  Moves(h, Accounts!NoJob)
BY AccountIdle DEF Accounts!Done, Accounts!Set, Moves

LEMMA AccountMoved ==
    ASSUME AccountRows, NEW h \in Handlers, NEW j, Moves(h, j)
    PROVE  AccountRows' /\ \A g \in Handlers : job'[g] = IF g = h THEN j ELSE job[g]
<1>1. \A g \in Handlers : job'[g] = IF g = h THEN j ELSE job[g]
  BY DEF AccountRows, Moves
<1>2. AccountRows'
  BY <1>1 DEF AccountRows, Moves
<1> QED BY <1>1, <1>2

(* Steps that leave the codes, the roles or the tokens alone. *)
LEMMA CodesGoOn ==
    ASSUME AccountsInv, NEW h \in Handlers, NEW j, Moves(h, j), UNCHANGED Accounts!codes,
           j.at \notin {"RESET", "MAIL", "DROP", "CLEAR"},
           j.at \in {"READ", "MARK"} => job[h].at \in Accounts!Verifying
    PROVE  CodesInv'
<1>1. \A g \in Handlers : job'[g] = IF g = h THEN j ELSE job[g]
  BY AccountMoved DEF AccountsInv
<1>2. ASSUME ~confused, NEW g \in Handlers PROVE CodeStands(g)'
  BY <1>1, <1>2 DEF AccountsInv, CodesInv, CodeStands, Accounts!codes, Accounts!Verifying
<1>3. ~confused => Accounts!MailedCodeWorks'
  BY DEF AccountsInv, CodesInv, Accounts!MailedCodeWorks, Accounts!codes
<1> QED BY <1>2, <1>3 DEF AccountsInv, CodesInv, Accounts!codes

LEMMA RolesGoOn ==
    ASSUME AccountsInv, NEW h \in Handlers, NEW j, Moves(h, j), UNCHANGED admins,
           together => together', j.at # "DEMOTE"
    PROVE  RolesInv'
<1>1. \A g \in Handlers : job'[g] = IF g = h THEN j ELSE job[g]
  BY AccountMoved DEF AccountsInv
<1> QED BY <1>1 DEF AccountsInv, RolesInv

LEMMA ResetsGoOn ==
    ASSUME AccountsInv, NEW h \in Handlers, NEW j, Moves(h, j), UNCHANGED Accounts!resets,
           together => together', j.at \notin {"PASSWORD", "TOKENS"}, job[h].at # "TOKENS"
    PROVE  ResetsInv'
<1>1. \A g \in Handlers : job'[g] = IF g = h THEN j ELSE job[g]
  BY AccountMoved DEF AccountsInv
<1>2. \A x : Deleting(x) => Deleting(x)'
  BY <1>1 DEF Deleting
<1>3. UNCHANGED <<tokens, issued, applied, spared>>
  BY DEF Accounts!resets
<1>4. \A g \in Handlers : job'[g].at \in {"PASSWORD", "TOKENS"} => job'[g] = job[g]
  BY <1>1
<1>6. ASSUME ~together', NEW x \in tokens', Spent(x)' PROVE Deleting(x)'
  <2>1. Spent(x)
    BY <1>3, <1>6 DEF Spent
  <2> QED BY <1>2, <1>3, <1>6, <2>1 DEF AccountsInv, ResetsInv
<1>7. ASSUME NEW g \in Handlers, ~together', job'[g].at = "PASSWORD", Spent(job[g].token)'
      PROVE  Deleting(job[g].token)'
  <2>1. PICK x : x = job[g].token
    OBVIOUS
  <2>2. job[g].at = "PASSWORD" /\ job'[g].token = x /\ Spent(x) /\ ~together
    BY <1>3, <1>4, <1>7, <2>1 DEF Spent
  <2>3. Deleting(x)
    BY <2>1, <2>2 DEF AccountsInv, ResetsInv
  <2>4. Deleting(x)'
    BY <1>2, <2>3
  <2> QED BY <2>2, <2>4 DEF Deleting
<1> QED BY <1>3, <1>4, <1>6, <1>7 DEF AccountsInv, ResetsInv

(* An address is looked up, a user is created, a code is asked for. *)
LEMMA AddressSteps ==
    ASSUME AccountsInv, NEW h \in Handlers,
           \/ Accounts!register(h) \/ Accounts!CreateUser(h)
           \/ Accounts!resendEmailVerification(h) \/ Accounts!CheckCooldown(h)
    PROVE  AccountsInv'
<1>1. UNCHANGED <<Accounts!codes, Accounts!resets, admins, together>>
  BY DEF Accounts!register, Accounts!CreateUser, Accounts!resendEmailVerification,
         Accounts!CheckCooldown
<1>2. job[h].at # "TOKENS"
  BY AccountIdle DEF Accounts!register, Accounts!CreateUser, Accounts!resendEmailVerification,
         Accounts!CheckCooldown, Accounts!At
<1>3. (\E s \in {"CREATE", "SEND", "STORE"} : Accounts!Go(h, s)) \/ Accounts!Done(h)
  BY DEF Accounts!register, Accounts!CreateUser, Accounts!resendEmailVerification,
         Accounts!CheckCooldown
<1>4. PICK j : Moves(h, j) /\ j.at \in {"CREATE", "SEND", "STORE", "IDLE"}
  BY <1>3, AccountGoes, AccountEnds, AccountIdle DEF AccountsInv
<1>5. CodesInv'
  BY <1>1, <1>4, CodesGoOn
<1>6. RolesInv'
  BY <1>1, <1>4, RolesGoOn
<1>7. ResetsInv'
  BY <1>1, <1>2, <1>4, ResetsGoOn
<1> QED BY <1>4, <1>5, <1>6, <1>7, AccountMoved DEF AccountsInv

(* A code is stored, its guesses are forgotten, it is mailed. *)
LEMMA SendingSteps ==
    ASSUME AccountsInv, NEW h \in Handlers,
           Accounts!StoreCode(h) \/ Accounts!ForgetAttempts(h) \/ Accounts!Mail(h)
    PROVE  AccountsInv'
<1>0. UNCHANGED <<Accounts!resets, admins, together>>
  BY DEF Accounts!StoreCode, Accounts!ForgetAttempts, Accounts!Mail
<1>1. job[h].at \in {"STORE", "RESET", "MAIL"}
  BY DEF Accounts!StoreCode, Accounts!ForgetAttempts, Accounts!Mail, Accounts!At
<1>2. ASSUME NEW j, Moves(h, j), j.at \in {"RESET", "MAIL", "IDLE"}, CodesInv'
      PROVE  AccountsInv'
  <2>1. RolesInv' /\ ResetsInv'
    BY <1>0, <1>1, <1>2, RolesGoOn, ResetsGoOn
  <2> QED BY <1>2, <2>1, AccountMoved DEF AccountsInv
<1>3. CASE Accounts!StoreCode(h)
  <2>1. PICK i : i = [job[h] EXCEPT !.at = "RESET"]
    OBVIOUS
  <2>2. PICK j : j = [i EXCEPT !.code = sent + 1]
    OBVIOUS
  <2>3. AccountJob(i) /\ i.at = "RESET"
    BY <2>1, AccountWithAt DEF AccountsInv, AccountRows
  <2>4. AccountJob(j) /\ j.at = "RESET" /\ j.code = sent + 1
    BY <2>2, <2>3, AccountWithCode
  <2>5. Moves(h, j)
    BY <1>3, <2>1, <2>2, <2>4 DEF Accounts!StoreCode, Accounts!Set, Moves
  <2>6. \A g \in Handlers : job'[g] = IF g = h THEN j ELSE job[g]
    BY <2>5, AccountMoved DEF AccountsInv
  <2>7. otp' = sent + 1 /\ due' = 0 /\ guesses' = 0 /\ UNCHANGED attempts
        /\ (~confused' => \A g \in Handlers \ {h} :
                             job[g].at \notin {"RESET", "MAIL"} \cup Accounts!Verifying)
    BY <1>3 DEF Accounts!StoreCode, Accounts!NoCodeDue, Accounts!Others, Accounts!Sending
  <2>8. ASSUME ~confused', NEW g \in Handlers PROVE CodeStands(g)'
    BY <2>4, <2>6, <2>7, <2>8 DEF CodeStands, Accounts!Verifying
  <2>9. CodesInv'
    BY <2>7, <2>8 DEF AccountsInv, CodesInv, Accounts!MailedCodeWorks
  <2> QED BY <1>2, <2>4, <2>5, <2>9
<1>4. CASE Accounts!ForgetAttempts(h)
  <2>1. PICK j : Moves(h, j) /\ j.at = "MAIL" /\ j.code = job[h].code
    BY <1>4, AccountGoes DEF Accounts!ForgetAttempts, AccountsInv
  <2>2. \A g \in Handlers : job'[g] = IF g = h THEN j ELSE job[g]
    BY <2>1, AccountMoved DEF AccountsInv
  <2>3. UNCHANGED <<otp, due, guesses, confused>> /\ attempts' = 0 /\ job[h].at = "RESET"
    BY <1>4 DEF Accounts!ForgetAttempts, Accounts!ResetAttempts, Accounts!At
  <2>4. ~confused => \A g \in Handlers : CodeStands(g)
    BY DEF AccountsInv, CodesInv
  <2>5. ASSUME ~confused, NEW g \in Handlers PROVE CodeStands(g)'
    BY <2>1, <2>2, <2>3, <2>4, <2>5 DEF CodeStands, Accounts!Verifying
  <2>6. ~confused => due = 0
    BY <2>3, <2>4 DEF CodeStands
  <2>7. CodesInv'
    BY <2>3, <2>5, <2>6 DEF AccountsInv, CodesInv, Accounts!MailedCodeWorks
  <2> QED BY <1>2, <2>1, <2>7
<1>5. CASE Accounts!Mail(h)
  <2>1. Moves(h, Accounts!NoJob)
    BY <1>5, AccountEnds DEF Accounts!Mail
  <2>2. \A g \in Handlers : job'[g] = IF g = h THEN Accounts!NoJob ELSE job[g]
    BY <2>1, AccountMoved DEF AccountsInv
  <2>3. UNCHANGED <<otp, attempts, confused>> /\ guesses' = 0 /\ due' \in {job[h].code, 0}
        /\ job[h].at = "MAIL"
    BY <1>5 DEF Accounts!Mail, Accounts!At
  <2>4. ~confused => CodeStands(h)
    BY DEF AccountsInv, CodesInv
  <2>5. ASSUME ~confused, NEW g \in Handlers PROVE CodeStands(g)'
    <3>1. g # h => job[g].at \notin {"RESET", "MAIL"} \cup Accounts!Verifying
      BY <2>3, <2>4, <2>5 DEF CodeStands
    <3> QED BY <2>2, <3>1, AccountIdle DEF CodeStands, Accounts!Verifying
  <2>6. ~confused => otp = job[h].code /\ attempts = 0
    BY <2>3, <2>4 DEF CodeStands
  <2>7. CodesInv'
    BY <2>3, <2>5, <2>6 DEF AccountsInv, CodesInv, Accounts!MailedCodeWorks
  <2> QED BY <1>2, <2>1, <2>7, AccountIdle
<1> QED BY <1>3, <1>4, <1>5

(* A code is guessed: counted, compared, then the address is verified and the code cleared. *)
LEMMA VerifyingSteps ==
    ASSUME AccountsInv, NEW h \in Handlers,
           \/ \E code \in 1..sent : Accounts!verifyEmail(h, code)
           \/ Accounts!DropCode(h) \/ Accounts!Compare(h) \/ Accounts!MarkVerified(h)
           \/ Accounts!ClearCode(h)
    PROVE  AccountsInv'
<1>0. UNCHANGED <<Accounts!resets, admins, together>>
  BY DEF Accounts!verifyEmail, Accounts!DropCode, Accounts!Compare, Accounts!MarkVerified,
         Accounts!ClearCode
<1>1. job[h].at \in {"IDLE"} \cup Accounts!Verifying
  BY AccountIdle DEF Accounts!verifyEmail, Accounts!DropCode, Accounts!Compare,
         Accounts!MarkVerified, Accounts!ClearCode, Accounts!At, Accounts!Verifying
<1>2. ASSUME NEW j, Moves(h, j), j.at \in {"IDLE"} \cup Accounts!Verifying, CodesInv'
      PROVE  AccountsInv'
  <2>1. RolesInv' /\ ResetsInv'
    BY <1>0, <1>1, <1>2, RolesGoOn, ResetsGoOn DEF Accounts!Verifying
  <2> QED BY <1>2, <2>1, AccountMoved DEF AccountsInv
<1>3. ~confused => Accounts!MailedCodeWorks /\ \A g \in Handlers : CodeStands(g)
  BY DEF AccountsInv, CodesInv
<1>4. ASSUME NEW code, Accounts!verifyEmail(h, code) PROVE AccountsInv'
  <2>1. attempts \in Nat /\ guesses \in Nat
    BY DEF AccountsInv, CodesInv
  <2>2. PICK j : /\ AccountJob(j) /\ job' = [job EXCEPT ![h] = j]
                 /\ j.at = IF attempts' > OTP_MAX_ATTEMPTS THEN "DROP" ELSE "READ"
    <3>1. CASE attempts' > OTP_MAX_ATTEMPTS
      <4>1. PICK j : j = [Accounts!NoJob EXCEPT !.at = "DROP"]
        OBVIOUS
      <4>2. AccountJob(j) /\ j.at = "DROP"
        BY <4>1, AccountIdle, AccountWithAt
      <4> QED BY <1>4, <3>1, <4>1, <4>2 DEF Accounts!verifyEmail, Accounts!Set
    <3>2. CASE ~(attempts' > OTP_MAX_ATTEMPTS)
      <4>1. PICK i : i = [Accounts!NoJob EXCEPT !.at = "READ"]
        OBVIOUS
      <4>2. PICK j : j = [i EXCEPT !.code = code]
        OBVIOUS
      <4>3. AccountJob(i) /\ i.at = "READ"
        BY <4>1, AccountIdle, AccountWithAt
      <4>4. AccountJob(j) /\ j.at = "READ"
        BY <4>2, <4>3, AccountWithCode
      <4> QED BY <1>4, <3>2, <4>1, <4>2, <4>4 DEF Accounts!verifyEmail, Accounts!Set
    <3> QED BY <3>1, <3>2
  <2>5. Moves(h, j)
    BY <2>2 DEF Moves
  <2>6. \A g \in Handlers : job'[g] = IF g = h THEN j ELSE job[g]
    BY <2>5, AccountMoved DEF AccountsInv
  <2>7. /\ UNCHANGED <<otp, due>>
        /\ attempts' = IF attempts < OTP_MAX_ATTEMPTS + 1 THEN attempts + 1 ELSE OTP_MAX_ATTEMPTS + 1
        /\ guesses' = IF due = 0 THEN guesses
                      ELSE IF guesses < OTP_MAX_ATTEMPTS THEN guesses + 1 ELSE OTP_MAX_ATTEMPTS
    BY <1>4 DEF Accounts!verifyEmail, Accounts!OneMore
  <2>8. ~confused' => ~confused /\ \A g \in Handlers \ {h} : job[g].at \notin {"RESET", "MAIL"}
    BY <1>4 DEF Accounts!verifyEmail, Accounts!Others, Accounts!Sending
  <2>9. attempts' \in Nat /\ guesses' \in Nat
        /\ (guesses >= OTP_MAX_ATTEMPTS => guesses' >= OTP_MAX_ATTEMPTS)
    BY <2>1, <2>7, AccountLimits
  <2>10. ASSUME ~confused', due # 0, guesses' < OTP_MAX_ATTEMPTS
         PROVE  otp = due /\ attempts' <= guesses' /\ attempts' <= OTP_MAX_ATTEMPTS
    <3>1. PICK m \in Nat, n \in Nat : m = guesses /\ n = attempts
      BY <2>1
    <3>2. m < OTP_MAX_ATTEMPTS /\ guesses' = m + 1
      BY <2>7, <2>10, <3>1, AccountLimits
    <3>3. otp = due /\ n <= m
      BY <1>3, <2>8, <2>10, <3>1, <3>2 DEF Accounts!MailedCodeWorks
    <3>4. attempts' = n + 1
      BY <2>7, <3>1, <3>2, <3>3, AccountLimits
    <3> QED BY <2>10, <3>2, <3>3, <3>4, AccountLimits
  <2>11. ~confused' /\ attempts' > OTP_MAX_ATTEMPTS => due = 0 \/ guesses' >= OTP_MAX_ATTEMPTS
    BY <2>9, <2>10, AccountLimits
  <2>12. ASSUME ~confused', NEW g \in Handlers PROVE CodeStands(g)'
    <3>1. CASE g = h
      BY <2>2, <2>6, <2>7, <2>11, <2>12, <3>1 DEF CodeStands
    <3>2. CASE g # h
      BY <1>3, <2>6, <2>7, <2>8, <2>9, <2>12, <3>2 DEF CodeStands
    <3> QED BY <3>1, <3>2
  <2>13. CodesInv'
    BY <2>7, <2>9, <2>10, <2>12 DEF CodesInv, Accounts!MailedCodeWorks
  <2> QED BY <1>2, <2>2, <2>5, <2>13 DEF Accounts!Verifying
<1>5. CASE Accounts!DropCode(h) \/ Accounts!ClearCode(h)
  <2>1. Moves(h, Accounts!NoJob)
    BY <1>5, AccountEnds DEF Accounts!DropCode, Accounts!ClearCode
  <2>2. \A g \in Handlers : job'[g] = IF g = h THEN Accounts!NoJob ELSE job[g]
    BY <2>1, AccountMoved DEF AccountsInv
  <2>3. UNCHANGED <<due, guesses, confused>> /\ attempts' \in {0, attempts}
        /\ job[h].at \in {"DROP", "CLEAR"}
    BY <1>5 DEF Accounts!DropCode, Accounts!ClearCode, Accounts!At
  <2>4. ~confused => /\ due = 0 \/ guesses >= OTP_MAX_ATTEMPTS
                     /\ \A g \in Handlers : g # h => job[g].at \notin {"RESET", "MAIL"}
    BY <1>3, <2>3 DEF CodeStands, Accounts!Verifying
  <2>5. ASSUME ~confused, NEW g \in Handlers PROVE CodeStands(g)'
    BY <1>3, <2>2, <2>3, <2>4, <2>5, AccountIdle DEF CodeStands
  <2>6. ~confused => Accounts!MailedCodeWorks'
    BY <2>3, <2>4, AccountLimits DEF Accounts!MailedCodeWorks, AccountsInv, CodesInv
  <2>7. CodesInv'
    BY <2>3, <2>5, <2>6 DEF AccountsInv, CodesInv
  <2> QED BY <1>2, <2>1, <2>7, AccountIdle
<1>6. CASE Accounts!Compare(h)
  <2>1. PICK j : Moves(h, j) /\ j.at \in {"MARK", "IDLE"}
    <3>1. CASE otp # 0 /\ otp = job[h].code
      <4>1. PICK j : j = [Accounts!NoJob EXCEPT !.at = "MARK"]
        OBVIOUS
      <4>2. AccountJob(j) /\ j.at = "MARK"
        BY <4>1, AccountIdle, AccountWithAt
      <4> QED BY <1>6, <3>1, <4>1, <4>2 DEF Accounts!Compare, Accounts!Set, Moves
    <3>2. CASE ~(otp # 0 /\ otp = job[h].code)
      BY <1>6, <3>2, AccountEnds, AccountIdle DEF Accounts!Compare
    <3> QED BY <3>1, <3>2
  <2>2. UNCHANGED Accounts!codes /\ job[h].at \in Accounts!Verifying
    BY <1>6 DEF Accounts!Compare, Accounts!At, Accounts!Verifying
  <2>3. CodesInv'
    BY <2>1, <2>2, CodesGoOn
  <2> QED BY <1>2, <2>1, <2>3 DEF Accounts!Verifying
<1>7. CASE Accounts!MarkVerified(h)
  <2>1. PICK j : Moves(h, j) /\ j.at = "CLEAR"
    BY <1>7, AccountGoes DEF Accounts!MarkVerified, AccountsInv
  <2>2. \A g \in Handlers : job'[g] = IF g = h THEN j ELSE job[g]
    BY <2>1, AccountMoved DEF AccountsInv
  <2>3. UNCHANGED <<otp, attempts, confused>> /\ due' = 0 /\ guesses' = 0
        /\ job[h].at \in Accounts!Verifying
    BY <1>7 DEF Accounts!MarkVerified, Accounts!NoCodeDue, Accounts!At, Accounts!Verifying
  <2>4. ASSUME ~confused, NEW g \in Handlers PROVE CodeStands(g)'
    BY <1>3, <2>1, <2>2, <2>3, <2>4 DEF CodeStands, Accounts!Verifying
  <2>5. CodesInv'
    BY <2>3, <2>4 DEF AccountsInv, CodesInv, Accounts!MailedCodeWorks
  <2> QED BY <1>2, <2>1, <2>5 DEF Accounts!Verifying
<1> QED BY <1>4, <1>5, <1>6, <1>7

(* A link is found, sets the password, and all links of the user go. *)
LEMMA PasswordSteps ==
    ASSUME AccountsInv, NEW h \in Handlers,
           \/ \E t \in tokens : Accounts!FindToken(h, t)
           \/ Accounts!SetPassword(h) \/ Accounts!DeleteTokens(h)
    PROVE  AccountsInv'
<1>5. UNCHANGED <<Accounts!codes, admins>>
  BY DEF Accounts!FindToken, Accounts!SetPassword, Accounts!DeleteTokens
<1>6. together => together'
  BY DEF Accounts!FindToken, Accounts!SetPassword, Accounts!DeleteTokens
<1>0. UNCHANGED <<Accounts!codes, admins>> /\ (together => together')
  BY <1>5, <1>6
<1>1. ASSUME NEW j, Moves(h, j), j.at \in {"PASSWORD", "TOKENS", "IDLE"}, ResetsInv'
      PROVE  AccountsInv'
  <2>1. CodesInv' /\ RolesInv'
    BY <1>0, <1>1, CodesGoOn, RolesGoOn
  <2> QED BY <1>1, <2>1, AccountMoved DEF AccountsInv
<1>2. ASSUME NEW t \in tokens, Accounts!FindToken(h, t) PROVE AccountsInv'
  <2>1. PICK i : i = [Accounts!NoJob EXCEPT !.at = "PASSWORD"]
    OBVIOUS
  <2>2. PICK j : j = [i EXCEPT !.token = t]
    OBVIOUS
  <2>3. AccountJob(i) /\ i.at = "PASSWORD"
    BY <2>1, AccountIdle, AccountWithAt
  <2>4. AccountJob(j) /\ j.at = "PASSWORD" /\ j.token = t
    BY <2>2, <2>3, AccountWithToken
  <2>5. Moves(h, j)
    BY <1>2, <2>1, <2>2, <2>4 DEF Accounts!FindToken, Accounts!Set, Moves
  <2>6. \A g \in Handlers : job'[g] = IF g = h THEN j ELSE job[g]
    BY <2>5, AccountMoved DEF AccountsInv
  <2>7. UNCHANGED <<tokens, issued, applied, spared, together>> /\ job[h].at = "IDLE"
    BY <1>2, AccountIdle DEF Accounts!FindToken, Accounts!resets
  <2>8. \A x : (Deleting(x) => Deleting(x)') /\ (Spent(x)' <=> Spent(x))
    BY <2>6, <2>7 DEF Deleting, Spent
  <2>10. ASSUME ~together, NEW g \in Handlers, job'[g].at = "PASSWORD", NEW x, x = job'[g].token,
                Spent(x)
         PROVE  Deleting(x)
    BY <2>4, <2>6, <2>10 DEF AccountsInv, ResetsInv
  <2>11. ASSUME ~together, NEW g \in Handlers, job'[g].at = "PASSWORD", Spent(job[g].token)'
         PROVE  Deleting(job[g].token)'
    <3>1. PICK x : x = job'[g].token
      OBVIOUS
    <3>2. Spent(x)'
      BY <2>11, <3>1 DEF Spent
    <3>3. Deleting(x)'
      BY <2>8, <2>10, <2>11, <3>1, <3>2
    <3> QED BY <3>1, <3>3 DEF Deleting
  <2>9. ResetsInv'
    BY <2>4, <2>6, <2>7, <2>8, <2>11 DEF AccountsInv, ResetsInv
  <2> QED BY <1>1, <2>4, <2>5, <2>9
<1>3. CASE Accounts!SetPassword(h)
  <2>1. PICK j : Moves(h, j) /\ j.at = "TOKENS" /\ j.token = job[h].token
    BY <1>3, AccountGoes DEF Accounts!SetPassword, AccountsInv
  <2>2. \A g \in Handlers : job'[g] = IF g = h THEN j ELSE job[g]
    BY <2>1, AccountMoved DEF AccountsInv
  <2>4. PICK t : t = job[h].token
    OBVIOUS
  <2>3. Deleting(t)'
    BY <2>1, <2>2, <2>4 DEF Deleting
  <2>5. UNCHANGED <<tokens, issued, spared>> /\ job[h].at = "PASSWORD"
        /\ applied' = [applied EXCEPT ![t] = @ + 1]
    BY <1>3, <2>4 DEF Accounts!SetPassword, Accounts!At
  <2>6. t \in 1..issued /\ issued \in 0..MaxResets
    BY <2>4, <2>5 DEF AccountsInv, ResetsInv
  <2>7. t \in 1..MaxResets /\ issued \in Nat
    BY <2>6, AccountLimits
  <2>8. ~together' => ~together /\ \A g \in Handlers \ {h} : job[g].at \notin {"PASSWORD", "TOKENS"}
    BY <1>3 DEF Accounts!SetPassword, Accounts!Others
  <2>9. ~together' => \A x : ~Deleting(x)
    BY <2>5, <2>8 DEF Deleting
  <2>10. /\ applied' \in [1..MaxResets -> Nat] /\ applied \in [1..MaxResets -> Nat]
         /\ spared \in [1..MaxResets -> Nat]
         /\ \A x \in 1..MaxResets : applied'[x] = IF x # t THEN applied[x] ELSE applied[t] + 1
    BY <2>5, <2>7 DEF AccountsInv, ResetsInv
  <2>11. \A x \in 1..MaxResets : x > issued => applied'[x] = 0
    BY <2>6, <2>10, AccountLimits DEF AccountsInv, ResetsInv
  <2>12. ~together' => ~Spent(t)
    BY <2>4, <2>5, <2>8, <2>9 DEF AccountsInv, ResetsInv
  <2>15. ~together' => \A x \in 1..MaxResets : applied'[x] <= 1 + spared[x]
    BY <2>7, <2>8, <2>10, <2>12 DEF AccountsInv, ResetsInv, Spent
  <2>16. ~together' => \A x \in tokens' : Spent(x)' => Deleting(x)'
    <3>1. tokens \subseteq 1..MaxResets
      BY <2>7, AccountLimits DEF AccountsInv, ResetsInv
    <3>2. ASSUME ~together', NEW x \in tokens, x # t PROVE ~Spent(x)'
      <4>1. ~Spent(x)
        BY <2>8, <2>9, <3>2 DEF AccountsInv, ResetsInv
      <4> QED BY <2>5, <2>10, <3>1, <3>2, <4>1 DEF Spent
    <3> QED BY <2>3, <2>5, <3>2
  <2>17. ~together' => \A g \in Handlers : job'[g].at # "PASSWORD"
    BY <2>1, <2>2, <2>8
  <2>13. \A g \in Handlers : job'[g].at \in {"PASSWORD", "TOKENS"} => job'[g].token \in 1..issued'
    BY <2>1, <2>2, <2>4, <2>5, <2>6 DEF AccountsInv, ResetsInv
  <2>14. ResetsInv'
    BY <2>5, <2>6, <2>10, <2>11, <2>13, <2>15, <2>16, <2>17 DEF AccountsInv, ResetsInv
  <2> QED BY <1>1, <2>1, <2>14
<1>4. CASE Accounts!DeleteTokens(h)
  <2>1. Moves(h, Accounts!NoJob)
    BY <1>4, AccountEnds DEF Accounts!DeleteTokens
  <2>2. \A g \in Handlers : job'[g] = IF g = h THEN Accounts!NoJob ELSE job[g]
    BY <2>1, AccountMoved DEF AccountsInv
  <2>3. tokens' = {} /\ UNCHANGED <<issued, applied, spared>>
    BY <1>4 DEF Accounts!DeleteTokens, Accounts!AllTokens
  <2>4. ~together' => ~together /\ \A g \in Handlers : job'[g].at # "PASSWORD"
    BY <1>4, <2>2, AccountIdle DEF Accounts!DeleteTokens, Accounts!Others
  <2>5. \A g \in Handlers : job'[g].at \in {"PASSWORD", "TOKENS"} => job'[g].token \in 1..issued'
    BY <2>2, <2>3, AccountIdle DEF AccountsInv, ResetsInv
  <2>6. ResetsInv'
    BY <2>3, <2>4, <2>5 DEF AccountsInv, ResetsInv
  <2> QED BY <1>1, <2>1, <2>6, AccountIdle
<1> QED BY <1>2, <1>3, <1>4

(* An administrator is let in, the role is read, the row is written. *)
LEMMA RoleSteps ==
    ASSUME AccountsInv, NEW h \in Handlers,
           \/ \E actor, x \in Admins, role \in Accounts!Roles :
                 Accounts!RolesGuard(h, actor, x, role)
           \/ Accounts!CheckRole(h) \/ Accounts!updateByAdmin(h)
    PROVE  AccountsInv'
<1>5. UNCHANGED <<Accounts!codes, Accounts!resets>>
  BY DEF Accounts!RolesGuard, Accounts!CheckRole, Accounts!updateByAdmin
<1>6. together => together'
  BY DEF Accounts!RolesGuard, Accounts!CheckRole, Accounts!updateByAdmin
<1>7. job[h].at \notin {"TOKENS", "READ", "MARK"}
  BY AccountIdle DEF Accounts!RolesGuard, Accounts!CheckRole, Accounts!updateByAdmin, Accounts!At
<1>0. UNCHANGED <<Accounts!codes, Accounts!resets>> /\ (together => together')
      /\ job[h].at \notin {"TOKENS", "READ", "MARK"}
  BY <1>5, <1>6, <1>7
<1>1. ASSUME NEW j, Moves(h, j), j.at \in {"ROLE", "PROMOTE", "DEMOTE", "IDLE"}, RolesInv'
      PROVE  AccountsInv'
  <2>1. CodesInv' /\ ResetsInv'
    BY <1>0, <1>1, CodesGoOn, ResetsGoOn
  <2> QED BY <1>1, <2>1, AccountMoved DEF AccountsInv
<1>2. ASSUME NEW actor, NEW x, NEW role, Accounts!RolesGuard(h, actor, x, role)
      PROVE  AccountsInv'
  <2>0. PICK s \in {"ROLE", "PROMOTE"} : s = IF role = "USER" THEN "ROLE" ELSE "PROMOTE"
    OBVIOUS
  <2>1. PICK i : i = [Accounts!NoJob EXCEPT !.at = s]
    OBVIOUS
  <2>2. PICK j : j = [i EXCEPT !.user = x]
    OBVIOUS
  <2>3. AccountJob(i) /\ i.at = s
    BY <2>1, AccountIdle, AccountWithAt
  <2>4. AccountJob(j) /\ j.at = s
    BY <2>2, <2>3, AccountWithUser
  <2>5. Moves(h, j) /\ UNCHANGED admins
    BY <1>2, <2>0, <2>1, <2>2, <2>4 DEF Accounts!RolesGuard, Accounts!Set, Moves
  <2> QED BY <1>0, <1>1, <2>0, <2>4, <2>5, RolesGoOn
<1>3. CASE Accounts!CheckRole(h)
  <2>0. UNCHANGED <<admins, together>>
    BY <1>3 DEF Accounts!CheckRole
  <2>1. CASE ~(job[h].user \notin admins \/ Accounts!NotTheLast)
    BY <1>0, <1>1, <1>3, <2>0, <2>1, AccountEnds, AccountIdle, RolesGoOn DEF Accounts!CheckRole
  <2>2. CASE job[h].user \notin admins \/ Accounts!NotTheLast
    <3>1. PICK j : Moves(h, j) /\ j.at = "DEMOTE" /\ j.user = job[h].user
      BY <1>3, <2>2, AccountGoes DEF Accounts!CheckRole, AccountsInv
    <3>2. \A g \in Handlers : job'[g] = IF g = h THEN j ELSE job[g]
      BY <3>1, AccountMoved DEF AccountsInv
    <3>3. ~together => \E a \in admins : a # j.user
      <4>1. CASE job[h].user \notin admins
        BY <3>1, <4>1 DEF AccountsInv, RolesInv
      <4>2. CASE Accounts!NotTheLast
        <5>1. Cardinality({j.user}) = 1 /\ Cardinality({}) = 0
          BY FS_Singleton, FS_EmptySet
        <5>2. admins # {j.user} /\ admins # {}
          BY <4>2, <5>1, AccountsCardinality DEF Accounts!NotTheLast
        <5> QED BY <5>2
      <4> QED BY <2>2, <4>1, <4>2
    <3>4. RolesInv'
      BY <2>0, <3>1, <3>2, <3>3 DEF AccountsInv, RolesInv
    <3> QED BY <1>1, <3>1, <3>4
  <2> QED BY <2>1, <2>2
<1>4. CASE Accounts!updateByAdmin(h)
  <2>1. Moves(h, Accounts!NoJob)
    BY <1>4, AccountEnds DEF Accounts!updateByAdmin
  <2>2. \A g \in Handlers : job'[g] = IF g = h THEN Accounts!NoJob ELSE job[g]
    BY <2>1, AccountMoved DEF AccountsInv
  <2>3. ~together' => ~together /\ \A g \in Handlers : job'[g].at # "DEMOTE"
    BY <1>4, <2>2, AccountIdle DEF Accounts!updateByAdmin, Accounts!Others
  <2>4. \/ admins' = admins \cup {job[h].user} /\ job[h].user \in admins'
        \/ job[h].at = "DEMOTE" /\ admins' = admins \ {job[h].user}
    BY <1>4 DEF Accounts!updateByAdmin, Accounts!At
  <2>5. ~together' => admins' # {}
    BY <2>3, <2>4 DEF AccountsInv, RolesInv
  <2>6. RolesInv'
    BY <2>3, <2>5 DEF RolesInv
  <2> QED BY <1>1, <2>1, <2>6, AccountIdle
<1> QED BY <1>2, <1>3, <1>4

(* A request dies. *)
LEMMA AccountsCrash ==
    ASSUME AccountsInv, NEW h \in Handlers, Accounts!Crash(h)
    PROVE  AccountsInv'
<1>1. Moves(h, Accounts!NoJob)
  BY AccountEnds DEF Accounts!Crash
<1>2. \A g \in Handlers : job'[g] = IF g = h THEN Accounts!NoJob ELSE job[g]
  BY <1>1, AccountMoved DEF AccountsInv
<1>3. UNCHANGED <<otp, attempts, due, guesses, confused, tokens, issued, applied, admins, together>>
  BY DEF Accounts!Crash
<1>4. CodesInv'
  <2>1. ASSUME ~confused, NEW g \in Handlers PROVE CodeStands(g)'
    BY <1>2, <1>3, <2>1, AccountIdle DEF AccountsInv, CodesInv, CodeStands, Accounts!Verifying
  <2> QED BY <1>3, <2>1 DEF AccountsInv, CodesInv, Accounts!MailedCodeWorks
<1>5. RolesInv'
  BY <1>1, <1>3, AccountIdle, RolesGoOn
<1>6. ResetsInv'
  <2>1. PICK t : t = job[h].token
    OBVIOUS
  <2>2. /\ job[h].at = "TOKENS" => spared' = [spared EXCEPT ![t] = @ + 1]
        /\ job[h].at # "TOKENS" => spared' = spared
    BY <2>1 DEF Accounts!Crash, Accounts!At
  <2>3. spared' \in [1..MaxResets -> Nat] /\ spared \in [1..MaxResets -> Nat]
        /\ applied \in [1..MaxResets -> Nat] /\ tokens \subseteq 1..MaxResets
    <3>1. /\ spared \in [1..MaxResets -> Nat] /\ applied \in [1..MaxResets -> Nat]
          /\ tokens \subseteq 1..MaxResets
      BY AccountLimits, SMTT(30) DEF AccountsInv, ResetsInv
    <3>2. CASE job[h].at = "TOKENS"
      BY <2>2, <3>1, <3>2, SMTT(30)
    <3>3. CASE job[h].at # "TOKENS"
      BY <2>2, <3>1, <3>3
    <3> QED BY <3>1, <3>2, <3>3
  <2>4. \A x \in 1..MaxResets :
          /\ spared'[x] >= spared[x]
          /\ job[h].at = "TOKENS" /\ x = t => spared'[x] = spared[x] + 1
    BY <2>2, <2>3
  <2>5. \A g \in Handlers : job'[g].at \in {"PASSWORD", "TOKENS"} => g # h /\ job'[g] = job[g]
    BY <1>2, AccountIdle
  <2>6. ASSUME ~together, NEW x \in 1..MaxResets, Spent(x)', Deleting(x) PROVE Deleting(x)'
    <3>1. PICK g \in Handlers : job[g].at = "TOKENS" /\ job[g].token = x
      BY <2>6 DEF Deleting
    <3>2. g # h
      <4>1. applied[x] <= 1 + spared[x]
        BY <2>6 DEF AccountsInv, ResetsInv
      <4>2. applied[x] > spared'[x]
        BY <1>3, <2>6 DEF Spent
      <4>3. applied[x] \in Nat /\ spared[x] \in Nat
        BY <2>3, <2>6
      <4>4. ~(job[h].at = "TOKENS" /\ x = t)
        BY <2>4, <2>6, <4>1, <4>2, <4>3, SMTT(30)
      <4> QED BY <2>1, <3>1, <4>4
    <3> QED BY <1>2, <3>1, <3>2 DEF Deleting
  <2>7. ASSUME NEW x \in 1..MaxResets, Spent(x)' PROVE Spent(x)
    <3>1. applied[x] > spared'[x] /\ spared'[x] >= spared[x]
      BY <1>3, <2>4, <2>7 DEF Spent
    <3>2. applied[x] \in Nat /\ spared[x] \in Nat /\ spared'[x] \in Nat
      BY <2>3
    <3> QED BY <3>1, <3>2, SMTT(30) DEF Spent
  <2>8. ASSUME ~together, NEW x \in 1..MaxResets PROVE applied[x] <= 1 + spared'[x]
    <3>1. applied[x] <= 1 + spared[x]
      BY <2>8 DEF AccountsInv, ResetsInv
    <3>2. applied[x] \in Nat /\ spared[x] \in Nat /\ spared'[x] \in Nat /\ spared'[x] >= spared[x]
      BY <2>3, <2>4
    <3> QED BY <3>1, <3>2, SMTT(30)
  <2>9. ~together => \A x \in tokens : Spent(x)' => Deleting(x)'
    BY <2>3, <2>6, <2>7 DEF AccountsInv, ResetsInv
  <2>10. ASSUME ~together, NEW g \in Handlers, job'[g].at = "PASSWORD", Spent(job[g].token)'
         PROVE  Deleting(job[g].token)'
    <3>1. PICK x : x = job[g].token
      OBVIOUS
    <3>2. job[g].at = "PASSWORD" /\ job'[g] = job[g]
      BY <2>5, <2>10
    <3>3. x \in 1..MaxResets
      BY <3>1, <3>2, AccountLimits DEF AccountsInv, ResetsInv
    <3>4. Spent(x)'
      BY <2>10, <3>1, <3>2 DEF Spent
    <3>5. Deleting(x)
      BY <2>7, <2>10, <3>1, <3>2, <3>3, <3>4 DEF AccountsInv, ResetsInv
    <3>6. Deleting(x)'
      BY <2>6, <2>10, <3>3, <3>4, <3>5
    <3> QED BY <3>1, <3>2, <3>6 DEF Deleting
  <2>11. \A g \in Handlers : job'[g].at \in {"PASSWORD", "TOKENS"} => job'[g].token \in 1..issued
    BY <2>5 DEF AccountsInv, ResetsInv
  <2> QED BY <1>3, <2>3, <2>8, <2>9, <2>10, <2>11 DEF AccountsInv, ResetsInv
<1> QED BY <1>1, <1>4, <1>5, <1>6, AccountMoved DEF AccountsInv

(* What no request does: a login at Google, time, a link that is asked for or expires. *)
LEMMA OutsideSteps ==
    ASSUME AccountsInv,
           \/ Accounts!handleGoogleLogin \/ Accounts!CooldownEnds \/ Accounts!CodeExpires
           \/ Accounts!forgotPassword \/ \E t \in tokens : Accounts!TokenExpires(t)
    PROVE  AccountsInv'
<1>1. UNCHANGED <<job, admins, together, applied, spared, confused>>
  BY DEF Accounts!handleGoogleLogin, Accounts!CooldownEnds, Accounts!CodeExpires,
         Accounts!forgotPassword, Accounts!TokenExpires, Accounts!resets, Accounts!codes
<1>2. AccountRows' /\ RolesInv' /\ \A x : (Deleting(x) <=> Deleting(x)') /\ (Spent(x) <=> Spent(x)')
  BY <1>1 DEF AccountsInv, AccountRows, RolesInv, Deleting, Spent
<1>3. CASE Accounts!handleGoogleLogin \/ Accounts!CooldownEnds \/ Accounts!CodeExpires
  <2>1. UNCHANGED <<tokens, issued>>
    BY <1>3 DEF Accounts!handleGoogleLogin, Accounts!CooldownEnds, Accounts!CodeExpires,
                Accounts!resets
  <2>2. ResetsInv'
    BY <1>1, <2>1 DEF AccountsInv, ResetsInv, Deleting, Spent
  <2>3. attempts' \in {0, attempts} /\ due' \in {0, due} /\ attempts' \in Nat /\ guesses' \in Nat
    BY <1>3 DEF Accounts!handleGoogleLogin, Accounts!CooldownEnds, Accounts!CodeExpires,
                Accounts!NoCodeDue, AccountsInv, CodesInv
  <2>4. \/ UNCHANGED otp /\ (due' = 0 \/ UNCHANGED <<due, guesses>>)
        \/ due' = 0 /\ \A h \in Handlers : job[h].at \notin {"RESET", "MAIL"}
    BY <1>3 DEF Accounts!handleGoogleLogin, Accounts!CooldownEnds, Accounts!CodeExpires,
                Accounts!NoCodeDue, Accounts!Sending
  <2>5. ASSUME ~confused, NEW h \in Handlers PROVE CodeStands(h)'
    BY <1>1, <2>3, <2>4, <2>5 DEF AccountsInv, CodesInv, CodeStands
  <2>6. ~confused => Accounts!MailedCodeWorks'
    BY <1>1, <2>3, <2>4, AccountLimits DEF AccountsInv, CodesInv, Accounts!MailedCodeWorks
  <2>7. CodesInv'
    BY <1>1, <2>3, <2>5, <2>6 DEF AccountsInv, CodesInv
  <2> QED BY <1>2, <2>2, <2>7 DEF AccountsInv
<1>4. CASE Accounts!forgotPassword \/ \E t \in tokens : Accounts!TokenExpires(t)
  <2>1. UNCHANGED Accounts!codes
    BY <1>4 DEF Accounts!forgotPassword, Accounts!TokenExpires
  <2>2. CodesInv'
    BY <1>1, <2>1 DEF AccountsInv, CodesInv, CodeStands, Accounts!codes, Accounts!MailedCodeWorks
  <2>3. \/ issued' = issued + 1 /\ tokens' = tokens \cup {issued + 1} /\ issued < MaxResets
        \/ issued' = issued /\ tokens' \subseteq tokens
    BY <1>4 DEF Accounts!forgotPassword, Accounts!TokenExpires
  <2>4. PICK n \in Nat : n = issued /\ n <= MaxResets
    BY AccountLimits DEF AccountsInv, ResetsInv
  <2>9. tokens \subseteq 1..n
    BY <2>4 DEF AccountsInv, ResetsInv
  <2>10. \/ issued' = n + 1 /\ tokens' = tokens \cup {n + 1} /\ n < MaxResets
         \/ issued' = n /\ tokens' \subseteq tokens
    BY <2>3, <2>4
  <2>11. MaxResets \in Nat /\ 1..n \subseteq 1..(n + 1) /\ n + 1 \in 1..(n + 1)
    BY AccountLimits
  <2>5. issued' \in 0..MaxResets /\ tokens' \subseteq 1..issued' /\ 1..n \subseteq 1..issued'
    <3>1. CASE issued' = n + 1 /\ tokens' = tokens \cup {n + 1} /\ n < MaxResets
      <4>1. n + 1 \in 0..MaxResets
        BY <2>4, <2>11, <3>1
      <4>2. tokens' \subseteq 1..(n + 1)
        BY <2>9, <2>11, <3>1
      <4> QED BY <2>11, <3>1, <4>1, <4>2
    <3>2. CASE issued' = n /\ tokens' \subseteq tokens
      <4>1. n \in 0..MaxResets
        BY <2>4, <2>11
      <4> QED BY <2>9, <3>2, <4>1
    <3> QED BY <2>10, <3>1, <3>2
  <2>6. \A t \in 1..MaxResets : t > issued' => applied[t] = 0
    BY <2>3, <2>4, AccountLimits DEF AccountsInv, ResetsInv
  <2>7. \A t \in tokens' : t \in tokens \/ ~Spent(t)
    <3>1. CASE issued' = issued /\ tokens' \subseteq tokens
      BY <3>1
    <3>2. CASE issued' = issued + 1 /\ tokens' = tokens \cup {issued + 1} /\ issued < MaxResets
      <4>1. n + 1 \in 1..MaxResets /\ n + 1 > n
        BY <2>4, <3>2, AccountLimits
      <4>2. applied[n + 1] = 0
        BY <2>4, <4>1 DEF AccountsInv, ResetsInv
      <4>3. ~Spent(n + 1)
        BY <4>1, <4>2 DEF AccountsInv, ResetsInv, Spent
      <4> QED BY <2>4, <3>2, <4>3
    <3> QED BY <2>3, <3>1, <3>2
  <2>12. ~together' => \A t \in tokens' : Spent(t)' => Deleting(t)'
    BY <1>1, <1>2, <2>7 DEF AccountsInv, ResetsInv
  <2>13. ASSUME ~together', NEW h \in Handlers, job'[h].at = "PASSWORD", Spent(job[h].token)'
         PROVE  Deleting(job[h].token)'
    BY <1>1, <2>13 DEF AccountsInv, ResetsInv, Deleting, Spent
  <2>14. \A h \in Handlers : job'[h].at \in {"PASSWORD", "TOKENS"} => job'[h].token \in 1..issued'
    BY <1>1, <2>4, <2>5 DEF AccountsInv, ResetsInv
  <2>8. ResetsInv'
    BY <1>1, <2>5, <2>6, <2>12, <2>13, <2>14 DEF AccountsInv, ResetsInv
  <2> QED BY <1>2, <2>2, <2>8 DEF AccountsInv
<1> QED BY <1>3, <1>4

LEMMA AccountsStart == Accounts!Init => AccountsInv
<1> SUFFICES ASSUME Accounts!Init PROVE AccountsInv
  OBVIOUS
<1>1. \A h \in Handlers : job[h] = Accounts!NoJob /\ job[h].at = "IDLE"
  BY AccountIdle DEF Accounts!Init
<1>2. AccountRows
  BY <1>1, AccountIdle DEF Accounts!Init, AccountRows
<1>3. CodesInv
  BY <1>1 DEF Accounts!Init, CodesInv, CodeStands, Accounts!MailedCodeWorks
<1>4. RolesInv
  BY <1>1, AccountLimits DEF Accounts!Init, RolesInv
<1>5. ResetsInv
  BY <1>1, AccountLimits DEF Accounts!Init, ResetsInv, Spent
<1> QED BY <1>2, <1>3, <1>4, <1>5 DEF AccountsInv

LEMMA AccountsStep == ASSUME AccountsInv, [Accounts!Next]_(Accounts!vars) PROVE AccountsInv'
<1>1. CASE UNCHANGED Accounts!vars
  BY <1>1 DEF Accounts!vars, AccountsInv, AccountRows, CodesInv, CodeStands, RolesInv, ResetsInv,
              Deleting, Spent, Accounts!MailedCodeWorks
<1> QED BY <1>1, AddressSteps, SendingSteps, VerifyingSteps, PasswordSteps, RoleSteps,
           AccountsCrash, OutsideSteps
    DEF Accounts!Next

LEMMA AccountsShown == AccountsInv => Accounts!NobodyLockedOut
<1> SUFFICES ASSUME AccountsInv PROVE Accounts!NobodyLockedOut
  OBVIOUS
<1>1. Accounts!MailedCodeWorks
  BY DEF AccountsInv, CodesInv, Accounts!MailedCodeWorks
<1>2. Accounts!AdminRemains
  BY DEF AccountsInv, RolesInv, Accounts!AdminRemains
<1>3. 1..issued \subseteq 1..MaxResets
  BY AccountLimits DEF AccountsInv, ResetsInv
<1>4. Accounts!ResetOnce
  BY <1>3 DEF AccountsInv, ResetsInv, Accounts!ResetOnce
<1> QED BY <1>1, <1>2, <1>4 DEF Accounts!NobodyLockedOut

(* The code mailed last works for its guesses, an administrator remains, and a reset link sets
   the password once and once more for every request that died before it deleted the links,
   for any number of requests, administrators, guesses, links and deaths, unless a code was
   made while another request used one, or two requests changed roles or used links at one
   time (auth.service.ts, users.service.ts). *)
THEOREM NobodyLockedOutHolds == Spec => []NobodyLockedOut
<1>1. Init => (scope = "Accounts" => AccountsInv)
  BY AccountsStart DEF Init
<1>2. (scope = "Accounts" => AccountsInv) /\ [Next]_vars => (scope = "Accounts" => AccountsInv)'
  <2>1. [Next]_vars /\ scope' = "Accounts" => scope = "Accounts" /\ [Accounts!Next]_(Accounts!vars)
    BY DEF Next, vars, shared, accounts, Accounts!vars
  <2> QED BY <2>1, AccountsStep
<1>3. (scope = "Accounts" => AccountsInv) => NobodyLockedOut
  BY AccountsShown DEF NobodyLockedOut
<1> QED BY <1>1, <1>2, <1>3, PTL DEF Spec

-----------------------------------------------------------------------------
(* Locations: a revision is one whole catalog *)

Statuses == {"RUNNING", "FAILED", "SUCCEEDED"}
Copies   == [provinces : SUBSET Provinces, wards : SUBSET Provinces, empty : SUBSET Provinces]
SyncFields == {"at", "generation", "attempt", "todo", "inHand", "seen", "revision"}
SyncJob(j) == j = [x \in SyncFields |-> j[x]]
Copying == {"PROVINCES", "WARDS", "PUBLISH"}
Size    == Len(runs)                                \* runs so far

Stored(c)     == c.wards \cup c.empty              \* the provinces done
Whole(g)      == Stored(rows[g]) = rows[g].provinces /\ rows[g].provinces # {}
Published == {publications[n] : n \in 1..metadata.revision}
Straggling == {s[1] : s \in stragglers}

\* What a request holds: its copy is its own, nobody else writes it, and with the wards it
\* has yet to fetch the copy is whole; what it read of the metadata was published.
SyncStands(j) ==
    /\ j.at \in {"ALLOCATE", "CREATE", "PROVINCES"} => j.todo = {} /\ j.inHand = {}
    /\ j.at = "CREATE" => j.generation \in 1..(Size + 1)
    /\ j.at \in Copying => j.generation \in 1..Size /\ j.generation \notin Published
                           /\ j.generation \notin Straggling
    /\ j.at = "PROVINCES" => Stored(rows[j.generation]) = {}
    /\ j.at = "WARDS" => /\ j.todo \subseteq Provinces /\ j.inHand \subseteq Provinces
                         /\ rows[j.generation].provinces # {}
                         /\ rows[j.generation].provinces
                               = Stored(rows[j.generation]) \cup j.todo \cup j.inHand
    /\ j.at = "PUBLISH" => Whole(j.generation) /\ j.seen.revision \in 0..metadata.revision
    /\ j.at = "READ" => /\ j.seen.revision \in 0..metadata.revision
                        /\ j.seen.revision # 0 => j.seen.generation = publications[j.seen.revision]
                        /\ j.revision \in 0..metadata.revision

CopiesInv ==
    /\ runs \in Seq(Statuses) /\ rows \in Seq(Copies) /\ Len(rows) = Size
    /\ stragglers \subseteq (1..Size) \X Provinces
    /\ metadata.revision \in Nat /\ metadata.generation \in 0..Size
    /\ publications \in [1..metadata.revision -> 1..Size]
    /\ metadata.revision > 0 => metadata.generation = publications[metadata.revision]
    /\ \A n \in 1..metadata.revision : Whole(publications[n]) /\ publications[n] \notin Straggling
SyncInv ==
    /\ job = [h \in Handlers |-> job[h]]
    /\ \A h \in Handlers : SyncJob(job[h]) /\ SyncStands(job[h])
    /\ \A h, g \in Handlers : h # g /\ job[h].at \in Copying /\ job[g].at \in Copying
                                 => job[h].generation # job[g].generation
ServedInv ==
    \A s \in served : /\ s.revision \in 1..metadata.revision
                      /\ s.generation = publications[s.revision]
                      /\ Stored(s.rows) = s.rows.provinces /\ s.rows.provinces # {}

LocationsInv == CopiesInv /\ SyncInv /\ ServedInv

LEMMA SyncIdle == SyncJob(Locations!NoJob) /\ Locations!NoJob.at = "IDLE"
                  /\ Locations!NoJob.todo = {} /\ Locations!NoJob.inHand = {}
BY DEF SyncJob, SyncFields, Locations!NoJob

LEMMA SyncIdleStands == SyncStands(Locations!NoJob)
BY SyncIdle DEF SyncStands, Copying

LEMMA SyncWithAt ==
    ASSUME NEW j, SyncJob(j), NEW s, NEW k, k = [j EXCEPT !.at = s]
    PROVE  SyncJob(k) /\ k.at = s /\ k.generation = j.generation /\ k.todo = j.todo
           /\ k.inHand = j.inHand /\ k.seen = j.seen /\ k.revision = j.revision
BY DEF SyncJob, SyncFields

LEMMA SyncWithGeneration ==
    ASSUME NEW j, SyncJob(j), NEW g, NEW k, k = [j EXCEPT !.generation = g]
    PROVE  SyncJob(k) /\ k.generation = g /\ k.at = j.at /\ k.todo = j.todo /\ k.inHand = j.inHand
BY DEF SyncJob, SyncFields

LEMMA SyncWithAttempt ==
    ASSUME NEW j, SyncJob(j), NEW g, NEW k, k = [j EXCEPT !.attempt = g]
    PROVE  SyncJob(k) /\ k.generation = j.generation /\ k.at = j.at /\ k.todo = j.todo
           /\ k.inHand = j.inHand
BY DEF SyncJob, SyncFields

LEMMA SyncWithTodo ==
    ASSUME NEW j, SyncJob(j), NEW x, NEW k, k = [j EXCEPT !.todo = x]
    PROVE  SyncJob(k) /\ k.generation = j.generation /\ k.at = j.at /\ k.todo = x
           /\ k.inHand = j.inHand
BY DEF SyncJob, SyncFields

LEMMA SyncWithInHand ==
    ASSUME NEW j, SyncJob(j), NEW x, NEW k, k = [j EXCEPT !.inHand = x]
    PROVE  SyncJob(k) /\ k.generation = j.generation /\ k.at = j.at /\ k.todo = j.todo
           /\ k.inHand = x
BY DEF SyncJob, SyncFields

LEMMA SyncWithSeen ==
    ASSUME NEW j, SyncJob(j), NEW x, NEW k, k = [j EXCEPT !.seen = x]
    PROVE  SyncJob(k) /\ k.generation = j.generation /\ k.at = j.at /\ k.seen = x
           /\ k.revision = j.revision
BY DEF SyncJob, SyncFields

LEMMA SyncWithRevision ==
    ASSUME NEW j, SyncJob(j), NEW x, NEW k, k = [j EXCEPT !.revision = x]
    PROVE  SyncJob(k) /\ k.at = j.at /\ k.seen = j.seen /\ k.revision = x
BY DEF SyncJob, SyncFields

(* Sequences and copies. *)
LEMMA Restated ==
    ASSUME NEW S, NEW r \in Seq(S), NEW f, f \in [1..Len(r) -> S]
    PROVE  f \in Seq(S) /\ Len(f) = Len(r)
OBVIOUS

LEMMA Appended ==
    ASSUME NEW S, NEW r \in Seq(S), NEW x \in S
    PROVE  /\ Append(r, x) \in Seq(S) /\ Len(Append(r, x)) = Len(r) + 1
           /\ \A n \in 1..Len(r) : Append(r, x)[n] = r[n]
           /\ Append(r, x)[Len(r) + 1] = x
OBVIOUS

LEMMA Replaced ==
    ASSUME NEW S, NEW r \in Seq(S), NEW g \in 1..Len(r), NEW c \in S, NEW q, q = [r EXCEPT ![g] = c]
    PROVE  /\ q \in Seq(S) /\ Len(q) = Len(r) /\ q[g] = c
           /\ \A n \in 1..Len(r) : n # g => q[n] = r[n]
OBVIOUS

LEMMA RangeGrows ==
    ASSUME NEW n \in Nat, NEW m \in Nat, n <= m
    PROVE  1..n \subseteq 1..m /\ 1..(n + 1) \subseteq 1..(m + 1) /\ 0..n \subseteq 0..m
<1>1. 1..n \subseteq 1..m
  OBVIOUS
<1>2. 1..(n + 1) \subseteq 1..(m + 1)
  OBVIOUS
<1>3. 0..n \subseteq 0..m
  OBVIOUS
<1> QED BY <1>1, <1>2, <1>3

LEMMA CopyWithWards ==
    ASSUME NEW b \in Copies, NEW p \in Provinces, NEW c, c = [b EXCEPT !.wards = b.wards \cup {p}]
    PROVE  c \in Copies /\ c.provinces = b.provinces /\ Stored(c) = Stored(b) \cup {p}
<1>1. /\ c \in Copies /\ c.provinces = b.provinces /\ c.wards = b.wards \cup {p}
      /\ c.empty = b.empty
  BY DEF Copies
<1> QED BY <1>1 DEF Stored

LEMMA CopyWithNone ==
    ASSUME NEW b \in Copies, NEW p \in Provinces, NEW c, c = [b EXCEPT !.empty = b.empty \cup {p}]
    PROVE  c \in Copies /\ c.provinces = b.provinces /\ Stored(c) = Stored(b) \cup {p}
<1>1. /\ c \in Copies /\ c.provinces = b.provinces /\ c.wards = b.wards
      /\ c.empty = b.empty \cup {p}
  BY DEF Copies
<1> QED BY <1>1 DEF Stored

LEMMA CopyWithProvinces ==
    ASSUME NEW b \in Copies, NEW a \in SUBSET Provinces, NEW c, c = [b EXCEPT !.provinces = a]
    PROVE  c \in Copies /\ c.provinces = a /\ Stored(c) = Stored(b)
BY DEF Copies, Stored

(* What was published stays, and a copy is written by nobody but its own request. *)
LEMMA SyncCarried ==
    ASSUME CopiesInv, NEW g, Size' \in Nat, Size' >= Size,
           \A n \in 1..Size : n # g => rows'[n] = rows[n],
           metadata'.revision \in Nat, metadata'.revision >= metadata.revision,
           \A n \in 1..metadata.revision : publications'[n] = publications[n],
           NEW x, SyncStands(x),
           x.at \in Copying => /\ x.generation # g
                               /\ x.generation \notin Published' /\ x.generation \notin Straggling'
    PROVE  SyncStands(x)'
<1>1. PICK n \in Nat, m \in Nat : n = Size /\ m = Size' /\ n <= m
  BY DEF CopiesInv, Size
<1>2. PICK r \in Nat, q \in Nat : r = metadata.revision /\ q = metadata'.revision /\ r <= q
  BY DEF CopiesInv
<1>3. 1..n \subseteq 1..m /\ 1..(n + 1) \subseteq 1..(m + 1) /\ 1..r \subseteq 1..q /\ 0..r \subseteq 0..q
  BY <1>1, <1>2, RangeGrows
<1>4. x.at \in Copying => x.generation \in 1..n /\ rows'[x.generation] = rows[x.generation]
  BY <1>1 DEF SyncStands
<1>5. x.at = "PUBLISH" => Whole(x.generation)'
  BY <1>4 DEF SyncStands, Copying, Whole
<1>6. x.at = "PROVINCES" => Stored(rows'[x.generation]) = {}
  BY <1>4 DEF SyncStands, Copying
<1>7. x.at = "WARDS" => /\ rows'[x.generation].provinces # {}
                        /\ rows'[x.generation].provinces
                              = Stored(rows'[x.generation]) \cup x.todo \cup x.inHand
  BY <1>4 DEF SyncStands, Copying
<1>8. x.at = "READ" => /\ x.seen.revision \in 0..q
                       /\ x.seen.revision # 0 => x.seen.generation = publications'[x.seen.revision]
                       /\ x.revision \in 0..q
  <2>1. x.at = "READ" => x.seen.revision \in 0..r /\ x.revision \in 0..r
    BY <1>2 DEF SyncStands
  <2>2. x.at = "READ" /\ x.seen.revision # 0 => x.seen.revision \in 1..r
    BY <2>1
  <2> QED BY <1>2, <1>3, <2>1, <2>2 DEF SyncStands
<1>9. x.at \in Copying => x.generation \in 1..m /\ x.generation \notin Published' /\ x.generation \notin Straggling'
  BY <1>3, <1>4
<1>10. x.at = "PUBLISH" => x.seen.revision \in 0..q
  BY <1>2, <1>3 DEF SyncStands
<1>11. x.at = "CREATE" => x.generation \in 1..(m + 1)
  BY <1>1, <1>3 DEF SyncStands
<1>12. /\ x.at \in {"ALLOCATE", "CREATE", "PROVINCES"} => x.todo = {} /\ x.inHand = {}
       /\ x.at = "WARDS" => x.todo \subseteq Provinces /\ x.inHand \subseteq Provinces
  BY DEF SyncStands
<1> QED BY <1>1, <1>2, <1>5, <1>6, <1>7, <1>8, <1>9, <1>10, <1>11, <1>12 DEF SyncStands

LEMMA ServedCarried ==
    ASSUME CopiesInv, ServedInv, UNCHANGED served,
           metadata'.revision \in Nat, metadata'.revision >= metadata.revision,
           \A n \in 1..metadata.revision : publications'[n] = publications[n]
    PROVE  ServedInv'
<1>1. PICK r \in Nat, q \in Nat : r = metadata.revision /\ q = metadata'.revision /\ r <= q
  BY DEF CopiesInv
<1>2. 1..r \subseteq 1..q
  BY <1>1
<1> QED BY <1>1, <1>2 DEF ServedInv

(* The others stand when the copy g is written, which is nobody else's. *)
LEMMA SyncOthers ==
    ASSUME LocationsInv, NEW k \in Handlers, NEW g, job[k].at \in Copying => job[k].generation # g,
           job'[k] = job[k],
           Size' \in Nat, Size' >= Size, \A n \in 1..Size : n # g => rows'[n] = rows[n],
           metadata'.revision \in Nat, metadata'.revision >= metadata.revision,
           \A n \in 1..metadata.revision : publications'[n] = publications[n],
           Published' \subseteq Published \cup {g}, Straggling' \subseteq Straggling \cup {g}
    PROVE  SyncJob(job'[k]) /\ SyncStands(job[k])'
<1>1. PICK x : x = job[k] /\ SyncJob(x) /\ SyncStands(x) /\ job'[k] = x
  BY DEF LocationsInv, SyncInv
<1>2. x.at \in Copying => x.generation # g /\ x.generation \notin Published /\ x.generation \notin Straggling
  BY <1>1 DEF SyncStands
<1>3. x.at \in Copying => x.generation # g /\ x.generation \notin Published' /\ x.generation \notin Straggling'
  BY <1>2
<1>4. SyncStands(x)'
  BY <1>1, <1>3, SyncCarried DEF LocationsInv
<1>5. SyncStands(job[k])'
  BY <1>1, <1>4 DEF SyncStands, Whole
<1> QED BY <1>1, <1>5

LEMMA SyncMoves ==
    ASSUME LocationsInv, NEW h \in Handlers, NEW j, SyncJob(j), job' = [job EXCEPT ![h] = j],
           SyncStands(j)', NEW g, j.at \in Copying => j.generation = g,
           \A k \in Handlers \ {h} : job[k].at \in Copying => job[k].generation # g,
           Size' \in Nat, Size' >= Size, \A n \in 1..Size : n # g => rows'[n] = rows[n],
           metadata'.revision \in Nat, metadata'.revision >= metadata.revision,
           \A n \in 1..metadata.revision : publications'[n] = publications[n],
           Published' \subseteq Published \cup {g}, Straggling' \subseteq Straggling \cup {g}
    PROVE  SyncInv'
<1>1. \A k \in Handlers : job'[k] = IF k = h THEN j ELSE job[k]
  BY DEF LocationsInv, SyncInv
<1>2. ASSUME NEW k \in Handlers, k # h PROVE SyncJob(job'[k]) /\ SyncStands(job[k])'
  BY <1>1, <1>2, SyncOthers
<1>3. SyncJob(job'[h]) /\ SyncStands(job[h])'
  BY <1>1 DEF SyncStands, Whole
<1>4. \A a, b \in Handlers : a # b /\ job'[a].at \in Copying /\ job'[b].at \in Copying
                                => job'[a].generation # job'[b].generation
  BY <1>1 DEF LocationsInv, SyncInv
<1>5. job' = [k \in Handlers |-> job'[k]]
  BY DEF LocationsInv, SyncInv
<1> QED BY <1>2, <1>3, <1>4, <1>5 DEF SyncInv

(* A step that copies and publishes nothing. *)
LEMMA SyncOnlyMoves ==
    ASSUME LocationsInv, NEW h \in Handlers, NEW j, SyncJob(j), job' = [job EXCEPT ![h] = j],
           SyncStands(j), j.at \in Copying => job[h].at \in Copying /\ job[h].generation = j.generation,
           UNCHANGED <<rows, metadata, publications, stragglers>>, UNCHANGED served \/ ServedInv',
           runs' \in Seq(Statuses), Len(runs') = Len(runs)
    PROVE  LocationsInv'
<1>1. Size' = Size /\ Size \in Nat /\ metadata.revision \in Nat
  BY DEF Size, LocationsInv, CopiesInv
<1>2. CopiesInv'
  BY <1>1 DEF LocationsInv, CopiesInv, Whole, Straggling
<1>3. ServedInv'
  BY DEF LocationsInv, ServedInv
<1>4. SyncStands(j)'
  BY <1>1 DEF SyncStands, Whole, Published, Straggling
<1>5. PICK g : /\ j.at \in Copying => j.generation = g
               /\ \A k \in Handlers \ {h} : job[k].at \in Copying => job[k].generation # g
  <2>1. CASE j.at \in Copying
    BY <2>1 DEF LocationsInv, SyncInv
  <2>2. CASE j.at \notin Copying
    <3>1. \A k \in Handlers : job[k].at \in Copying => job[k].generation \in 1..Size
      BY DEF LocationsInv, SyncInv, SyncStands
    <3>2. \A k \in Handlers \ {h} : job[k].at \in Copying => job[k].generation # 0
      BY <1>1, <3>1
    <3> QED BY <2>2, <3>2
  <2> QED BY <2>1, <2>2
<1>6. Published' = Published /\ Straggling' = Straggling
  BY DEF Published, Straggling
<1>7. Size' \in Nat /\ Size' >= Size /\ metadata'.revision \in Nat
      /\ metadata'.revision >= metadata.revision
  BY <1>1
<1>8. (\A n \in 1..Size : n # g => rows'[n] = rows[n])
      /\ \A n \in 1..metadata.revision : publications'[n] = publications[n]
  OBVIOUS
<1>9. (Published' \subseteq Published \cup {g})
      /\ (Straggling' \subseteq Straggling \cup {g})
  BY <1>6
<1>10. SyncInv'
  BY <1>4, <1>5, <1>7, <1>8, <1>9, SyncMoves
<1> QED BY <1>2, <1>3, <1>10 DEF LocationsInv

LEMMA Reconciled ==
    ASSUME CopiesInv, NEW stale, Locations!reconcileStaleRuns(stale)
    PROVE  runs' \in Seq(Statuses) /\ Len(runs') = Len(runs)
<1>1. PICK f : f = [n \in DOMAIN runs |-> IF n \in stale THEN "FAILED" ELSE runs[n]]
  OBVIOUS
<1>2. runs' = f /\ runs \in Seq(Statuses) /\ DOMAIN runs = 1..Len(runs)
  BY <1>1 DEF Locations!reconcileStaleRuns, CopiesInv
<1>3. \A n \in 1..Len(runs) : runs[n] \in Statuses
  BY <1>2
<1>4. "FAILED" \in Statuses
  BY DEF Statuses
<1>5. f \in [1..Len(runs) -> Statuses]
  BY <1>1, <1>2, <1>3, <1>4
<1> QED BY <1>2, <1>5, Restated

LEMMA SyncGoes ==
    ASSUME SyncInv, NEW h \in Handlers, NEW s, Locations!Go(h, s)
    PROVE  \E j : /\ SyncJob(j) /\ job' = [job EXCEPT ![h] = j] /\ j.at = s
                  /\ j.generation = job[h].generation /\ j.todo = job[h].todo
                  /\ j.inHand = job[h].inHand
<1>1. PICK j : j = [job[h] EXCEPT !.at = s]
  OBVIOUS
<1>2. SyncJob(job[h])
  BY DEF SyncInv
<1>3. SyncJob(j) /\ j.at = s /\ j.generation = job[h].generation /\ j.todo = job[h].todo
      /\ j.inHand = job[h].inHand
  BY <1>1, <1>2, SyncWithAt
<1>4. job' = [job EXCEPT ![h] = j]
  BY <1>1 DEF Locations!Go, Locations!Set
<1> QED BY <1>3, <1>4

(* A run is allocated. *)
LEMMA StartSteps ==
    ASSUME LocationsInv, NEW h \in Handlers, Locations!Start(h) \/ Locations!Allocate(h)
    PROVE  LocationsInv'
<1>1. UNCHANGED <<rows, metadata, publications, stragglers, served>>
  BY DEF Locations!Start, Locations!Allocate, Locations!catalog
<1>2. CASE Locations!Start(h)
  <2>1. runs' \in Seq(Statuses) /\ Len(runs') = Len(runs)
    BY <1>2, Reconciled DEF Locations!Start, LocationsInv
  <2>2. job[h] = Locations!NoJob
    BY <1>2 DEF Locations!Start
  <2>3. PICK j : /\ SyncJob(j) /\ job' = [job EXCEPT ![h] = j] /\ j.at = "ALLOCATE"
                 /\ j.todo = job[h].todo /\ j.inHand = job[h].inHand
    BY <1>2, SyncGoes DEF Locations!Start, LocationsInv
  <2>4. SyncStands(j)
    BY <2>2, <2>3, SyncIdle DEF SyncStands, Copying
  <2>5. j.at \notin Copying
    BY <2>3 DEF Copying
  <2> QED BY <1>1, <2>1, <2>3, <2>4, <2>5, SyncOnlyMoves
<1>3. CASE Locations!Allocate(h)
  <2>1. runs' = runs /\ job[h].at = "ALLOCATE"
    BY <1>3 DEF Locations!Allocate, Locations!At
  <2>2. Locations!nextCatalogGeneration \in 1..(Size + 1)
    BY DEF LocationsInv, CopiesInv, Size, Locations!nextCatalogGeneration
  <2>3. PICK g \in 1..(Size + 1) : g = Locations!nextCatalogGeneration
    BY <2>2
  <2>4. PICK i : i = [job[h] EXCEPT !.at = "CREATE"]
    OBVIOUS
  <2>5. PICK k : k = [i EXCEPT !.generation = g]
    OBVIOUS
  <2>14. PICK a : a = k.attempt + 1
    OBVIOUS
  <2>6. PICK j : j = [k EXCEPT !.attempt = a]
    OBVIOUS
  <2>7. SyncJob(job[h]) /\ job[h].todo = {} /\ job[h].inHand = {}
    BY <2>1 DEF LocationsInv, SyncInv, SyncStands
  <2>8. SyncJob(i) /\ i.at = "CREATE" /\ i.todo = {} /\ i.inHand = {}
    BY <2>4, <2>7, SyncWithAt
  <2>9. SyncJob(k) /\ k.generation = g /\ k.at = "CREATE" /\ k.todo = {} /\ k.inHand = {}
    BY <2>5, <2>8, SyncWithGeneration
  <2>10. SyncJob(j) /\ j.generation = g /\ j.at = "CREATE" /\ j.todo = {} /\ j.inHand = {}
    BY <2>6, <2>9, SyncWithAttempt
  <2>11. job' = [job EXCEPT ![h] = j]
    BY <1>3, <2>3, <2>4, <2>5, <2>6, <2>14 DEF Locations!Allocate, Locations!Set
  <2>12. SyncStands(j) /\ j.at \notin Copying
    BY <2>3, <2>10 DEF SyncStands, Copying
  <2>13. runs' \in Seq(Statuses) /\ Len(runs') = Len(runs)
    BY <2>1 DEF LocationsInv, CopiesInv
  <2> QED BY <1>1, <2>10, <2>11, <2>12, <2>13, SyncOnlyMoves
<1> QED BY <1>2, <1>3

(* The run is created: its generation is the next one, or the request tries again. *)
LEMMA CreateSteps ==
    ASSUME LocationsInv, NEW h \in Handlers, Locations!createSyncRun(h)
    PROVE  LocationsInv'
<1>1. UNCHANGED <<metadata, publications, stragglers, served>> /\ job[h].at = "CREATE"
  BY DEF Locations!createSyncRun, Locations!catalog, Locations!At
<1>2. SyncJob(job[h]) /\ job[h].todo = {} /\ job[h].inHand = {} /\ job[h].generation \in 1..(Size + 1)
  BY <1>1 DEF LocationsInv, SyncInv, SyncStands
<1>3. runs \in Seq(Statuses) /\ rows \in Seq(Copies) /\ Len(rows) = Len(runs) /\ Size = Len(runs)
      /\ metadata.revision \in Nat /\ Size \in Nat
  BY DEF LocationsInv, CopiesInv, Size
<1>4. CASE job[h].generation \in DOMAIN runs
  <2>1. runs' = runs /\ rows' = rows
    BY <1>4 DEF Locations!createSyncRun
  <2>2. PICK j : /\ SyncJob(j) /\ job' = [job EXCEPT ![h] = j] /\ j.at \in {"ALLOCATE", "IDLE"}
                 /\ j.todo = {} /\ j.inHand = {}
    <3>1. CASE job[h].attempt = 3
      BY <1>4, <3>1, SyncIdle DEF Locations!createSyncRun, Locations!Set
    <3>2. CASE job[h].attempt # 3
      BY <1>2, <1>4, <3>2, SyncGoes DEF Locations!createSyncRun, LocationsInv
    <3> QED BY <3>1, <3>2
  <2>3. SyncStands(j) /\ j.at \notin Copying
    BY <2>2 DEF SyncStands, Copying
  <2> QED BY <1>1, <1>3, <2>1, <2>2, <2>3, SyncOnlyMoves
<1>5. CASE job[h].generation \notin DOMAIN runs
  <2>1. PICK n \in Nat : n = Size /\ n = Len(runs) /\ n = Len(rows)
    BY <1>3
  <2>2. job[h].generation = n + 1
    <3>1. job[h].generation \notin 1..n /\ job[h].generation \in 1..(n + 1)
      BY <1>2, <1>3, <1>5, <2>1
    <3> QED BY <3>1
  <2>3. runs' = Append(runs, "RUNNING") /\ rows' = Append(rows, Locations!NoRows)
        /\ Locations!Go(h, "PROVINCES")
    BY <1>5 DEF Locations!createSyncRun
  <2>4. "RUNNING" \in Statuses /\ Locations!NoRows \in Copies /\ Stored(Locations!NoRows) = {}
    BY DEF Statuses, Copies, Stored, Locations!NoRows
  <2>5. runs' \in Seq(Statuses) /\ Len(runs') = n + 1
    BY <1>3, <2>1, <2>3, <2>4, Appended
  <2>6. /\ rows' \in Seq(Copies) /\ Len(rows') = n + 1 /\ Stored(rows'[n + 1]) = {}
        /\ \A m \in 1..n : rows'[m] = rows[m]
    BY <1>3, <2>1, <2>3, <2>4, Appended
  <2>7. Size' = n + 1 /\ Size' \in Nat /\ Size' >= Size
    BY <2>1, <2>5 DEF Size
  <2>8. PICK j : /\ SyncJob(j) /\ job' = [job EXCEPT ![h] = j] /\ j.at = "PROVINCES"
                 /\ j.generation = n + 1 /\ j.todo = {} /\ j.inHand = {}
    BY <1>2, <2>2, <2>3, SyncGoes DEF LocationsInv
  <2>9. Published' = Published /\ Straggling' = Straggling
    BY <1>1 DEF Published, Straggling
  <2>10. n + 1 \notin Published /\ n + 1 \notin Straggling /\ n + 1 \notin 1..n
    <3>1. n + 1 \notin 1..n
      OBVIOUS
    <3>2. (\A m \in 1..metadata.revision : publications[m] \in 1..n) /\ \A s \in stragglers : s[1] \in 1..n
      BY <2>1 DEF LocationsInv, CopiesInv
    <3> QED BY <3>1, <3>2 DEF Published, Straggling
  <2>11. SyncStands(j)'
    BY <2>6, <2>7, <2>8, <2>9, <2>10 DEF SyncStands, Copying
  <2>12. \A k \in Handlers \ {h} : job[k].at \in Copying => job[k].generation # n + 1
    BY <2>1, <2>10 DEF LocationsInv, SyncInv, SyncStands
  <2>16. /\ metadata'.revision \in Nat /\ metadata'.revision >= metadata.revision
         /\ \A m \in 1..metadata.revision : publications'[m] = publications[m]
    BY <1>1, <1>3
  <2>18. Published' \subseteq Published \cup {n + 1} /\ Straggling' \subseteq Straggling \cup {n + 1}
    BY <2>9
  <2>17. \A m \in 1..Size : m # n + 1 => rows'[m] = rows[m]
    BY <2>1, <2>6
  <2>13. SyncInv'
    BY <2>7, <2>8, <2>11, <2>12, <2>16, <2>17, <2>18, SyncMoves
  <2>14. CopiesInv'
    <3>1. 1..n \subseteq 1..(n + 1) /\ 0..n \subseteq 0..(n + 1)
      OBVIOUS
    <3>2. stragglers' \subseteq (1..Size') \X Provinces /\ metadata'.generation \in 0..Size'
      BY <1>1, <2>1, <2>7, <3>1 DEF LocationsInv, CopiesInv
    <3>3. publications' \in [1..metadata'.revision -> 1..Size']
          /\ (metadata'.revision > 0 => metadata'.generation = publications'[metadata'.revision])
      BY <1>1, <2>1, <2>7, <3>1 DEF LocationsInv, CopiesInv
    <3>4. \A m \in 1..metadata.revision :
             /\ publications[m] \in 1..n /\ Whole(publications[m]) /\ publications[m] \notin Straggling
      BY <2>1 DEF LocationsInv, CopiesInv
    <3>5. \A m \in 1..metadata.revision :
             rows'[publications[m]] = rows[publications[m]]
      BY <2>6, <3>4
    <3>6. \A m \in 1..metadata'.revision :
             Whole(publications[m])' /\ publications[m] \notin Straggling'
      BY <1>1, <3>4, <3>5 DEF Whole, Straggling
    <3>7. runs' \in Seq(Statuses) /\ rows' \in Seq(Copies) /\ Len(rows') = Size' /\ metadata'.revision \in Nat
      BY <1>1, <1>3, <2>5, <2>6, <2>7
    <3>8. \A m \in 1..metadata'.revision :
             Whole(publications[m])' /\ publications'[m] \notin Straggling'
      BY <1>1, <3>6 DEF Whole
    <3> QED BY <3>2, <3>3, <3>7, <3>8 DEF CopiesInv, Whole
  <2>15. ServedInv'
    BY <1>1 DEF LocationsInv, ServedInv
  <2> QED BY <2>13, <2>14, <2>15 DEF LocationsInv
<1> QED BY <1>4, <1>5

(* A copy is written that is not published. *)
LEMMA CopyWritten ==
    ASSUME LocationsInv, NEW g \in 1..Size, g \notin Published,
           rows' \in Seq(Copies), Len(rows') = Len(rows),
           \A n \in 1..Size : n # g => rows'[n] = rows[n],
           UNCHANGED <<runs, metadata, publications, served>>, stragglers' \subseteq stragglers
    PROVE  /\ CopiesInv' /\ ServedInv'
           /\ Size' \in Nat /\ Size' >= Size
           /\ metadata'.revision \in Nat /\ metadata'.revision >= metadata.revision
           /\ \A n \in 1..metadata.revision : publications'[n] = publications[n]
           /\ Published' \subseteq Published \cup {g} /\ Straggling' \subseteq Straggling \cup {g}
<1>1. Size' = Size /\ Size \in Nat /\ metadata.revision \in Nat
  BY DEF Size, LocationsInv, CopiesInv
<1>2. Published' = Published /\ Straggling' \subseteq Straggling
  BY DEF Published, Straggling
<1>3. \A n \in 1..metadata.revision : publications[n] \in 1..Size /\ publications[n] # g
  BY DEF LocationsInv, CopiesInv, Published
<1>4. \A n \in 1..metadata.revision : rows'[publications[n]] = rows[publications[n]]
  BY <1>3
<1>5. \A n \in 1..metadata.revision :
         Whole(publications[n]) /\ publications[n] \notin Straggling
  BY DEF LocationsInv, CopiesInv
<1>6. \A n \in 1..metadata.revision :
         Stored(rows'[publications[n]]) = rows'[publications[n]].provinces
         /\ rows'[publications[n]].provinces # {} /\ publications[n] \notin Straggling'
  BY <1>2, <1>4, <1>5 DEF Whole
<1>7. CopiesInv'
  BY <1>1, <1>6 DEF LocationsInv, CopiesInv, Whole
<1>8. ServedInv'
  BY DEF LocationsInv, ServedInv
<1>9. Size' >= Size /\ metadata'.revision >= metadata.revision
  BY <1>1
<1> QED BY <1>1, <1>2, <1>7, <1>8, <1>9

(* A run fails: its copy is left to its stragglers. *)
LEMMA FailStep ==
    ASSUME LocationsInv, NEW h \in Handlers, job[h].at \in Copying, NEW left \in SUBSET Provinces,
           Locations!Fail(h, left), UNCHANGED <<rows, metadata, publications, served>>
    PROVE  LocationsInv'
<1>1. PICK g : g = job[h].generation
  OBVIOUS
<1>2. g \in 1..Size /\ g \notin Published /\ Size = Len(runs)
  BY <1>1 DEF LocationsInv, SyncInv, SyncStands, Size
<1>3. "FAILED" \in Statuses /\ runs \in Seq(Statuses) /\ runs' = [runs EXCEPT ![g] = "FAILED"]
  BY <1>1 DEF Statuses, LocationsInv, CopiesInv, Locations!Fail
<1>4. runs' \in Seq(Statuses) /\ Len(runs') = Len(runs)
  BY <1>2, <1>3, Replaced
<1>5. stragglers' = stragglers \cup {<<g, p>> : p \in left} /\ job' = [job EXCEPT ![h] = Locations!NoJob]
  BY <1>1 DEF Locations!Fail, Locations!Set
<1>6. Size' = Size /\ Size \in Nat /\ metadata.revision \in Nat
  BY <1>4 DEF Size, LocationsInv, CopiesInv
<1>7. Published' = Published /\ Straggling' \subseteq Straggling \cup {g}
  BY <1>5 DEF Published, Straggling
<1>8. \A n \in 1..metadata.revision : publications[n] # g
  BY <1>2 DEF Published
<1>9. stragglers' \subseteq (1..Size) \X Provinces
  BY <1>2, <1>5 DEF LocationsInv, CopiesInv
<1>10. \A n \in 1..metadata.revision : Whole(publications[n])' /\ publications[n] \notin Straggling'
  BY <1>7, <1>8 DEF LocationsInv, CopiesInv, Whole
<1>11. CopiesInv'
  BY <1>4, <1>6, <1>9, <1>10 DEF LocationsInv, CopiesInv, Whole
<1>12. ServedInv'
  BY DEF LocationsInv, ServedInv
<1>13. SyncStands(Locations!NoJob)' /\ Locations!NoJob.at \notin Copying
  BY SyncIdle DEF SyncStands, Copying
<1>14. \A k \in Handlers \ {h} : job[k].at \in Copying => job[k].generation # g
  BY <1>1 DEF LocationsInv, SyncInv
<1>15. Size' \in Nat /\ Size' >= Size /\ metadata'.revision \in Nat
       /\ metadata'.revision >= metadata.revision
  BY <1>6
<1>16. /\ \A n \in 1..Size : n # g => rows'[n] = rows[n]
       /\ \A n \in 1..metadata.revision : publications'[n] = publications[n]
       /\ Published' \subseteq Published \cup {g}
  BY <1>7
<1>17. SyncInv'
  BY <1>5, <1>7, <1>13, <1>14, <1>15, <1>16, SyncIdle, SyncMoves
<1> QED BY <1>11, <1>12, <1>17 DEF LocationsInv

(* Provinces, then wards. *)
LEMMA FetchProvincesStep ==
    ASSUME LocationsInv, NEW h \in Handlers, NEW answer \in SUBSET Provinces,
           Locations!fetchProvinces(h, answer)
    PROVE  LocationsInv'
<1>1. UNCHANGED <<metadata, publications, served>> /\ job[h].at = "PROVINCES"
  BY DEF Locations!fetchProvinces, Locations!catalog, Locations!At
<1>2. CASE answer = {}
  <2>1. Locations!Fail(h, {}) /\ UNCHANGED rows /\ job[h].at \in Copying
    BY <1>1, <1>2 DEF Locations!fetchProvinces, Copying
  <2> QED BY <1>1, <2>1, FailStep
<1>3. CASE answer # {}
  <2>1. PICK g : g = job[h].generation
    OBVIOUS
  <2>2. /\ g \in 1..Size /\ g \notin Published /\ g \notin Straggling /\ Stored(rows[g]) = {}
        /\ SyncJob(job[h]) /\ job[h].inHand = {}
    BY <1>1, <2>1 DEF LocationsInv, SyncInv, SyncStands, Copying
  <2>3. PICK i : i = [job[h] EXCEPT !.at = "WARDS"]
    OBVIOUS
  <2>4. PICK j : j = [i EXCEPT !.todo = answer]
    OBVIOUS
  <2>5. SyncJob(i) /\ i.at = "WARDS" /\ i.generation = g /\ i.inHand = {}
    BY <2>1, <2>2, <2>3, SyncWithAt
  <2>6. SyncJob(j) /\ j.at = "WARDS" /\ j.generation = g /\ j.inHand = {} /\ j.todo = answer
    BY <2>4, <2>5, SyncWithTodo
  <2>7. job' = [job EXCEPT ![h] = j] /\ UNCHANGED <<runs, stragglers>>
        /\ rows' = [rows EXCEPT ![g].provinces = answer]
    BY <1>3, <2>1, <2>3, <2>4 DEF Locations!fetchProvinces, Locations!Set
  <2>8. rows \in Seq(Copies) /\ g \in 1..Len(rows) /\ Len(rows) = Size
    BY <2>2 DEF LocationsInv, CopiesInv
  <2>9. /\ rows' \in Seq(Copies) /\ Len(rows') = Len(rows)
        /\ \A n \in 1..Len(rows) : n # g => rows'[n] = rows[n]
        /\ rows'[g].provinces = answer /\ Stored(rows'[g]) = Stored(rows[g])
    <3>1. PICK b \in Copies : b = rows[g]
      BY <2>8
    <3>2. PICK c : c = [b EXCEPT !.provinces = answer]
      OBVIOUS
    <3>3. c \in Copies /\ c.provinces = answer /\ Stored(c) = Stored(b)
      BY <3>2, CopyWithProvinces
    <3>4. rows' = [rows EXCEPT ![g] = c]
      BY <2>7, <3>1, <3>2
    <3>5. rows' \in Seq(Copies) /\ Len(rows') = Len(rows) /\ rows'[g] = c
          /\ \A n \in 1..Len(rows) : n # g => rows'[n] = rows[n]
      BY ONLY <2>8, <3>3, <3>4, Replaced
    <3> QED BY <3>1, <3>3, <3>5
  <2>14. \A n \in 1..Size : n # g => rows'[n] = rows[n]
    BY <2>8, <2>9
  <2>16. UNCHANGED <<runs, metadata, publications, served>>
    BY <1>1, <2>7
  <2>17. stragglers' \subseteq stragglers /\ rows' \in Seq(Copies) /\ Len(rows') = Len(rows)
    BY <2>7, <2>9
  <2>18. g \in 1..Size /\ g \notin Published
    BY <2>2
  <2>10. /\ CopiesInv' /\ ServedInv' /\ Size' \in Nat /\ Size' >= Size
         /\ metadata'.revision \in Nat /\ metadata'.revision >= metadata.revision
         /\ \A n \in 1..metadata.revision : publications'[n] = publications[n]
         /\ Published' \subseteq Published \cup {g} /\ Straggling' \subseteq Straggling \cup {g}
    BY ONLY LocationsInv, <2>14, <2>16, <2>17, <2>18, CopyWritten
  <2>11. Size' = Size /\ Published' = Published /\ Straggling' = Straggling
    BY <1>1, <2>7 DEF Size, Published, Straggling
  <2>12. SyncStands(j)'
    BY <1>3, <2>2, <2>6, <2>9, <2>11 DEF SyncStands, Copying
  <2>13. \A k \in Handlers \ {h} : job[k].at \in Copying => job[k].generation # g
    BY <1>1, <2>1 DEF LocationsInv, SyncInv, Copying
  <2>15. SyncInv'
    <3>1. SyncJob(j) /\ job' = [job EXCEPT ![h] = j] /\ h \in Handlers
          /\ (j.at \in Copying => j.generation = g)
      BY <2>6, <2>7
    <3>2. Size' \in Nat /\ Size' >= Size /\ metadata'.revision \in Nat
          /\ metadata'.revision >= metadata.revision
      BY <2>10
    <3>3. /\ \A n \in 1..metadata.revision : publications'[n] = publications[n]
          /\ Published' \subseteq Published \cup {g} /\ Straggling' \subseteq Straggling \cup {g}
      BY <2>10
    <3> QED BY ONLY LocationsInv, <3>1, <3>2, <3>3, <2>12, <2>13, <2>14, SyncMoves
  <2> QED BY <2>10, <2>15 DEF LocationsInv
<1> QED BY <1>2, <1>3

LEMMA WardsSteps ==
    ASSUME LocationsInv, NEW h \in Handlers, NEW p \in Provinces,
           \/ Locations!fetchWards(h, p) \/ Locations!upsertLocations(h, p)
           \/ Locations!EmptyAnswer(h, p) \/ Locations!WorkerFails(h, p)
    PROVE  LocationsInv'
<1>1. UNCHANGED <<metadata, publications, served>> /\ job[h].at = "WARDS" /\ job[h].at \in Copying
  BY DEF Locations!fetchWards, Locations!upsertLocations, Locations!EmptyAnswer,
         Locations!WorkerFails, Locations!catalog, Locations!At, Copying
<1>2. PICK g : g = job[h].generation
  OBVIOUS
<1>3. /\ g \in 1..Size /\ g \notin Published /\ g \notin Straggling /\ SyncJob(job[h])
      /\ job[h].todo \subseteq Provinces /\ job[h].inHand \subseteq Provinces
      /\ rows[g].provinces # {}
      /\ rows[g].provinces = Stored(rows[g]) \cup job[h].todo \cup job[h].inHand
  BY <1>1, <1>2 DEF LocationsInv, SyncInv, SyncStands
<1>4. PICK todo, inHand : todo = job[h].todo /\ inHand = job[h].inHand
  OBVIOUS
<1>5. CASE Locations!fetchWards(h, p)
  <2>1. PICK i : i = [job[h] EXCEPT !.todo = todo \ {p}]
    OBVIOUS
  <2>2. PICK j : j = [i EXCEPT !.inHand = inHand \cup {p}]
    OBVIOUS
  <2>3. SyncJob(i) /\ i.at = "WARDS" /\ i.generation = g /\ i.inHand = inHand /\ i.todo = todo \ {p}
    BY <1>1, <1>2, <1>3, <1>4, <2>1, SyncWithTodo
  <2>4. /\ SyncJob(j) /\ j.at = "WARDS" /\ j.generation = g /\ j.inHand = inHand \cup {p}
        /\ j.todo = todo \ {p}
    BY <2>2, <2>3, SyncWithInHand
  <2>5. job' = [job EXCEPT ![h] = j] /\ p \in todo
    BY <1>4, <1>5, <2>1, <2>2, <2>3 DEF Locations!fetchWards, Locations!Set
  <2>6. UNCHANGED <<runs, rows, stragglers>>
    BY <1>5 DEF Locations!fetchWards
  <2>7. SyncStands(j)
    BY <1>3, <1>4, <2>4, <2>5 DEF SyncStands
  <2>8. runs' \in Seq(Statuses) /\ Len(runs') = Len(runs)
    BY <2>6 DEF LocationsInv, CopiesInv
  <2> QED BY <1>1, <1>2, <2>4, <2>5, <2>6, <2>7, <2>8, SyncOnlyMoves
<1>6. CASE Locations!upsertLocations(h, p) \/ Locations!EmptyAnswer(h, p)
  <2>1. PICK j : j = [job[h] EXCEPT !.inHand = inHand \ {p}]
    OBVIOUS
  <2>2. SyncJob(j) /\ j.at = "WARDS" /\ j.generation = g /\ j.inHand = inHand \ {p} /\ j.todo = todo
    BY <1>1, <1>2, <1>3, <1>4, <2>1, SyncWithInHand
  <2>3. job' = [job EXCEPT ![h] = j]
    BY <1>4, <1>6, <2>1 DEF Locations!upsertLocations, Locations!EmptyAnswer, Locations!Set
  <2>4. /\ p \in inHand /\ UNCHANGED <<runs, stragglers>>
        /\ \/ rows' = [rows EXCEPT ![g].wards = @ \cup {p}]
           \/ rows' = [rows EXCEPT ![g].empty = @ \cup {p}]
    BY <1>2, <1>4, <1>6 DEF Locations!upsertLocations, Locations!EmptyAnswer
  <2>5. rows \in Seq(Copies) /\ g \in 1..Len(rows) /\ Len(rows) = Size
    BY <1>3 DEF LocationsInv, CopiesInv
  <2>6. /\ rows' \in Seq(Copies) /\ Len(rows') = Len(rows)
        /\ \A n \in 1..Len(rows) : n # g => rows'[n] = rows[n]
        /\ rows'[g].provinces = rows[g].provinces /\ Stored(rows'[g]) = Stored(rows[g]) \cup {p}
    <3>1. PICK b \in Copies : b = rows[g]
      BY <2>5
    <3>2. PICK c : /\ rows' = [rows EXCEPT ![g] = c]
                   /\ \/ c = [b EXCEPT !.wards = b.wards \cup {p}]
                      \/ c = [b EXCEPT !.empty = b.empty \cup {p}]
      BY <2>4, <3>1
    <3>3. c \in Copies /\ c.provinces = b.provinces /\ Stored(c) = Stored(b) \cup {p}
      BY <3>2, CopyWithWards, CopyWithNone
    <3>4. rows' = [rows EXCEPT ![g] = c]
      BY <3>2
    <3>5. rows' \in Seq(Copies) /\ Len(rows') = Len(rows) /\ rows'[g] = c
          /\ \A n \in 1..Len(rows) : n # g => rows'[n] = rows[n]
      BY ONLY <2>5, <3>3, <3>4, Replaced
    <3> QED BY <3>1, <3>3, <3>5
  <2>12. \A n \in 1..Size : n # g => rows'[n] = rows[n]
    BY <2>5, <2>6
  <2>14. UNCHANGED <<runs, metadata, publications, served>>
    BY <1>1, <2>4
  <2>15. stragglers' \subseteq stragglers /\ rows' \in Seq(Copies) /\ Len(rows') = Len(rows)
    BY <2>4, <2>6
  <2>16. g \in 1..Size /\ g \notin Published
    BY <1>3
  <2>7. /\ CopiesInv' /\ ServedInv' /\ Size' \in Nat /\ Size' >= Size
        /\ metadata'.revision \in Nat /\ metadata'.revision >= metadata.revision
        /\ \A n \in 1..metadata.revision : publications'[n] = publications[n]
        /\ Published' \subseteq Published \cup {g} /\ Straggling' \subseteq Straggling \cup {g}
    BY ONLY LocationsInv, <2>12, <2>14, <2>15, <2>16, CopyWritten
  <2>8. Size' = Size /\ Published' = Published /\ Straggling' = Straggling
    BY <1>1, <2>4 DEF Size, Published, Straggling
  <2>9. rows'[g].provinces = Stored(rows'[g]) \cup todo \cup (inHand \ {p})
    BY <1>3, <1>4, <2>4, <2>6
  <2>10. SyncStands(j)'
    BY <1>3, <1>4, <2>2, <2>6, <2>8, <2>9 DEF SyncStands
  <2>11. \A k \in Handlers \ {h} : job[k].at \in Copying => job[k].generation # g
    BY <1>1, <1>2 DEF LocationsInv, SyncInv
  <2>13. SyncInv'
    <3>1. SyncJob(j) /\ job' = [job EXCEPT ![h] = j] /\ h \in Handlers
          /\ (j.at \in Copying => j.generation = g)
      BY <2>2, <2>3
    <3>2. Size' \in Nat /\ Size' >= Size /\ metadata'.revision \in Nat
          /\ metadata'.revision >= metadata.revision
      BY <2>7
    <3>3. /\ \A n \in 1..metadata.revision : publications'[n] = publications[n]
          /\ Published' \subseteq Published \cup {g} /\ Straggling' \subseteq Straggling \cup {g}
      BY <2>7
    <3> QED BY ONLY LocationsInv, <3>1, <3>2, <3>3, <2>10, <2>11, <2>12, SyncMoves
  <2> QED BY <2>7, <2>13 DEF LocationsInv
<1>7. CASE Locations!WorkerFails(h, p)
  <2>1. Locations!Fail(h, Locations!Working(h) \ {p}) /\ UNCHANGED rows
    BY <1>7 DEF Locations!WorkerFails, Locations!WorkerFailure
  <2>2. Locations!Working(h) \ {p} \in SUBSET Provinces
    BY <1>3 DEF Locations!Working
  <2> QED BY <1>1, <2>1, <2>2, FailStep
<1> QED BY <1>5, <1>6, <1>7

(* Nothing of a request's, and what goes on after it failed. *)
LEMMA OtherSteps ==
    ASSUME LocationsInv,
           \/ \E s \in stragglers : Locations!Straggle(s)
           \/ \E r \in DOMAIN publications : Locations!RetentionEnds(r)
           \/ Locations!LockExpires \/ Locations!onModuleInit
    PROVE  LocationsInv'
<1>1. CASE \/ \E r \in DOMAIN publications : Locations!RetentionEnds(r)
           \/ Locations!LockExpires \/ Locations!onModuleInit
  <2>1. UNCHANGED <<rows, metadata, publications, stragglers, served, job>>
    BY <1>1 DEF Locations!RetentionEnds, Locations!LockExpires, Locations!onModuleInit,
                Locations!catalog
  <2>2. runs' \in Seq(Statuses) /\ Len(runs') = Len(runs)
    <3>1. CASE Locations!onModuleInit
      BY <3>1, Reconciled DEF Locations!onModuleInit, LocationsInv
    <3>2. CASE UNCHANGED runs
      BY <3>2 DEF LocationsInv, CopiesInv
    <3> QED BY <1>1, <3>1, <3>2 DEF Locations!RetentionEnds, Locations!LockExpires
  <2>3. Size' = Size
    BY <2>2 DEF Size
  <2>4. CopiesInv'
    BY <2>1, <2>2, <2>3, SMTT(30) DEF LocationsInv, CopiesInv, Whole, Published, Straggling
  <2>5. SyncInv'
    BY <2>1, <2>3, SMTT(30) DEF LocationsInv, SyncInv, SyncStands, Whole, Published, Straggling
  <2>6. ServedInv'
    BY <2>1, <2>3, SMTT(30) DEF LocationsInv, ServedInv, Whole, Published, Straggling
  <2> QED BY <2>4, <2>5, <2>6 DEF LocationsInv
<1>2. ASSUME NEW s \in stragglers, Locations!Straggle(s) PROVE LocationsInv'
  <2>1. PICK g, p : g = s[1] /\ p = s[2]
    OBVIOUS
  <2>2. g \in 1..Size /\ p \in Provinces /\ g \in Straggling /\ g \notin Published
    BY <2>1 DEF LocationsInv, CopiesInv, Straggling, Published
  <2>3. UNCHANGED <<runs, metadata, publications, served, job>> /\ stragglers' \subseteq stragglers
        /\ rows' = [rows EXCEPT ![g].wards = @ \cup {p}]
    BY <1>2, <2>1 DEF Locations!Straggle, Locations!catalog
  <2>4. rows \in Seq(Copies) /\ g \in 1..Len(rows) /\ Len(rows) = Size
    BY <2>2 DEF LocationsInv, CopiesInv
  <2>5. /\ rows' \in Seq(Copies) /\ Len(rows') = Len(rows)
        /\ \A n \in 1..Len(rows) : n # g => rows'[n] = rows[n]
    <3>1. PICK b \in Copies : b = rows[g]
      BY <2>4
    <3>2. PICK c : c = [b EXCEPT !.wards = b.wards \cup {p}]
      OBVIOUS
    <3>3. c \in Copies
      BY <2>2, <3>2, CopyWithWards
    <3>4. rows' = [rows EXCEPT ![g] = c]
      BY <2>2, <2>3, <3>1, <3>2
    <3>5. rows' \in Seq(Copies) /\ Len(rows') = Len(rows) /\ rows'[g] = c
          /\ \A n \in 1..Len(rows) : n # g => rows'[n] = rows[n]
      BY ONLY <2>4, <3>3, <3>4, Replaced
    <3> QED BY <3>1, <3>3, <3>5
  <2>8. \A n \in 1..Size : n # g => rows'[n] = rows[n]
    BY <2>4, <2>5
  <2>11. UNCHANGED <<runs, metadata, publications, served>>
    BY <2>3
  <2>12. stragglers' \subseteq stragglers /\ rows' \in Seq(Copies) /\ Len(rows') = Len(rows)
    BY <2>3, <2>5
  <2>13. g \in 1..Size /\ g \notin Published
    BY <2>2
  <2>6. /\ CopiesInv' /\ ServedInv' /\ Size' \in Nat /\ Size' >= Size
        /\ metadata'.revision \in Nat /\ metadata'.revision >= metadata.revision
        /\ \A n \in 1..metadata.revision : publications'[n] = publications[n]
        /\ Published' \subseteq Published \cup {g} /\ Straggling' \subseteq Straggling \cup {g}
    BY ONLY LocationsInv, <2>8, <2>11, <2>12, <2>13, CopyWritten
  <2>7. \A k \in Handlers : job[k].at \in Copying => job[k].generation # g
    BY <2>2 DEF LocationsInv, SyncInv, SyncStands
  <2>9. \A k \in Handlers : SyncJob(job'[k]) /\ SyncStands(job[k])'
    BY <2>3, <2>6, <2>7, <2>8, SyncOthers
  <2>10. SyncInv'
    BY <2>3, <2>9 DEF LocationsInv, SyncInv
  <2> QED BY <2>6, <2>10 DEF LocationsInv
<1> QED BY <1>1, <1>2

(* The revision is read, then published. *)
LEMMA ReadRevisionStep ==
    ASSUME LocationsInv, NEW h \in Handlers, Locations!ReadRevision(h)
    PROVE  LocationsInv'
<1>1. UNCHANGED <<runs, rows, metadata, publications, stragglers, served>>
  BY DEF Locations!ReadRevision, Locations!catalog
<1>2. job[h].at = "WARDS" /\ job[h].todo = {} /\ job[h].inHand = {}
  BY DEF Locations!ReadRevision, Locations!At, Locations!Working
<1>3. PICK i : i = [job[h] EXCEPT !.at = "PUBLISH"]
  OBVIOUS
<1>4. PICK j : j = [i EXCEPT !.seen = metadata]
  OBVIOUS
<1>5. SyncJob(job[h]) /\ SyncStands(job[h])
  BY DEF LocationsInv, SyncInv
<1>6. SyncJob(i) /\ i.at = "PUBLISH" /\ i.generation = job[h].generation
  BY <1>3, <1>5, SyncWithAt
<1>7. SyncJob(j) /\ j.at = "PUBLISH" /\ j.generation = job[h].generation /\ j.seen = metadata
  BY <1>4, <1>6, SyncWithSeen
<1>8. job' = [job EXCEPT ![h] = j]
  BY <1>3, <1>4 DEF Locations!ReadRevision, Locations!Set
<1>9. metadata.revision \in 0..metadata.revision
  BY DEF LocationsInv, CopiesInv
<1>10. SyncStands(j) /\ job[h].at \in Copying
  BY <1>2, <1>5, <1>7, <1>9 DEF SyncStands, Copying, Whole
<1>11. runs' \in Seq(Statuses) /\ Len(runs') = Len(runs)
  BY <1>1 DEF LocationsInv, CopiesInv
<1> QED BY <1>1, <1>7, <1>8, <1>10, <1>11, SyncOnlyMoves

LEMMA PublishStep ==
    ASSUME LocationsInv, NEW h \in Handlers, Locations!Publish(h)
    PROVE  LocationsInv'
<1>1. job[h].at = "PUBLISH" /\ job[h].at \in Copying /\ UNCHANGED rows
  BY DEF Locations!Publish, Locations!At, Copying
<1>2. CASE Locations!RevisionTaken(h)
  <2>1. Locations!Fail(h, {}) /\ UNCHANGED <<metadata, publications, served>>
    BY <1>2 DEF Locations!Publish, Locations!catalog
  <2> QED BY <1>1, <2>1, FailStep
<1>3. CASE ~Locations!RevisionTaken(h)
  <2>1. PICK g, r : g = job[h].generation /\ r = job[h].seen.revision
    OBVIOUS
  <2>2. PICK m \in Nat : m = metadata.revision
    BY DEF LocationsInv, CopiesInv
  <2>3. g \in 1..Size /\ g \notin Published /\ g \notin Straggling /\ Whole(g) /\ r \in 0..m
    BY <1>1, <2>1, <2>2 DEF LocationsInv, SyncInv, SyncStands
  <2>4. r = m
    <3>1. r + 1 \notin 1..m
      BY <1>3, <2>1, <2>2 DEF Locations!RevisionTaken, LocationsInv, CopiesInv
    <3> QED BY <2>3, <3>1
  <2>5. /\ publications' = [n \in 1..(m + 1) |-> IF n = m + 1 THEN g ELSE publications[n]]
        /\ metadata' = [generation |-> g, revision |-> m + 1]
        /\ runs' = [runs EXCEPT ![g] = "SUCCEEDED"]
        /\ job' = [job EXCEPT ![h] = Locations!NoJob] /\ UNCHANGED <<served, stragglers>>
    BY <1>3, <2>1, <2>4 DEF Locations!Publish, Locations!Set
  <2>6. metadata'.revision = m + 1 /\ metadata'.generation = g /\ m + 1 >= m /\ m + 1 \in Nat
    BY <2>5
  <2>7. 1..m \subseteq 1..(m + 1) /\ m + 1 \in 1..(m + 1) /\ \A n \in 1..(m + 1) : n = m + 1 \/ n \in 1..m
    OBVIOUS
  <2>8. (\A n \in 1..m : publications'[n] = publications[n]) /\ publications'[m + 1] = g
    <3>1. m + 1 \notin 1..m
      OBVIOUS
    <3> QED BY <2>5, <2>7, <3>1
  <2>9. "SUCCEEDED" \in Statuses /\ runs \in Seq(Statuses) /\ g \in 1..Len(runs)
    BY <2>3 DEF Statuses, LocationsInv, CopiesInv, Size
  <2>10. runs' \in Seq(Statuses) /\ Len(runs') = Len(runs)
    BY <2>5, <2>9, Replaced
  <2>11. Size' = Size /\ Size \in Nat
    BY <2>10 DEF Size, LocationsInv, CopiesInv
  <2>12. publications \in [1..m -> 1..Size]
    BY <2>2 DEF LocationsInv, CopiesInv
  <2>13. publications' \in [1..(m + 1) -> 1..Size]
    <3>1. \A n \in 1..(m + 1) : publications'[n] \in 1..Size
      BY <2>3, <2>7, <2>8, <2>12
    <3> QED BY <2>5, <3>1
  <2>14. Published' \subseteq Published \cup {g} /\ Straggling' = Straggling
    BY <2>2, <2>5, <2>6, <2>7, <2>8 DEF Published, Straggling
  <2>15. \A n \in 1..m : Whole(publications[n]) /\ publications[n] \notin Straggling
    BY <2>2 DEF LocationsInv, CopiesInv
  <2>16. \A n \in 1..(m + 1) : /\ Stored(rows'[publications'[n]]) = rows'[publications'[n]].provinces
                               /\ rows'[publications'[n]].provinces # {}
                               /\ publications'[n] \notin Straggling'
    BY <1>1, <2>3, <2>7, <2>8, <2>14, <2>15 DEF Whole
  <2>17. CopiesInv'
    <3>1. rows' \in Seq(Copies) /\ Len(rows') = Size' /\ stragglers' \subseteq (1..Size') \X Provinces
      BY <1>1, <2>5, <2>11 DEF LocationsInv, CopiesInv
    <3>2. metadata'.generation \in 0..Size'
      BY <2>3, <2>6, <2>11
    <3> QED BY <2>6, <2>8, <2>10, <2>11, <2>13, <2>16, <3>1, <3>2 DEF CopiesInv, Whole
  <2>18. metadata'.revision \in Nat /\ metadata'.revision >= metadata.revision
         /\ \A n \in 1..metadata.revision : publications'[n] = publications[n]
    BY <2>2, <2>6, <2>8
  <2>19. ServedInv'
    BY <2>5, <2>18, ServedCarried DEF LocationsInv
  <2>20. SyncStands(Locations!NoJob)' /\ Locations!NoJob.at \notin Copying
    BY SyncIdle DEF SyncStands, Copying
  <2>21. \A k \in Handlers \ {h} : job[k].at \in Copying => job[k].generation # g
    BY <1>1, <2>1 DEF LocationsInv, SyncInv
  <2>22. Size' \in Nat /\ Size' >= Size /\ (\A n \in 1..Size : n # g => rows'[n] = rows[n])
         /\ Straggling' \subseteq Straggling \cup {g}
    BY <1>1, <2>11, <2>14
  <2>23. SyncInv'
    BY <2>5, <2>14, <2>18, <2>20, <2>21, <2>22, SyncIdle, SyncMoves
  <2> QED BY <2>17, <2>19, <2>23 DEF LocationsInv
<1> QED BY <1>2, <1>3

(* A request dies; a reader is given the metadata, then the rows. *)
LEMMA ReaderSteps ==
    ASSUME LocationsInv, NEW h \in Handlers,
           \/ Locations!Crash(h) \/ Locations!ReadRows(h)
           \/ \E r \in {0} \cup DOMAIN publications : Locations!ReadMetadata(h, r)
    PROVE  LocationsInv'
<1>1. UNCHANGED <<runs, rows, metadata, publications, stragglers>>
  BY DEF Locations!Crash, Locations!ReadRows, Locations!ReadMetadata, Locations!catalog
<1>2. runs' \in Seq(Statuses) /\ Len(runs') = Len(runs)
  BY <1>1 DEF LocationsInv, CopiesInv
<1>3. SyncStands(Locations!NoJob) /\ Locations!NoJob.at \notin Copying
  BY SyncIdle, SyncIdleStands DEF Copying
<1>4. CASE Locations!Crash(h)
  <2>1. job' = [job EXCEPT ![h] = Locations!NoJob] /\ UNCHANGED served
    BY <1>4 DEF Locations!Crash, Locations!Set, Locations!catalog
  <2> QED BY <1>1, <1>2, <1>3, <2>1, SyncIdle, SyncOnlyMoves
<1>5. CASE Locations!ReadRows(h)
  <2>1. job' = [job EXCEPT ![h] = Locations!NoJob] /\ job[h].at = "READ"
    BY <1>5 DEF Locations!ReadRows, Locations!Set, Locations!At
  <2>2. PICK c, j : c = Locations!getPublishedCatalog(j) /\ j = job[h]
    OBVIOUS
  <2>3. /\ j.seen.revision \in 0..metadata.revision
        /\ j.seen.revision # 0 => j.seen.generation = publications[j.seen.revision]
        /\ DOMAIN publications = 1..metadata.revision /\ metadata.revision \in Nat
    BY <2>1, <2>2 DEF LocationsInv, CopiesInv, SyncInv, SyncStands
  <2>4. c.revision # 0 => c.revision \in 1..metadata.revision /\ c.generation = publications[c.revision]
    <3>1. CASE c = j.seen
      BY <2>3, <3>1
    <3>2. CASE \E r \in DOMAIN publications : c = [generation |-> publications[r], revision |-> r]
      BY <2>3, <3>2
    <3>3. CASE c \in {Locations!NoCatalog, [generation |-> 1, revision |-> 0]}
      BY <3>3 DEF Locations!NoCatalog
    <3> QED BY <2>2, <3>1, <3>2, <3>3 DEF Locations!getPublishedCatalog
  <2>5. c.revision # 0 => Whole(c.generation)
    BY <2>4 DEF LocationsInv, CopiesInv
  <2>6. PICK e : e = [revision |-> c.revision, generation |-> c.generation, rows |-> rows[c.generation]]
    OBVIOUS
  <2>7. e.revision = c.revision /\ e.generation = c.generation /\ e.rows = rows[c.generation]
    BY <2>6
  <2>8. served' = IF c.revision = 0 THEN served ELSE served \cup {e}
    BY <1>5, <2>2, <2>6 DEF Locations!ReadRows
  <2>9. ServedInv'
    <3>1. CASE c.revision = 0
      BY <1>1, <2>8, <3>1 DEF LocationsInv, ServedInv
    <3>2. CASE c.revision # 0
      BY <1>1, <2>4, <2>5, <2>7, <2>8, <3>2 DEF LocationsInv, ServedInv, Whole
    <3> QED BY <3>1, <3>2
  <2> QED BY <1>1, <1>2, <1>3, <2>1, <2>9, SyncIdle, SyncOnlyMoves
<1>6. ASSUME NEW r \in {0} \cup DOMAIN publications, Locations!ReadMetadata(h, r) PROVE LocationsInv'
  <2>1. PICK i : i = [Locations!NoJob EXCEPT !.at = "READ"]
    OBVIOUS
  <2>2. PICK k : k = [i EXCEPT !.seen = metadata]
    OBVIOUS
  <2>3. PICK j : j = [k EXCEPT !.revision = r]
    OBVIOUS
  <2>4. SyncJob(i) /\ i.at = "READ"
    BY <2>1, SyncIdle, SyncWithAt
  <2>5. SyncJob(k) /\ k.at = "READ" /\ k.seen = metadata
    BY <2>2, <2>4, SyncWithSeen
  <2>6. SyncJob(j) /\ j.at = "READ" /\ j.seen = metadata /\ j.revision = r
    BY <2>3, <2>5, SyncWithRevision
  <2>7. job' = [job EXCEPT ![h] = j] /\ UNCHANGED served
    BY <1>6, <2>1, <2>2, <2>3 DEF Locations!ReadMetadata, Locations!Set, Locations!catalog
  <2>8. PICK m \in Nat : m = metadata.revision
    BY DEF LocationsInv, CopiesInv
  <2>9. r \in 0..m /\ m \in 0..m
    BY <2>8 DEF LocationsInv, CopiesInv
  <2>11. m # 0 => metadata.generation = publications[m]
    BY <2>8 DEF LocationsInv, CopiesInv
  <2>12. SyncStands(j) /\ j.at \notin Copying
    BY <2>6, <2>8, <2>9, <2>11 DEF SyncStands, Copying
  <2> QED BY <1>1, <1>2, <2>6, <2>7, <2>12, SyncOnlyMoves
<1> QED BY <1>4, <1>5, <1>6

LEMMA LocationsStart == Locations!Init => LocationsInv
<1> SUFFICES ASSUME Locations!Init PROVE LocationsInv
  OBVIOUS
<1>1. \A h \in Handlers : job[h] = Locations!NoJob
  BY DEF Locations!Init
<1>2. runs = <<>> /\ rows = <<>> /\ publications = <<>> /\ stragglers = {} /\ served = {}
      /\ metadata.revision = 0 /\ metadata.generation = 0
  BY DEF Locations!Init, Locations!NoCatalog
<1>3. Size = 0
  BY <1>2 DEF Size
<1>4. publications \in [1..0 -> 1..0]
  BY <1>2
<1>5. CopiesInv
  BY <1>2, <1>3, <1>4 DEF CopiesInv
<1>6. \A h \in Handlers : SyncJob(job[h]) /\ SyncStands(job[h]) /\ job[h].at \notin Copying
  BY <1>1, SyncIdle, SyncIdleStands DEF Copying
<1>7. SyncInv
  BY <1>6 DEF Locations!Init, SyncInv
<1>8. ServedInv
  BY <1>2 DEF ServedInv
<1> QED BY <1>5, <1>7, <1>8 DEF LocationsInv

LEMMA LocationsStep == ASSUME LocationsInv, [Locations!Next]_(Locations!vars) PROVE LocationsInv'
<1>1. CASE UNCHANGED Locations!vars
  <2>1. UNCHANGED <<runs, rows, metadata, publications, stragglers, served, job>>
    BY <1>1 DEF Locations!vars
  <2>2. CopiesInv'
    BY <2>1 DEF LocationsInv, CopiesInv, Whole, Straggling, Size
  <2>3. \A x : SyncStands(x) => SyncStands(x)'
    BY <2>1 DEF SyncStands, Whole, Published, Straggling, Size
  <2>4. SyncInv'
    BY <2>1, <2>3 DEF LocationsInv, SyncInv
  <2>5. ServedInv'
    BY <2>1 DEF LocationsInv, ServedInv
  <2> QED BY <2>2, <2>4, <2>5 DEF LocationsInv
<1>2. CASE Locations!Next
  BY <1>2, StartSteps, CreateSteps, FetchProvincesStep, WardsSteps, OtherSteps, ReadRevisionStep,
     PublishStep, ReaderSteps DEF Locations!Next
<1> QED BY <1>1, <1>2

LEMMA LocationsShown == LocationsInv => Locations!RevisionIsOneWholeCatalog
BY DEF LocationsInv, ServedInv, Stored, Locations!RevisionIsOneWholeCatalog

(* By one revision a client is always given the same copy, with the wards of every province the
   carrier's answer had any for, for any number of synchronisations, empty answers, provinces, readers, lost locks, deaths and workers that go
   on after their run failed (ghn-location-sync.service.ts, shipping.service.ts). *)
THEOREM RevisionIsOneWholeCatalogHolds == Spec => []RevisionIsOneWholeCatalog
<1>1. Init => (scope = "Locations" => LocationsInv)
  BY LocationsStart DEF Init
<1>2. (scope = "Locations" => LocationsInv) /\ [Next]_vars => (scope = "Locations" => LocationsInv)'
  <2>1. [Next]_vars /\ scope' = "Locations" => scope = "Locations" /\ [Locations!Next]_(Locations!vars)
    BY DEF Next, vars, shared, locations, Locations!vars
  <2> QED BY <2>1, LocationsStep
<1>3. (scope = "Locations" => LocationsInv) => RevisionIsOneWholeCatalog
  BY LocationsShown DEF RevisionIsOneWholeCatalog
<1> QED BY <1>1, <1>2, <1>3, PTL DEF Spec

-----------------------------------------------------------------------------
(* Sessions: what is revoked stays out, and a refresh sent again is served *)

\* What a request has still to do, and the first of it.
Todos == {<<>>, <<"ISSUE">>, <<"ISSUE", "CODE">>, <<"CODE">>, <<"DROP_CODE">>,
          <<"MARK", "DELETE", "ISSUE">>, <<"DELETE", "ISSUE">>,
          <<"GRACE", "UNBLOCKED", "ISSUE">>, <<"UNBLOCKED", "ISSUE">>,
          <<"BLOCK", "DELETE_ALL", "BLACKLIST">>, <<"DELETE_ALL", "BLACKLIST">>,
          <<"BLOCK", "DELETE_ALL">>, <<"DELETE_ALL">>, <<"BLACKLIST">>}
First(q) == IF q = <<>> THEN "NONE" ELSE Head(q)

LEMMA NothingFirst == First(<<>>) = "NONE"
BY DEF First

LEMMA ShortTodos ==
    ASSUME NEW a, NEW q, q = <<a>>
    PROVE  q # <<>> /\ Len(q) = 1 /\ First(q) = a /\ Tail(q) = <<>> /\ Sessions!Last(q) = a
BY DEF First, Sessions!Last

LEMMA PairTodos ==
    ASSUME NEW a, NEW b, NEW q, q = <<a, b>>
    PROVE  q # <<>> /\ Len(q) = 2 /\ First(q) = a /\ Tail(q) = <<b>> /\ Sessions!Last(q) = b
BY DEF First, Sessions!Last

LEMMA LongTodos ==
    ASSUME NEW a, NEW b, NEW c, NEW q, q = <<a, b, c>>
    PROVE  q # <<>> /\ Len(q) = 3 /\ First(q) = a /\ Tail(q) = <<b, c>> /\ Sessions!Last(q) = c
BY DEF First, Sessions!Last

LEMMA AfterFirst ==
    ASSUME NEW q \in Todos, q # <<>>
    PROVE  /\ Tail(q) \in Todos /\ (Len(q) = 1 => Tail(q) = <<>>)
           /\ First(q) = "MARK" => First(Tail(q)) = "DELETE"
           /\ First(q) = "GRACE" => First(Tail(q)) = "UNBLOCKED" /\ Len(q) = 3
           /\ First(q) = "BLOCK" => First(Tail(q)) = "DELETE_ALL"
           /\ First(q) # "MARK" => First(Tail(q)) # "DELETE"
           /\ First(q) # "BLOCK" => First(Tail(q)) # "DELETE_ALL"
           /\ First(Tail(q)) \notin {"MARK", "GRACE"}
           /\ First(q) = "MARK" => Sessions!Last(q) = "ISSUE"
<1>1. CASE \E a \in {"ISSUE", "CODE", "DROP_CODE", "DELETE_ALL", "BLACKLIST"} : q = <<a>>
  <2>1. PICK a \in {"ISSUE", "CODE", "DROP_CODE", "DELETE_ALL", "BLACKLIST"} : q = <<a>>
    BY <1>1
  <2>2. Len(q) = 1 /\ First(q) = a /\ Tail(q) = <<>>
    BY <2>1, ShortTodos
  <2> QED BY <2>2, NothingFirst DEF Todos
<1>2. CASE q = <<"ISSUE", "CODE">>
  <2>1. Len(q) = 2 /\ First(q) = "ISSUE" /\ Tail(q) = <<"CODE">>
    BY <1>2, PairTodos
  <2>2. First(Tail(q)) = "CODE"
    BY <2>1, ShortTodos
  <2> QED BY <2>1, <2>2 DEF Todos
<1>3. CASE q = <<"DELETE", "ISSUE">>
  <2>1. Len(q) = 2 /\ First(q) = "DELETE" /\ Tail(q) = <<"ISSUE">>
    BY <1>3, PairTodos
  <2>2. First(Tail(q)) = "ISSUE"
    BY <2>1, ShortTodos
  <2> QED BY <2>1, <2>2 DEF Todos
<1>4. CASE q = <<"UNBLOCKED", "ISSUE">>
  <2>1. Len(q) = 2 /\ First(q) = "UNBLOCKED" /\ Tail(q) = <<"ISSUE">>
    BY <1>4, PairTodos
  <2>2. First(Tail(q)) = "ISSUE"
    BY <2>1, ShortTodos
  <2> QED BY <2>1, <2>2 DEF Todos
<1>5. CASE q = <<"DELETE_ALL", "BLACKLIST">>
  <2>1. Len(q) = 2 /\ First(q) = "DELETE_ALL" /\ Tail(q) = <<"BLACKLIST">>
    BY <1>5, PairTodos
  <2>2. First(Tail(q)) = "BLACKLIST"
    BY <2>1, ShortTodos
  <2> QED BY <2>1, <2>2 DEF Todos
<1>6. CASE q = <<"BLOCK", "DELETE_ALL">>
  <2>1. Len(q) = 2 /\ First(q) = "BLOCK" /\ Tail(q) = <<"DELETE_ALL">>
    BY <1>6, PairTodos
  <2>2. First(Tail(q)) = "DELETE_ALL"
    BY <2>1, ShortTodos
  <2> QED BY <2>1, <2>2 DEF Todos
<1>7. CASE q = <<"MARK", "DELETE", "ISSUE">>
  <2>1. Len(q) = 3 /\ First(q) = "MARK" /\ Tail(q) = <<"DELETE", "ISSUE">> /\ Sessions!Last(q) = "ISSUE"
    BY <1>7, LongTodos
  <2>2. First(Tail(q)) = "DELETE"
    BY <2>1, PairTodos
  <2> QED BY <2>1, <2>2 DEF Todos
<1>8. CASE q = <<"GRACE", "UNBLOCKED", "ISSUE">>
  <2>1. Len(q) = 3 /\ First(q) = "GRACE" /\ Tail(q) = <<"UNBLOCKED", "ISSUE">>
    BY <1>8, LongTodos
  <2>2. First(Tail(q)) = "UNBLOCKED"
    BY <2>1, PairTodos
  <2> QED BY <2>1, <2>2 DEF Todos
<1>9. CASE q = <<"BLOCK", "DELETE_ALL", "BLACKLIST">>
  <2>1. Len(q) = 3 /\ First(q) = "BLOCK" /\ Tail(q) = <<"DELETE_ALL", "BLACKLIST">>
    BY <1>9, LongTodos
  <2>2. First(Tail(q)) = "DELETE_ALL"
    BY <2>1, PairTodos
  <2> QED BY <2>1, <2>2 DEF Todos
<1> QED BY <1>1, <1>2, <1>3, <1>4, <1>5, <1>6, <1>7, <1>8, <1>9 DEF Todos

\* Every place of t in q has the block behind it.
Covered(q, t) == \A i \in 1..Len(q) : q[i] = t => \E k \in 1..Len(q) : i < k /\ q[k] = 0
Members(q)    == {q[i] : i \in 1..Len(q)}

(* The first key expires. *)
LEMMA WithoutFirst ==
    ASSUME NEW q \in Seq(Nat), q # <<>>, NEW r, r = Tail(q)
    PROVE  /\ r \in Seq(Nat) /\ Members(q) \subseteq Members(r) \cup {Head(q)}
           /\ \A t \in Nat : Covered(q, t) => Covered(r, t)
<1>1. PICK l \in Nat : l = Len(q) /\ l >= 1
  OBVIOUS
<1>2. r \in Seq(Nat) /\ Len(r) = l - 1 /\ \A i \in 1..(l - 1) : r[i] = q[i + 1]
  BY <1>1
<1>3. Members(q) \subseteq Members(r) \cup {Head(q)}
  <2>1. ASSUME NEW i \in 1..l, i # 1 PROVE q[i] \in Members(r)
    <3>1. i - 1 \in 1..(l - 1) /\ r[i - 1] = q[i]
      BY <1>1, <1>2, <2>1
    <3> QED BY <1>2, <3>1 DEF Members
  <2>2. Head(q) = q[1]
    OBVIOUS
  <2> QED BY <1>1, <2>1, <2>2 DEF Members
<1>4. ASSUME NEW t \in Nat, Covered(q, t) PROVE Covered(r, t)
  <2> SUFFICES ASSUME NEW i \in 1..(l - 1), r[i] = t
               PROVE  \E k \in 1..(l - 1) : i < k /\ r[k] = 0
    BY <1>2 DEF Covered
  <2>1. i + 1 \in 1..l /\ q[i + 1] = t
    BY <1>1, <1>2
  <2>2. PICK k \in 1..l : i + 1 < k /\ q[k] = 0
    BY <1>1, <1>4, <2>1 DEF Covered
  <2>3. k - 1 \in 1..(l - 1) /\ i < k - 1 /\ r[k - 1] = q[k]
    BY <1>1, <1>2, <2>2
  <2> QED BY <2>2, <2>3
<1> QED BY <1>2, <1>3, <1>4

(* A key is added behind the others, *)
LEMMA WithLast ==
    ASSUME NEW q \in Seq(Nat), NEW x \in Nat, NEW r, r = Append(q, x)
    PROVE  /\ r \in Seq(Nat) /\ Members(r) = Members(q) \cup {x}
           /\ \A t \in Nat : t # x /\ Covered(q, t) => Covered(r, t)
           /\ x = 0 => \A t \in Nat \ {0} : Covered(r, t)
<1>1. PICK l \in Nat : l = Len(q)
  OBVIOUS
<1>2. r \in Seq(Nat) /\ Len(r) = l + 1 /\ r[l + 1] = x /\ \A i \in 1..l : r[i] = q[i]
  BY <1>1
<1>3. 1..(l + 1) = 1..l \cup {l + 1}
  BY <1>1
<1>4. Members(r) = Members(q) \cup {x}
  BY <1>1, <1>2, <1>3 DEF Members
<1>5. ASSUME NEW t \in Nat, t # x, Covered(q, t) PROVE Covered(r, t)
  <2> SUFFICES ASSUME NEW i \in 1..(l + 1), r[i] = t
               PROVE  \E k \in 1..(l + 1) : i < k /\ r[k] = 0
    BY <1>2 DEF Covered
  <2>1. i \in 1..l /\ q[i] = t
    BY <1>2, <1>3, <1>5
  <2>2. PICK k \in 1..l : i < k /\ q[k] = 0
    BY <1>1, <1>5, <2>1 DEF Covered
  <2>3. k \in 1..(l + 1) /\ r[k] = 0
    BY <1>2, <1>3, <2>2
  <2> QED BY <2>2, <2>3
<1>6. ASSUME x = 0, NEW t \in Nat \ {0} PROVE Covered(r, t)
  <2> SUFFICES ASSUME NEW i \in 1..(l + 1), r[i] = t
               PROVE  \E k \in 1..(l + 1) : i < k /\ r[k] = 0
    BY <1>2 DEF Covered
  <2>1. i \in 1..l
    BY <1>2, <1>3, <1>6
  <2>2. i < l + 1 /\ l + 1 \in 1..(l + 1) /\ r[l + 1] = 0
    BY <1>2, <1>6, <2>1
  <2> QED BY <2>2
<1> QED BY <1>2, <1>4, <1>5, <1>6

(* and is taken out of its old place before. *)
LEMMA WithoutOne ==
    ASSUME NEW q \in Seq(Nat), NEW n \in 1..Len(q), NEW r, r = Sessions!RemoveAt(q, n)
    PROVE  /\ r \in Seq(Nat) /\ Members(r) \subseteq Members(q)
           /\ Members(q) \subseteq Members(r) \cup {q[n]}
           /\ \A t \in Nat : q[n] # 0 /\ Covered(q, t) => Covered(r, t)
<1>1. PICK l \in Nat : l = Len(q) /\ n \in 1..l
  OBVIOUS
<1>2. PICK a, b : a = SubSeq(q, 1, n - 1) /\ b = SubSeq(q, n + 1, l)
  OBVIOUS
<1>3. r = a \o b
  BY <1>1, <1>2 DEF Sessions!RemoveAt
<1>4. /\ a \in Seq(Nat) /\ Len(a) = n - 1 /\ \A i \in 1..(n - 1) : a[i] = q[i]
      /\ b \in Seq(Nat) /\ Len(b) = l - n /\ \A i \in 1..(l - n) : b[i] = q[n + i]
  <2>1. n \in Nat /\ n - 1 \in 0..l /\ n + 1 \in 1..(l + 1)
    BY <1>1
  <2>2. a \in Seq(Nat) /\ Len(a) = n - 1 /\ \A i \in 1..(n - 1) : a[i] = q[i]
    BY <1>1, <1>2, <2>1, SubSeqProperties
  <2>3. b \in Seq(Nat) /\ Len(b) = l - n /\ \A i \in 1..(l - n) : b[i] = q[n + i]
    BY <1>1, <1>2, <2>1, SubSeqProperties
  <2> QED BY <2>2, <2>3
<1>5. r \in Seq(Nat) /\ Len(r) = l - 1 /\ \A i \in 1..(l - 1) : r[i] = IF i <= n - 1 THEN a[i] ELSE b[i - (n - 1)]
  <2>1. PICK c, d \in Nat : c = Len(a) /\ d = Len(b)
    BY <1>4
  <2>2. Len(a \o b) = c + d /\ a \o b \in Seq(Nat)
    BY <1>4, <2>1, ConcatProperties
  <2>3. \A i \in 1..(c + d) : (a \o b)[i] = IF i <= c THEN a[i] ELSE b[i - c]
    BY <1>4, <2>1, ConcatProperties
  <2>4. c = n - 1 /\ d = l - n /\ n \in Nat /\ l \in Nat
    BY <1>1, <1>4, <2>1
  <2>5. c + d = l - 1
    BY <2>1, <2>4
  <2> QED BY <1>3, <2>2, <2>3, <2>4, <2>5
<1>6. \A i \in 1..(l - 1) : r[i] = IF i < n THEN q[i] ELSE q[i + 1]
  <2> TAKE i \in 1..(l - 1)
  <2>1. CASE i < n
    <3>1. i <= n - 1 /\ i \in 1..(n - 1)
      BY <1>1, <2>1
    <3> QED BY <1>4, <1>5, <2>1, <3>1
  <2>2. CASE ~(i < n)
    <3>1. PICK k \in 1..(l - n) : k = i - (n - 1)
      <4>1. i - (n - 1) \in 1..(l - n)
        BY <1>1, <2>2
      <4> QED BY <4>1
    <3>2. ~(i <= n - 1) /\ n + k = i + 1
      BY <1>1, <2>2, <3>1
    <3>3. r[i] = b[k]
      BY <1>5, <3>1, <3>2
    <3> QED BY <1>4, <2>2, <3>2, <3>3
  <2> QED BY <2>1, <2>2
<1>7. Members(r) \subseteq Members(q)
  <2>1. \A i \in 1..(l - 1) : i \in 1..l /\ i + 1 \in 1..l
    BY <1>1
  <2>2. \A i \in 1..(l - 1) : \E k \in 1..l : r[i] = q[k]
    BY <1>6, <2>1
  <2>3. \A i \in 1..(l - 1) : r[i] \in Members(q)
    BY <1>1, <2>2 DEF Members
  <2>4. Members(r) = {r[i] : i \in 1..(l - 1)}
    BY <1>5 DEF Members
  <2> QED BY <2>3, <2>4
<1>8. ASSUME NEW i \in 1..l, i # n
      PROVE  \E m \in 1..(l - 1) : r[m] = q[i] /\ m = IF i < n THEN i ELSE i - 1
  <2>1. CASE i < n
    <3>1. i \in 1..(l - 1)
      BY <1>1, <2>1
    <3> QED BY <1>6, <2>1, <3>1
  <2>2. CASE ~(i < n)
    <3>1. i - 1 \in 1..(l - 1) /\ ~(i - 1 < n) /\ i - 1 + 1 = i
      BY <1>1, <1>8, <2>2
    <3> QED BY <1>6, <2>2, <3>1
  <2> QED BY <2>1, <2>2
<1>9. Members(q) \subseteq Members(r) \cup {q[n]}
  <2>1. \A i \in 1..l : i # n => \E m \in 1..(l - 1) : r[m] = q[i]
    BY <1>8
  <2>2. \A i \in 1..l : q[i] \in Members(r) \cup {q[n]}
    BY <1>5, <2>1 DEF Members
  <2> QED BY <1>1, <2>2 DEF Members
<1>10. ASSUME NEW t \in Nat, q[n] # 0, Covered(q, t) PROVE Covered(r, t)
  <2> SUFFICES ASSUME NEW i \in 1..(l - 1), r[i] = t
               PROVE  \E k \in 1..(l - 1) : i < k /\ r[k] = 0
    BY <1>5 DEF Covered
  <2>1. PICK y \in 1..l : q[y] = t /\ y # n /\ i = IF y < n THEN y ELSE y - 1
    <3>1. CASE i < n
      <4>1. i \in 1..l
        BY <1>1
      <4> QED BY <1>6, <3>1, <4>1
    <3>2. CASE ~(i < n)
      <4>1. i + 1 \in 1..l /\ i + 1 # n /\ ~(i + 1 < n) /\ i = (i + 1) - 1
        BY <1>1, <3>2
      <4> QED BY <1>6, <3>2, <4>1
    <3> QED BY <3>1, <3>2
  <2>2. PICK z \in 1..l : y < z /\ q[z] = 0
    BY <1>1, <1>10, <2>1 DEF Covered
  <2>3. PICK m \in 1..(l - 1) : r[m] = q[z] /\ m = IF z < n THEN z ELSE z - 1
    BY <1>8, <1>10, <2>2
  <2>4. i < m
    BY <1>1, <1>10, <2>1, <2>2, <2>3
  <2> QED BY <2>2, <2>3, <2>4
<1> QED BY <1>5, <1>7, <1>9, <1>10

(* A key that is set is the last. *)
LEMMA KeySet ==
    ASSUME keys \in Seq(Nat), NEW x \in Nat, Sessions!SetKey(x)
    PROVE  /\ keys' \in Seq(Nat) /\ Members(keys) \subseteq Members(keys') /\ x \in Members(keys')
           /\ \A t \in Nat : t # x /\ Covered(keys, t) => Covered(keys', t)
           /\ x = 0 => \A t \in Nat \ {0} : Covered(keys', t)
<1>1. CASE ~Sessions!Holds(x)
  <2>1. keys' = Append(keys, x)
    BY <1>1 DEF Sessions!SetKey
  <2>2. keys \in Seq(Nat) /\ x \in Nat
    OBVIOUS
  <2>3. /\ keys' \in Seq(Nat) /\ Members(keys') = Members(keys) \cup {x}
        /\ \A t \in Nat : t # x /\ Covered(keys, t) => Covered(keys', t)
        /\ x = 0 => \A t \in Nat \ {0} : Covered(keys', t)
    BY ONLY <2>1, <2>2, WithLast
  <2> QED BY <2>3
<1>2. CASE Sessions!Holds(x)
  <2>1. PICK n \in DOMAIN keys : keys[n] = x /\ keys' = Append(Sessions!RemoveAt(keys, n), x)
    BY <1>2 DEF Sessions!SetKey
  <2>2. PICK r : r = Sessions!RemoveAt(keys, n)
    OBVIOUS
  <2>3. n \in 1..Len(keys)
    BY <2>1
  <2>4. /\ r \in Seq(Nat) /\ Members(keys) \subseteq Members(r) \cup {x}
        /\ \A t \in Nat : x # 0 /\ Covered(keys, t) => Covered(r, t)
    BY <2>1, <2>2, <2>3, WithoutOne
  <2>5. keys' = Append(r, x)
    BY <2>1, <2>2
  <2>6. /\ keys' \in Seq(Nat) /\ Members(keys') = Members(r) \cup {x}
        /\ \A t \in Nat : t # x /\ Covered(r, t) => Covered(keys', t)
        /\ x = 0 => \A t \in Nat \ {0} : Covered(keys', t)
    <3>1. x \in Nat
      OBVIOUS
    <3> QED BY ONLY <2>4, <2>5, <3>1, WithLast
  <2>7. \A t \in Nat : t # x /\ Covered(keys, t) => Covered(keys', t)
    BY <2>4, <2>6
  <2> QED BY <2>4, <2>6, <2>7
<1> QED BY <1>1, <1>2

LEMMA HoldsIs == ASSUME keys \in Seq(Nat), NEW t PROVE Sessions!Holds(t) <=> t \in Members(keys)
BY DEF Sessions!Holds, Sessions!ToSet, Members

-----------------------------------------------------------------------------

SesJob(j) == j = [todo |-> j.todo, token |-> j.token] /\ j.todo \in Todos /\ j.token \in Nat
Given     == 1..issued
Calm      == faults = 0

\* What a request that acts next on a token knows of it: one it deletes has its grace, one
\* whose grace it looks for has no row; who is about to delete all rows has set the block
\* behind every token but those exchanged meanwhile.
SesStands(j) ==
    /\ First(j.todo) = "MARK" => j.token \in Given \ revoked
    /\ First(j.todo) = "DELETE" => j.token \in ended \cup Members(keys)
    /\ First(j.todo) = "GRACE" => j.token \in Given \ rows
    /\ First(j.todo) = "DELETE_ALL" =>
          (Calm => \A t \in Nat \ ({0} \cup late) : Covered(keys, t))

TokensInv ==
    /\ issued \in Nat /\ faults \in Nat
    /\ keys \in Seq(Nat) /\ hidden \in Seq(Nat)
    /\ rows \subseteq Given /\ expired \subseteq ended
    /\ Given \subseteq rows \cup ended \cup Members(keys)
RequestsInv ==
    /\ job = [h \in Handlers |-> job[h]]
    /\ \A h \in Handlers : SesJob(job[h]) /\ SesStands(job[h])
RevokedInv ==
    /\ revoked \subseteq Given \ rows
    /\ Calm => \A t \in revoked : Covered(keys, t)

SessionsInv == TokensInv /\ RequestsInv /\ RevokedInv

LEMMA SesIdle == SesJob(Sessions!NoJob) /\ First(Sessions!NoJob.todo) = "NONE"
BY NothingFirst DEF SesJob, Todos, Sessions!NoJob

LEMMA SesMade ==
    ASSUME NEW q \in Todos, NEW t \in Nat, NEW j, j = [todo |-> q, token |-> t]
    PROVE  SesJob(j) /\ j.todo = q /\ j.token = t
BY DEF SesJob

(* The next step of a request. *)
LEMMA SesNext ==
    ASSUME NEW h \in Handlers, RequestsInv, job[h].todo # <<>>, Sessions!Next1(h)
    PROVE  \E j : /\ SesJob(j) /\ job' = [job EXCEPT ![h] = j]
                  /\ First(j.todo) = First(Tail(job[h].todo))
                  /\ j.token = job[h].token \/ First(j.todo) = "NONE"
<1>1. PICK q \in Todos, t \in Nat : q = job[h].todo /\ t = job[h].token /\ q # <<>>
  BY DEF RequestsInv, SesJob
<1>2. job[h] = [todo |-> q, token |-> t]
  BY <1>1 DEF RequestsInv, SesJob
<1>3. Tail(q) \in Todos /\ (Len(q) = 1 => Tail(q) = <<>>)
  BY <1>1, AfterFirst
<1>4. CASE Len(q) = 1
  <2>1. job' = [job EXCEPT ![h] = Sessions!NoJob]
    BY <1>1, <1>4 DEF Sessions!Next1, Sessions!Done
  <2>2. First(Tail(q)) = "NONE"
    BY <1>3, <1>4, NothingFirst
  <2> QED BY <1>1, <2>1, <2>2, SesIdle
<1>5. CASE Len(q) # 1
  <2>1. PICK j : j = [todo |-> Tail(q), token |-> t]
    OBVIOUS
  <2>2. SesJob(j) /\ j.todo = Tail(q) /\ j.token = t
    BY <1>1, <1>3, <2>1, SesMade
  <2>3. PICK i : i = job[h] /\ i = [todo |-> q, token |-> t]
    BY <1>2
  <2>5. [i EXCEPT !.todo = Tail(q)] = j
    BY <2>1, <2>3
  <2>6. job' = [job EXCEPT ![h] = [i EXCEPT !.todo = Tail(q)]]
    BY <1>1, <1>5, <2>3 DEF Sessions!Next1
  <2>4. job' = [job EXCEPT ![h] = j]
    BY <2>5, <2>6
  <2> QED BY <1>1, <2>2, <2>4
<1> QED BY <1>4, <1>5

(* Nobody else's knowledge is lost. *)
LEMMA SesCarried ==
    ASSUME TokensInv, NEW x, SesJob(x), SesStands(x),
           issued' \in Nat, issued' >= issued, faults' = 0 => faults = 0,
           rows' \cap Given \subseteq rows, ended \subseteq ended', late \subseteq late',
           Members(keys) \subseteq Members(keys') \cup ended',
           faults' = 0 /\ First(x.todo) = "DELETE_ALL" =>
               \A t \in Nat \ ({0} \cup late') : Covered(keys, t) => Covered(keys', t),
           First(x.todo) = "MARK" => x.token \notin revoked'
    PROVE  SesStands(x)'
<1>1. Given \subseteq Given'
  BY DEF Given, TokensInv
<1>2. First(x.todo) = "MARK" => x.token \in Given' \ revoked'
  BY <1>1 DEF SesStands
<1>3. First(x.todo) = "DELETE" => x.token \in ended' \cup Members(keys')
  BY DEF SesStands
<1>4. First(x.todo) = "GRACE" => x.token \in Given' \ rows'
  BY <1>1 DEF SesStands
<1>5. First(x.todo) = "DELETE_ALL" =>
         (faults' = 0 => \A t \in Nat \ ({0} \cup late') : Covered(keys', t))
  BY DEF SesStands, Calm
<1>6. Given' = 1..issued'
  BY DEF Given
<1> QED BY <1>2, <1>3, <1>4, <1>5, <1>6 DEF SesStands, Calm, Given

\* What a step does to the tokens that the requests know of.
TokensGo ==
    /\ issued' \in Nat /\ issued' >= issued /\ (faults' = 0 => faults = 0)
    /\ rows' \cap Given \subseteq rows /\ ended \subseteq ended' /\ late \subseteq late'
    /\ Members(keys) \subseteq Members(keys') \cup ended'
    /\ faults' = 0 /\ Sessions!Revoking =>
          \A t \in Nat \ ({0} \cup late') : Covered(keys, t) => Covered(keys', t)

LEMMA TodosAre == ASSUME NEW q \in Todos, q # <<>> PROVE q[1] = First(q) /\ 1 \in 1..Len(q)
<1>1. ASSUME NEW a, q = <<a>> PROVE q[1] = First(q) /\ 1 \in 1..Len(q)
  BY <1>1 DEF First
<1>2. ASSUME NEW a, NEW b, q = <<a, b>> PROVE q[1] = First(q) /\ 1 \in 1..Len(q)
  BY <1>2 DEF First
<1>3. ASSUME NEW a, NEW b, NEW c, q = <<a, b, c>> PROVE q[1] = First(q) /\ 1 \in 1..Len(q)
  BY <1>3 DEF First
<1> QED BY <1>1, <1>2, <1>3 DEF Todos

(* Who is about to delete every row is revoking. *)
LEMMA RevokingIs ==
    ASSUME RequestsInv, NEW h \in Handlers, First(job[h].todo) = "DELETE_ALL"
    PROVE  Sessions!Revoking
<1>1. PICK q \in Todos : q = job[h].todo
  BY DEF RequestsInv, SesJob
<1>2. q # <<>>
  BY <1>1, NothingFirst
<1>3. q[1] = "DELETE_ALL" /\ 1 \in 1..Len(q)
  BY <1>1, <1>2, TodosAre
<1>4. "DELETE_ALL" \in Sessions!ToSet(q)
  BY <1>3 DEF Sessions!ToSet
<1> QED BY <1>1, <1>4 DEF Sessions!Revoking

LEMMA SesOthers ==
    ASSUME SessionsInv, TokensGo, NEW k \in Handlers, job'[k] = job[k],
           First(job[k].todo) = "MARK" => job[k].token \notin revoked'
    PROVE  SesJob(job'[k]) /\ SesStands(job[k])'
<1>1. PICK x : x = job[k]
  OBVIOUS
<1>2. SesJob(x) /\ SesStands(x)
  BY <1>1 DEF SessionsInv, RequestsInv
<1>3. First(x.todo) = "MARK" => x.token \notin revoked'
  BY <1>1
<1>6. faults' = 0 /\ First(x.todo) = "DELETE_ALL" =>
         \A t \in Nat \ ({0} \cup late') : Covered(keys, t) => Covered(keys', t)
  BY <1>1, RevokingIs DEF TokensGo, SessionsInv
<1>4. SesStands(x)'
  BY <1>2, <1>3, <1>6, SesCarried DEF TokensGo, SessionsInv
<1>5. job'[k] = x
  BY <1>1
<1> QED BY <1>2, <1>4, <1>5 DEF SesStands, Calm, Given

LEMMA SesMoves ==
    ASSUME SessionsInv, NEW h \in Handlers, NEW j, SesJob(j), SesStands(j)',
           job' = [job EXCEPT ![h] = j], TokensGo,
           \A k \in Handlers : First(job[k].todo) = "MARK" => job[k].token \notin revoked'
    PROVE  RequestsInv'
<1>1. \A k \in Handlers : job'[k] = IF k = h THEN j ELSE job[k]
  BY DEF SessionsInv, RequestsInv
<1>2. job' = [k \in Handlers |-> job'[k]]
  BY DEF SessionsInv, RequestsInv
<1>3. ASSUME NEW k \in Handlers, k # h PROVE SesJob(job'[k]) /\ SesStands(job[k])'
  BY <1>1, <1>3, SesOthers
<1>4. SesJob(job'[h]) /\ job'[h] = j
  BY <1>1
<1>5. SesStands(job[h])'
  BY <1>4 DEF SesStands, Calm, Given
<1>6. \A k \in Handlers : SesJob(job'[k]) /\ SesStands(job[k])'
  BY <1>3, <1>4, <1>5
<1> QED BY <1>2, <1>6 DEF RequestsInv

LEMMA SesRests ==
    ASSUME SessionsInv, UNCHANGED <<job, revoked>>, TokensGo
    PROVE  RequestsInv'
<1>1. \A k \in Handlers : First(job[k].todo) = "MARK" => job[k].token \notin revoked'
  BY DEF SessionsInv, RequestsInv, SesStands
<1>2. ASSUME NEW k \in Handlers PROVE SesJob(job'[k]) /\ SesStands(job[k])'
  BY <1>1, SesOthers
<1> QED BY <1>2 DEF SessionsInv, RequestsInv

Trivial == {"NONE", "ISSUE", "CODE", "DROP_CODE", "UNBLOCKED", "BLOCK", "BLACKLIST"}

LEMMA TrivialStands == ASSUME NEW j, First(j.todo) \in Trivial PROVE SesStands(j) /\ SesStands(j)'
BY DEF SesStands, Trivial

LEMMA TodosGo ==
    ASSUME NEW q \in Todos
    PROVE  First(q) \in Trivial \cup {"MARK", "DELETE", "GRACE", "DELETE_ALL"}
<1>1. CASE q = <<>>
  BY <1>1, NothingFirst DEF Trivial
<1>2. CASE q # <<>>
  <2>1. Head(q) \in Trivial \cup {"MARK", "DELETE", "GRACE", "DELETE_ALL"}
    BY <1>2 DEF Todos, Trivial
  <2> QED BY <1>2, <2>1 DEF First
<1> QED BY <1>1, <1>2

LEMMA FirstAt ==
    ASSUME NEW h \in Handlers, NEW x, Sessions!At(h, x), RequestsInv
    PROVE  job[h].todo # <<>> /\ First(job[h].todo) = x /\ job[h].todo \in Todos
           /\ job[h].token \in Nat /\ SesStands(job[h])
BY DEF Sessions!At, First, RequestsInv, SesJob

(* A step that touches no token. *)
LEMMA QuietStep ==
    ASSUME SessionsInv, NEW h \in Handlers, NEW j, SesJob(j), SesStands(j),
           job' = [job EXCEPT ![h] = j], faults' \in Nat, faults' >= faults,
           UNCHANGED <<issued, rows, expired, keys, hidden, ended, late, revoked>>
    PROVE  SessionsInv'
<1>1. TokensInv' /\ issued \in Nat /\ faults \in Nat
  BY DEF SessionsInv, TokensInv, Given
<1>2. faults' = 0 => faults = 0
  BY <1>1
<1>3. RevokedInv'
  BY <1>2 DEF SessionsInv, RevokedInv, Calm, Given
<1>4. TokensGo
  BY <1>1, <1>2 DEF TokensGo
<1>5. SesStands(j)'
  BY <1>2 DEF SesStands, Calm, Given
<1>6. \A k \in Handlers : First(job[k].todo) = "MARK" => job[k].token \notin revoked'
  BY DEF SessionsInv, RequestsInv, SesStands
<1>7. RequestsInv'
  BY <1>4, <1>5, <1>6, SesMoves
<1> QED BY <1>1, <1>3, <1>7 DEF SessionsInv

LEMMA BothFirst ==
    ASSUME NEW a, NEW b, NEW c, NEW r, r = <<a, b, c>>
    PROVE  SubSeq(r, 1, 2) = <<a, b>>
<1>1. PICK S : S = {a, b, c}
  OBVIOUS
<1>2. r \in Seq(S) /\ Len(r) = 3 /\ r[1] = a /\ r[2] = b
  BY <1>1
<1>3. PICK p : p = SubSeq(r, 1, 2)
  OBVIOUS
<1>4. /\ p \in Seq(S) /\ Len(p) = 2 - 1 + 1
      /\ \A i \in 1..(2 - 1 + 1) : p[i] = r[1 + i - 1]
  <2>1. 1 \in 1..(Len(r) + 1) /\ 2 \in 1 - 1..Len(r)
    BY <1>2
  <2> QED BY <1>2, <1>3, <2>1, SubSeqProperties
<1>5. p[1] = a /\ p[2] = b /\ Len(p) = 2
  BY <1>2, <1>4
<1>6. p = <<a, b>>
  BY <1>4, <1>5
<1> QED BY <1>3, <1>6

(* Requests begin, read and give up. *)
LEMMA QuietSteps ==
    ASSUME SessionsInv, NEW h \in Handlers,
           \/ Sessions!Login(h) \/ Sessions!GoogleLogin(h) \/ Sessions!CreateCode(h) \/ Sessions!DropCode(h)
           \/ Sessions!InReuseGrace(h) \/ Sessions!Refuse(h) \/ Sessions!ResetPassword(h)
           \/ Sessions!blacklistAccessToken(h) \/ Sessions!Crash(h)
           \/ \E t \in Sessions!Tokens : Sessions!refresh(h, t) \/ Sessions!ReadCode(h, t) \/ Sessions!Revoke(h, t)
    PROVE  SessionsInv'
<1>1. UNCHANGED <<issued, rows, expired, keys, hidden, ended, late, revoked>>
  BY DEF Sessions!Login, Sessions!GoogleLogin, Sessions!CreateCode, Sessions!DropCode, Sessions!InReuseGrace,
         Sessions!Refuse, Sessions!ResetPassword, Sessions!blacklistAccessToken, Sessions!Crash,
         Sessions!refresh, Sessions!ReadCode, Sessions!Revoke, Sessions!tables, Sessions!redis, Sessions!history
<1>2. faults' \in Nat /\ faults' >= faults
  <2>1. faults' = faults \/ faults' = faults + 1
    BY DEF Sessions!Login, Sessions!GoogleLogin, Sessions!CreateCode, Sessions!DropCode, Sessions!InReuseGrace,
           Sessions!Refuse, Sessions!ResetPassword, Sessions!blacklistAccessToken, Sessions!Crash,
           Sessions!refresh, Sessions!ReadCode, Sessions!Revoke, Sessions!bounds, Sessions!Fault
  <2> QED BY <2>1 DEF SessionsInv, TokensInv
<1>3. CASE \/ Sessions!CreateCode(h) \/ Sessions!DropCode(h) \/ Sessions!InReuseGrace(h)
           \/ Sessions!blacklistAccessToken(h)
  <2>1. PICK x \in {"CODE", "DROP_CODE", "GRACE", "UNBLOCKED", "BLACKLIST"} : Sessions!At(h, x)
    BY <1>3 DEF Sessions!CreateCode, Sessions!DropCode, Sessions!InReuseGrace, Sessions!blacklistAccessToken
  <2>2. Sessions!Next1(h) /\ RequestsInv
    BY <1>3 DEF Sessions!CreateCode, Sessions!DropCode, Sessions!InReuseGrace,
                Sessions!blacklistAccessToken, SessionsInv
  <2>3. job[h].todo # <<>> /\ First(job[h].todo) = x /\ job[h].todo \in Todos
    BY <2>1, <2>2, FirstAt
  <2>4. PICK j : /\ SesJob(j) /\ job' = [job EXCEPT ![h] = j]
                 /\ First(j.todo) = First(Tail(job[h].todo))
    BY <2>2, <2>3, SesNext
  <2>5. First(j.todo) \notin {"MARK", "DELETE", "GRACE", "DELETE_ALL"}
    BY <2>1, <2>3, <2>4, AfterFirst
  <2>6. SesStands(j)
    BY <2>4, <2>5, TodosGo, TrivialStands DEF SesJob
  <2> QED BY <1>1, <1>2, <2>4, <2>6, QuietStep
<1>4. CASE Sessions!Refuse(h) \/ Sessions!Crash(h)
  <2>1. job' = [job EXCEPT ![h] = Sessions!NoJob]
    BY <1>4 DEF Sessions!Refuse, Sessions!Crash, Sessions!Done
  <2>2. SesStands(Sessions!NoJob)
    BY SesIdle, TrivialStands DEF Trivial
  <2> QED BY <1>1, <1>2, <2>1, <2>2, SesIdle, QuietStep
<1>5. ASSUME NEW q \in Todos, NEW t \in Nat, First(q) \in Trivial, Sessions!Set(h, q, t)
      PROVE  SessionsInv'
  <2>1. PICK j : j = [todo |-> q, token |-> t]
    OBVIOUS
  <2>2. SesJob(j) /\ j.todo = q /\ job' = [job EXCEPT ![h] = j]
    BY <1>5, <2>1, SesMade DEF Sessions!Set
  <2>3. SesStands(j)
    BY <1>5, <2>2, TrivialStands
  <2> QED BY <1>1, <1>2, <2>2, <2>3, QuietStep
<1>6. CASE Sessions!Login(h) \/ Sessions!GoogleLogin(h)
  <2>1. PICK q : q \in {<<"ISSUE">>, <<"ISSUE", "CODE">>} /\ Sessions!Set(h, q, 0)
    BY <1>6 DEF Sessions!Login, Sessions!GoogleLogin, Sessions!Start
  <2>2. q \in Todos /\ First(q) = "ISSUE"
    BY <2>1, ShortTodos, PairTodos DEF Todos
  <2> QED BY <1>5, <2>1, <2>2 DEF Trivial
<1>7. CASE Sessions!ResetPassword(h) \/ \E t \in Sessions!Tokens : Sessions!Revoke(h, t)
  <2>1. PICK t, q : t \in Nat /\ q \in {<<"BLOCK", "DELETE_ALL">>, <<"BLOCK", "DELETE_ALL", "BLACKLIST">>}
                              /\ Sessions!Set(h, q, t)
    <3>1. CASE Sessions!ResetPassword(h)
      <4>1. Sessions!Set(h, SubSeq(Sessions!RevokeSteps, 1, Len(Sessions!RevokeSteps) - 1), 0)
        BY <3>1 DEF Sessions!ResetPassword, Sessions!Start
      <4>2. SubSeq(Sessions!RevokeSteps, 1, Len(Sessions!RevokeSteps) - 1) = <<"BLOCK", "DELETE_ALL">>
        <5>1. PICK r : r = <<"BLOCK", "DELETE_ALL", "BLACKLIST">>
          OBVIOUS
        <5>2. Len(r) = 3 /\ r[1] = "BLOCK" /\ r[2] = "DELETE_ALL"
          BY <5>1
        <5>3. SubSeq(r, 1, 2) = <<"BLOCK", "DELETE_ALL">>
          BY <5>1, <5>2, BothFirst
        <5> QED BY <5>1, <5>2, <5>3 DEF Sessions!RevokeSteps
      <4> QED BY <4>1, <4>2
    <3>2. ASSUME NEW t \in Sessions!Tokens, Sessions!Revoke(h, t)
          PROVE  t \in Nat /\ Sessions!Set(h, <<"BLOCK", "DELETE_ALL", "BLACKLIST">>, t)
      BY <3>2 DEF Sessions!Revoke, Sessions!Start, Sessions!RevokeSteps, Sessions!Tokens
    <3> QED BY <1>7, <3>1, <3>2
  <2>2. q \in Todos /\ First(q) = "BLOCK"
    BY <2>1, LongTodos, PairTodos DEF Todos
  <2> QED BY <1>5, <2>1, <2>2 DEF Trivial
<1>8. ASSUME NEW t \in Sessions!Tokens, Sessions!ReadCode(h, t) PROVE SessionsInv'
  <2>1. t \in Nat /\ Sessions!Set(h, <<"DROP_CODE">>, t)
    BY <1>8 DEF Sessions!ReadCode, Sessions!Start, Sessions!Tokens
  <2>2. <<"DROP_CODE">> \in Todos /\ First(<<"DROP_CODE">>) = "DROP_CODE"
    BY ShortTodos DEF Todos
  <2> QED BY <1>5, <2>1, <2>2 DEF Trivial
<1>9. ASSUME NEW t \in Sessions!Tokens, Sessions!refresh(h, t) PROVE SessionsInv'
  <2>1. t \in Given /\ t \in Nat
    BY <1>9 DEF Sessions!refresh, Sessions!verifyRefreshJwt, Sessions!Issued, Given, Sessions!Tokens
  <2>2. PICK q : /\ t \in rows => q = <<"MARK", "DELETE", "ISSUE">>
                 /\ t \notin rows => q = <<"GRACE", "UNBLOCKED", "ISSUE">>
                 /\ Sessions!Set(h, q, t)
    BY <1>9 DEF Sessions!refresh, Sessions!Start, Sessions!ConsumeSteps
  <2>3. q \in Todos /\ First(q) = IF t \in rows THEN "MARK" ELSE "GRACE"
    BY <2>2, LongTodos DEF Todos
  <2>4. PICK j : j = [todo |-> q, token |-> t]
    OBVIOUS
  <2>5. SesJob(j) /\ j.todo = q /\ j.token = t /\ job' = [job EXCEPT ![h] = j]
    BY <2>1, <2>2, <2>3, <2>4, SesMade DEF Sessions!Set
  <2>6. t \in rows => t \notin revoked
    BY DEF SessionsInv, RevokedInv
  <2>7. SesStands(j)
    BY <2>1, <2>3, <2>5, <2>6 DEF SesStands
  <2> QED BY <1>1, <1>2, <2>5, <2>7, QuietStep
<1> QED BY <1>3, <1>4, <1>6, <1>7, <1>8, <1>9

(* A request whose next step asks nothing of the tokens. *)
LEMMA TrivialNext ==
    ASSUME RequestsInv, NEW h \in Handlers, NEW x, x \notin {"MARK", "BLOCK"}, Sessions!At(h, x), Sessions!Next1(h)
    PROVE  \E j : SesJob(j) /\ job' = [job EXCEPT ![h] = j] /\ First(j.todo) \in Trivial
<1>1. job[h].todo # <<>> /\ First(job[h].todo) = x /\ job[h].todo \in Todos
  BY FirstAt
<1>2. PICK j : /\ SesJob(j) /\ job' = [job EXCEPT ![h] = j]
               /\ First(j.todo) = First(Tail(job[h].todo))
  BY <1>1, SesNext
<1>3. First(j.todo) \notin {"MARK", "DELETE", "GRACE", "DELETE_ALL"}
  BY <1>1, <1>2, AfterFirst
<1>4. First(j.todo) \in Trivial
  BY <1>2, <1>3, TodosGo DEF SesJob
<1> QED BY <1>2, <1>4

LEMMA UnrevokedMarks ==
    ASSUME SessionsInv, UNCHANGED revoked
    PROVE  \A k \in Handlers : First(job[k].todo) = "MARK" => job[k].token \notin revoked'
BY DEF SessionsInv, RequestsInv, SesStands

LEMMA IssueStep == ASSUME SessionsInv, NEW h \in Handlers, Sessions!Issue(h) PROVE SessionsInv'
<1>1. PICK q \in Todos, n \in Nat : q = job[h].todo /\ n = issued /\ q # <<>> /\ First(q) = "ISSUE"
  <2>1. Sessions!At(h, "ISSUE") /\ RequestsInv /\ issued \in Nat
    BY DEF Sessions!Issue, SessionsInv, TokensInv
  <2> QED BY <2>1, FirstAt
<1>2. issued' = n + 1 /\ rows' = rows \cup {n + 1}
      /\ UNCHANGED <<expired, keys, hidden, ended, late, revoked, faults>>
  BY <1>1 DEF Sessions!Issue, Sessions!redis, Sessions!history, Sessions!bounds
<1>3. PICK j : SesJob(j) /\ job' = [job EXCEPT ![h] = j] /\ First(j.todo) \in Trivial
  <2>1. CASE Len(q) = 1
    <3>1. job' = [job EXCEPT ![h] = Sessions!NoJob]
      BY <1>1, <2>1 DEF Sessions!Issue, Sessions!Done
    <3> QED BY <3>1, SesIdle DEF Trivial
  <2>2. CASE Len(q) # 1
    <3>1. PICK r, m, j : r = Tail(q) /\ m = n + 1 /\ j = [todo |-> r, token |-> m]
      OBVIOUS
    <3>2. Tail(q) \in Todos /\ First(Tail(q)) \notin {"MARK", "DELETE", "GRACE", "DELETE_ALL"}
      BY <1>1, AfterFirst
    <3>3. First(Tail(q)) \in Trivial
      BY <3>2, TodosGo
    <3>4. SesJob(j) /\ j.todo = Tail(q)
      <4>1. m \in Nat /\ r \in Todos
        BY <3>1, <3>2
      <4> QED BY <3>1, <3>2, <4>1, SesMade
    <3>5. job' = [job EXCEPT ![h] = j]
      BY <1>1, <1>2, <2>2, <3>1 DEF Sessions!Issue, Sessions!Set
    <3> QED BY <3>3, <3>4, <3>5
  <2> QED BY <2>1, <2>2
<1>4. Given = 1..n /\ Given' = 1..(n + 1) /\ 1..(n + 1) = 1..n \cup {n + 1} /\ n + 1 \notin 1..n
  BY <1>1, <1>2 DEF Given
<1>5. TokensGo
  <2>1. rows' \cap Given \subseteq rows
    BY <1>2, <1>4
  <2> QED BY <1>1, <1>2, <2>1 DEF TokensGo
<1>6. TokensInv'
  <2>1. rows' \subseteq Given' /\ Given' \subseteq rows' \cup ended' \cup Members(keys')
    BY <1>2, <1>4 DEF SessionsInv, TokensInv
  <2>2. issued' \in Nat
    BY <1>2
  <2> QED BY <1>2, <2>1, <2>2 DEF SessionsInv, TokensInv
<1>7. RevokedInv'
  <2>1. revoked \subseteq Given' \ rows'
    BY <1>2, <1>4 DEF SessionsInv, RevokedInv
  <2> QED BY <1>2, <2>1 DEF SessionsInv, RevokedInv, Calm
<1>8. SesStands(j)'
  BY <1>3, TrivialStands
<1>9. RequestsInv'
  BY <1>2, <1>3, <1>5, <1>8, UnrevokedMarks, SesMoves
<1> QED BY <1>6, <1>7, <1>9 DEF SessionsInv

(* Rows only go: each of them has its end or its minute of grace. *)
LEMMA RowsGo ==
    ASSUME SessionsInv, rows' \subseteq rows, ended \subseteq ended', revoked \subseteq revoked', revoked' \subseteq Given,
           revoked' \cap rows' = {}, UNCHANGED <<issued, expired, keys, hidden, late, faults>>,
           rows \ rows' \subseteq ended' \cup Members(keys),
           Calm => \A t \in revoked' : Covered(keys, t)
    PROVE  TokensInv' /\ RevokedInv' /\ TokensGo
<1>1. Given' = Given
  BY DEF Given
<1>2. TokensInv'
  BY <1>1 DEF SessionsInv, TokensInv
<1>3. RevokedInv'
  BY <1>1 DEF RevokedInv, Calm
<1>4. TokensGo
  BY DEF SessionsInv, TokensInv, TokensGo
<1> QED BY <1>2, <1>3, <1>4

LEMMA DeleteStep == ASSUME SessionsInv, NEW h \in Handlers, Sessions!Delete(h) PROVE SessionsInv'
<1>1. /\ Sessions!At(h, "DELETE") /\ Sessions!Next1(h) /\ RequestsInv /\ rows' = rows \ {job[h].token}
      /\ UNCHANGED <<issued, expired, keys, hidden, ended, late, revoked, faults>>
  BY DEF Sessions!Delete, SessionsInv, Sessions!redis, Sessions!history, Sessions!bounds
<1>2. PICK j : SesJob(j) /\ job' = [job EXCEPT ![h] = j] /\ First(j.todo) \in Trivial
  BY <1>1, TrivialNext
<1>3. job[h].token \in ended \cup Members(keys)
  BY <1>1, FirstAt DEF SesStands
<1>4. TokensInv' /\ RevokedInv' /\ TokensGo
  BY <1>1, <1>3, RowsGo DEF SessionsInv, RevokedInv
<1>5. RequestsInv'
  BY <1>1, <1>2, <1>4, TrivialStands, UnrevokedMarks, SesMoves
<1> QED BY <1>4, <1>5 DEF SessionsInv

LEMMA LogoutStep ==
    ASSUME SessionsInv, NEW h \in Handlers, NEW t \in Sessions!Tokens, Sessions!Logout(h, t)
    PROVE  SessionsInv'
<1>1. /\ Sessions!Set(h, <<"BLACKLIST">>, t) /\ rows' = rows \ {t} /\ ended' = ended \cup {t}
      /\ UNCHANGED <<issued, expired, keys, hidden, late, revoked, faults>>
  BY DEF Sessions!Logout, Sessions!Start, Sessions!redis, Sessions!bounds
<1>2. PICK j : j = [todo |-> <<"BLACKLIST">>, token |-> t]
  OBVIOUS
<1>3. <<"BLACKLIST">> \in Todos /\ t \in Nat
  BY DEF Todos, Sessions!Tokens
<1>4. SesJob(j) /\ job' = [job EXCEPT ![h] = j] /\ First(j.todo) \in Trivial
  <2>1. First(<<"BLACKLIST">>) = "BLACKLIST"
    BY ShortTodos
  <2> QED BY <1>1, <1>2, <1>3, <2>1, SesMade DEF Sessions!Set, Trivial
<1>5. TokensInv' /\ RevokedInv' /\ TokensGo
  BY <1>1, RowsGo DEF SessionsInv, RevokedInv
<1>6. RequestsInv'
  BY <1>1, <1>4, <1>5, TrivialStands, UnrevokedMarks, SesMoves
<1> QED BY <1>5, <1>6 DEF SessionsInv

LEMMA CleanStep == ASSUME SessionsInv, Sessions!cleanExpiredTokens PROVE SessionsInv'
<1>1. /\ rows' = rows \ expired
      /\ UNCHANGED <<issued, expired, keys, hidden, ended, late, revoked, faults, job>>
  BY DEF Sessions!cleanExpiredTokens, Sessions!redis, Sessions!history, Sessions!bounds
<1>2. TokensInv' /\ RevokedInv' /\ TokensGo
  BY <1>1, RowsGo DEF SessionsInv, RevokedInv, TokensInv
<1>3. RequestsInv'
  BY <1>1, <1>2, SesRests
<1> QED BY <1>2, <1>3 DEF SessionsInv

(* All rows are deleted.  The tokens whose exchange was under way are not counted as revoked. *)
LEMMA DeleteAllStep == ASSUME SessionsInv, NEW h \in Handlers, Sessions!DeleteAll(h) PROVE SessionsInv'
<1>1. /\ Sessions!At(h, "DELETE_ALL") /\ Sessions!Next1(h) /\ RequestsInv
      /\ rows' = {} /\ ended' = ended \cup Given
      /\ revoked' = revoked \cup {t \in Given \ late : ~Sessions!Refreshing(t)}
      /\ UNCHANGED <<issued, expired, keys, hidden, late, faults>>
  BY DEF Sessions!DeleteAll, SessionsInv, Sessions!redis, Sessions!bounds, Given, Sessions!Issued
<1>2. PICK j : SesJob(j) /\ job' = [job EXCEPT ![h] = j] /\ First(j.todo) \in Trivial
  BY <1>1, TrivialNext
<1>3. Calm => \A t \in Nat \ ({0} \cup late) : Covered(keys, t)
  BY <1>1, FirstAt DEF SesStands
<1>4. Given \subseteq Nat \ {0}
  BY DEF Given, SessionsInv, TokensInv
<1>5. Calm => \A t \in revoked' : Covered(keys, t)
  BY <1>1, <1>3, <1>4 DEF SessionsInv, RevokedInv
<1>6. rows \subseteq Given /\ revoked \subseteq Given
  BY DEF SessionsInv, TokensInv, RevokedInv
<1>7. TokensInv' /\ RevokedInv' /\ TokensGo
  BY <1>1, <1>5, <1>6, RowsGo
<1>8. ASSUME NEW k \in Handlers, First(job[k].todo) = "MARK" PROVE job[k].token \notin revoked'
  <2>1. PICK q \in Todos : q = job[k].todo /\ q # <<>>
    BY <1>1, <1>8, NothingFirst DEF RequestsInv, SesJob
  <2>2. Sessions!Last(q) = "ISSUE"
    BY <1>8, <2>1, AfterFirst
  <2>3. Sessions!Refreshing(job[k].token)
    BY <2>1, <2>2 DEF Sessions!Refreshing
  <2>4. job[k].token \notin revoked
    BY <1>1, <1>8 DEF RequestsInv, SesStands
  <2> QED BY <1>1, <2>3, <2>4
<1>9. RequestsInv'
  BY <1>2, <1>7, <1>8, TrivialStands, SesMoves
<1> QED BY <1>7, <1>9 DEF SessionsInv

(* The grace of a token is written.  Who deletes all rows meanwhile leaves that token out. *)
LEMMA MarkStep == ASSUME SessionsInv, NEW h \in Handlers, Sessions!Mark(h) PROVE SessionsInv'
<1>1. /\ Sessions!At(h, "MARK") /\ Sessions!Next1(h) /\ RequestsInv /\ Sessions!SetKey(job[h].token)
      /\ late' = IF Sessions!Revoking THEN late \cup {job[h].token} ELSE late
      /\ UNCHANGED <<issued, rows, expired, hidden, ended, revoked, faults>>
  BY DEF Sessions!Mark, SessionsInv, Sessions!tables, Sessions!bounds
<1>2. PICK t \in Nat : t = job[h].token /\ t \in Given \ revoked
  BY <1>1, FirstAt DEF SesStands
<1>3. /\ keys' \in Seq(Nat) /\ Members(keys) \subseteq Members(keys') /\ t \in Members(keys')
      /\ \A a \in Nat : a # t /\ Covered(keys, a) => Covered(keys', a)
  <2>1. keys \in Seq(Nat) /\ Sessions!SetKey(t)
    BY <1>1, <1>2 DEF SessionsInv, TokensInv
  <2> QED BY <2>1, KeySet
<1>4. Given' = Given /\ Given \subseteq Nat
  BY <1>1 DEF Given, SessionsInv, TokensInv
<1>5. TokensInv'
  BY <1>1, <1>3, <1>4 DEF SessionsInv, TokensInv
<1>6. RevokedInv'
  <2>1. revoked \subseteq Given' \ rows'
    BY <1>1, <1>4 DEF SessionsInv, RevokedInv
  <2>2. Calm => \A a \in revoked : Covered(keys', a)
    BY <1>2, <1>3, <1>4 DEF SessionsInv, RevokedInv
  <2> QED BY <1>1, <2>1, <2>2 DEF RevokedInv, Calm
<1>7. TokensGo
  <2>1. Sessions!Revoking => \A a \in Nat \ ({0} \cup late') : a # t
    BY <1>1, <1>2
  <2>2. issued \in Nat
    BY DEF SessionsInv, TokensInv
  <2> QED BY <1>1, <1>3, <2>1, <2>2 DEF TokensGo
<1>8. PICK j : /\ SesJob(j) /\ job' = [job EXCEPT ![h] = j] /\ First(j.todo) = "DELETE"
               /\ j.token = t \/ First(j.todo) = "NONE"
  <2>1. job[h].todo # <<>> /\ First(job[h].todo) = "MARK" /\ job[h].todo \in Todos
    BY <1>1, FirstAt
  <2>2. First(Tail(job[h].todo)) = "DELETE"
    BY <2>1, AfterFirst
  <2> QED BY <1>1, <1>2, <2>1, <2>2, SesNext
<1>9. SesStands(j)'
  BY <1>3, <1>8 DEF SesStands
<1>10. RequestsInv'
  BY <1>1, <1>7, <1>8, <1>9, UnrevokedMarks, SesMoves
<1> QED BY <1>5, <1>6, <1>10 DEF SessionsInv

(* The block is set behind every grace. *)
LEMMA SetBlockStep == ASSUME SessionsInv, NEW h \in Handlers, Sessions!SetBlock(h) PROVE SessionsInv'
<1>1. /\ Sessions!At(h, "BLOCK") /\ Sessions!Next1(h) /\ RequestsInv /\ Sessions!SetKey(0)
      /\ ended' = ended \cup Given
      /\ UNCHANGED <<issued, rows, expired, hidden, late, revoked, faults>>
  BY DEF Sessions!SetBlock, SessionsInv, Sessions!tables, Sessions!bounds, Sessions!Block, Given, Sessions!Issued
<1>2. /\ keys' \in Seq(Nat) /\ Members(keys) \subseteq Members(keys')
      /\ \A a \in Nat \ {0} : Covered(keys', a)
  <2>1. keys \in Seq(Nat) /\ 0 \in Nat
    BY DEF SessionsInv, TokensInv
  <2> QED BY <1>1, <2>1, KeySet
<1>3. Given' = Given /\ Given \subseteq Nat \ {0}
  BY <1>1 DEF Given, SessionsInv, TokensInv
<1>4. TokensInv'
  BY <1>1, <1>2, <1>3 DEF SessionsInv, TokensInv
<1>5. RevokedInv'
  BY <1>1, <1>2, <1>3 DEF SessionsInv, RevokedInv, Calm
<1>6. TokensGo
  <2>1. issued \in Nat
    BY DEF SessionsInv, TokensInv
  <2> QED BY <1>1, <1>2, <2>1 DEF TokensGo
<1>7. PICK j : SesJob(j) /\ job' = [job EXCEPT ![h] = j] /\ First(j.todo) = "DELETE_ALL"
  <2>1. job[h].todo # <<>> /\ First(job[h].todo) = "BLOCK" /\ job[h].todo \in Todos
    BY <1>1, FirstAt
  <2>2. First(Tail(job[h].todo)) = "DELETE_ALL"
    BY <2>1, AfterFirst
  <2> QED BY <1>1, <2>1, <2>2, SesNext
<1>8. SesStands(j)'
  BY <1>2, <1>7 DEF SesStands
<1>9. RequestsInv'
  BY <1>1, <1>6, <1>7, <1>8, UnrevokedMarks, SesMoves
<1> QED BY <1>4, <1>5, <1>9 DEF SessionsInv

(* Keys and tokens expire, and Redis goes or comes back. *)
LEMMA TimeSteps ==
    ASSUME SessionsInv, Sessions!KeyExpires \/ Sessions!Switch \/ \E t \in Sessions!Tokens : Sessions!TokenExpires(t)
    PROVE  SessionsInv'
<1>1. UNCHANGED <<issued, rows, job, late, revoked>> /\ Given' = Given /\ Given \subseteq Nat
  BY DEF Sessions!KeyExpires, Sessions!Switch, Sessions!TokenExpires, Sessions!tables, Given, SessionsInv, TokensInv
<1>2. keys \in Seq(Nat) /\ hidden \in Seq(Nat) /\ issued \in Nat /\ faults \in Nat
  BY DEF SessionsInv, TokensInv
<1>3. CASE Sessions!KeyExpires
  <2>1. /\ keys # <<>> /\ keys' = Tail(keys) /\ ended' = ended \cup {Head(keys)}
        /\ UNCHANGED <<hidden, expired, faults>>
    BY <1>3 DEF Sessions!KeyExpires, Sessions!tables, Sessions!bounds
  <2>2. /\ keys' \in Seq(Nat) /\ Members(keys) \subseteq Members(keys') \cup {Head(keys)}
        /\ \A t \in Nat : Covered(keys, t) => Covered(keys', t)
    BY <1>2, <2>1, WithoutFirst
  <2>3. TokensInv'
    BY <1>1, <1>2, <2>1, <2>2 DEF SessionsInv, TokensInv
  <2>4. RevokedInv'
    BY <1>1, <2>1, <2>2 DEF SessionsInv, RevokedInv, Calm
  <2>5. TokensGo
    BY <1>1, <1>2, <2>1, <2>2 DEF TokensGo
  <2> QED BY <1>1, <2>3, <2>4, <2>5, SesRests DEF SessionsInv
<1>4. CASE Sessions!Switch \/ \E t \in Sessions!Tokens : Sessions!TokenExpires(t)
  <2>1. faults' \in Nat /\ faults' # 0
    BY <1>2, <1>4 DEF Sessions!Switch, Sessions!TokenExpires, Sessions!Fault
  <2>2. TokensInv' /\ Members(keys) \subseteq Members(keys') \cup ended' /\ ended \subseteq ended'
    <3>1. CASE Sessions!Switch
      <4>1. /\ keys' = hidden /\ hidden' = keys /\ ended' = ended \cup Sessions!ToSet(keys)
            /\ UNCHANGED expired
        BY <3>1 DEF Sessions!Switch, Sessions!tables
      <4>2. Members(keys) \subseteq Sessions!ToSet(keys)
        BY <1>2, HoldsIs DEF Sessions!Holds
      <4> QED BY <1>1, <1>2, <2>1, <4>1, <4>2 DEF SessionsInv, TokensInv
    <3>2. ASSUME NEW t \in Sessions!Tokens, Sessions!TokenExpires(t)
          PROVE  TokensInv' /\ Members(keys) \subseteq Members(keys') \cup ended' /\ ended \subseteq ended'
      <4>1. expired' = expired \cup {t} /\ ended' = ended \cup {t} /\ UNCHANGED <<keys, hidden>>
        BY <3>2 DEF Sessions!TokenExpires, Sessions!redis
      <4> QED BY <1>1, <1>2, <2>1, <4>1 DEF SessionsInv, TokensInv
    <3> QED BY <1>4, <3>1, <3>2
  <2>3. RevokedInv'
    BY <1>1, <2>1 DEF SessionsInv, RevokedInv, Calm
  <2>4. TokensGo
    BY <1>1, <1>2, <2>1, <2>2 DEF TokensGo
  <2> QED BY <1>1, <2>2, <2>3, <2>4, SesRests DEF SessionsInv
<1> QED BY <1>3, <1>4

LEMMA SessionsStart == Sessions!Init => SessionsInv
<1> SUFFICES ASSUME Sessions!Init PROVE SessionsInv
  OBVIOUS
<1>1. Given = {}
  BY DEF Sessions!Init, Given
<1>2. TokensInv /\ RevokedInv
  BY <1>1 DEF Sessions!Init, TokensInv, RevokedInv
<1>3. \A h \in Handlers : job[h] = Sessions!NoJob
  BY DEF Sessions!Init
<1>4. RequestsInv
  BY <1>3, SesIdle, TrivialStands DEF Sessions!Init, RequestsInv, Trivial
<1> QED BY <1>2, <1>4 DEF SessionsInv

LEMMA SessionsStep == ASSUME SessionsInv, [Sessions!Next]_(Sessions!vars) PROVE SessionsInv'
<1>1. CASE UNCHANGED Sessions!vars
  <2>1. UNCHANGED <<issued, rows, expired, keys, hidden, faults, ended, late, revoked, job>>
    BY <1>1 DEF Sessions!vars
  <2>2. TokensInv' /\ RevokedInv'
    BY <2>1 DEF SessionsInv, TokensInv, RevokedInv, Calm, Given
  <2>3. TokensGo
    BY <2>1 DEF SessionsInv, TokensInv, TokensGo
  <2> QED BY <2>1, <2>2, <2>3, SesRests DEF SessionsInv
<1>2. CASE Sessions!Next
  BY <1>2, QuietSteps, IssueStep, DeleteStep, LogoutStep, CleanStep, DeleteAllStep, MarkStep,
     SetBlockStep, TimeSteps DEF Sessions!Next, Sessions!Step
<1> QED BY <1>1, <1>2

LEMMA SessionsShown == SessionsInv => Sessions!RevokedStaysOut
<1> SUFFICES ASSUME SessionsInv, faults = 0
             PROVE  /\ revoked \cap rows = {}
                    /\ \A t \in revoked : Sessions!Holds(t) => Sessions!Holds(Sessions!Block)
  BY DEF Sessions!RevokedStaysOut
<1>1. revoked \cap rows = {}
  BY DEF SessionsInv, RevokedInv
<1>2. ASSUME NEW t \in revoked, Sessions!Holds(t) PROVE Sessions!Holds(Sessions!Block)
  <2>1. Covered(keys, t) /\ keys \in Seq(Nat)
    BY DEF SessionsInv, RevokedInv, Calm, TokensInv
  <2>2. t \in Members(keys)
    BY <1>2, <2>1, HoldsIs
  <2>3. 0 \in Members(keys)
    BY <2>1, <2>2 DEF Covered, Members
  <2> QED BY <2>1, <2>3, HoldsIs DEF Sessions!Block
<1> QED BY <1>1, <1>2

(* Once everything is revoked no token of before opens a session again, for any number of
   requests, tokens and revocations: its row is gone, and its grace ends before the block
   (token.service.ts, revokeAllRefreshTokens). *)
THEOREM RevokedStaysOutHolds == Spec => []RevokedStaysOut
<1>1. Init => (scope = "Sessions" => SessionsInv)
  BY SessionsStart DEF Init
<1>2. (scope = "Sessions" => SessionsInv) /\ [Next]_vars => (scope = "Sessions" => SessionsInv)'
  <2>1. [Next]_vars /\ scope' = "Sessions" => scope = "Sessions" /\ [Sessions!Next]_(Sessions!vars)
    BY DEF Next, vars, shared, sessions, Sessions!vars
  <2> QED BY <2>1, SessionsStep
<1>3. (scope = "Sessions" => SessionsInv) => RevokedStaysOut
  BY SessionsShown DEF RevokedStaysOut
<1> QED BY <1>1, <1>2, <1>3, PTL DEF Spec

LEMMA RetryStep ==
    ASSUME SessionsInv, [Sessions!Next]_(Sessions!vars)
    PROVE  Sessions!RetryServed
<1> SUFFICES ASSUME NEW h \in Handlers, Sessions!At(h, "GRACE"), job'[h] = Sessions!NoJob,
                    faults' = faults, job[h].token \notin ended
             PROVE  FALSE
  BY DEF Sessions!RetryServed
<1>1. PICK t \in Nat, q \in Todos :
         t = job[h].token /\ q = job[h].todo /\ q # <<>> /\ First(q) = "GRACE" /\ t \in Given \ rows
  BY FirstAt DEF SessionsInv, SesStands
<1>2. Sessions!Holds(t)
  BY <1>1, HoldsIs DEF SessionsInv, TokensInv
<1>3. job[h] # Sessions!NoJob
  BY <1>1 DEF Sessions!NoJob
<1>4. Sessions!Next
  BY <1>3 DEF Sessions!vars
<1>5. PICK g \in Handlers : Sessions!Step(g) \/ Sessions!Crash(g)
  BY <1>3, <1>4 DEF Sessions!Next, Sessions!KeyExpires, Sessions!cleanExpiredTokens, Sessions!Switch,
                    Sessions!TokenExpires
<1>6. ~Sessions!Crash(g)
  BY DEF Sessions!Crash, Sessions!Fault, SessionsInv, TokensInv
<1>7. g = h
  <2>1. \E j : job' = [job EXCEPT ![g] = j]
    BY <1>5, <1>6 DEF Sessions!Step, Sessions!Login, Sessions!GoogleLogin, Sessions!Issue, Sessions!CreateCode,
         Sessions!DropCode, Sessions!Mark, Sessions!Delete, Sessions!InReuseGrace, Sessions!Refuse,
         Sessions!ResetPassword, Sessions!SetBlock, Sessions!DeleteAll, Sessions!blacklistAccessToken,
         Sessions!refresh, Sessions!ReadCode, Sessions!Logout, Sessions!Revoke,
         Sessions!Start, Sessions!Set, Sessions!Done, Sessions!Next1
  <2> QED BY <1>3, <2>1 DEF SessionsInv, RequestsInv
<1>8. Sessions!InReuseGrace(h) \/ Sessions!Refuse(h)
  BY <1>3, <1>5, <1>6, <1>7 DEF Sessions!Step, Sessions!Login, Sessions!GoogleLogin, Sessions!Issue, Sessions!CreateCode,
       Sessions!DropCode, Sessions!Mark, Sessions!Delete,
       Sessions!ResetPassword, Sessions!SetBlock, Sessions!DeleteAll, Sessions!blacklistAccessToken,
       Sessions!refresh, Sessions!ReadCode, Sessions!Logout, Sessions!Revoke, Sessions!Start, Sessions!At
<1>9. ~Sessions!Refuse(h)
  BY <1>1, <1>2 DEF Sessions!Refuse, Sessions!Spared
<1>10. Sessions!InReuseGrace(h) /\ Sessions!Next1(h) /\ RequestsInv
  BY <1>8, <1>9 DEF Sessions!InReuseGrace, SessionsInv
<1>11. PICK j : job' = [job EXCEPT ![h] = j] /\ First(j.todo) = First(Tail(q))
  BY <1>1, <1>10, SesNext
<1>12. j = Sessions!NoJob
  BY <1>11 DEF SessionsInv, RequestsInv
<1>13. First(Tail(q)) = "UNBLOCKED"
  BY <1>1, AfterFirst
<1> QED BY <1>11, <1>12, <1>13, SesIdle

(* A refresh sent again is answered until its token ended, its minute was over or Redis went,
   for any number of requests and tokens (token.service.ts, consumeRefreshToken). *)
THEOREM RetryIsServedHolds == Spec => RetryIsServed
<1>1. Init => (scope = "Sessions" => SessionsInv)
  BY SessionsStart DEF Init
<1>2. (scope = "Sessions" => SessionsInv) /\ [Next]_vars => (scope = "Sessions" => SessionsInv)'
  <2>1. [Next]_vars /\ scope' = "Sessions" => scope = "Sessions" /\ [Sessions!Next]_(Sessions!vars)
    BY DEF Next, vars, shared, sessions, Sessions!vars
  <2> QED BY <2>1, SessionsStep
<1>3. (scope = "Sessions" => SessionsInv) /\ [Next]_vars => [scope = "Sessions" => Sessions!RetryServed]_vars
  <2>1. [Next]_vars /\ scope = "Sessions" => [Sessions!Next]_(Sessions!vars)
    BY DEF Next, vars, shared, sessions, Sessions!vars
  <2> QED BY <2>1, RetryStep
<1> QED BY <1>1, <1>2, <1>3, PTL DEF Spec, RetryIsServed

-----------------------------------------------------------------------------
(* Sales: campaigns overlap only when they were checked together *)

SaleFields == {"exists", "active", "startsAt", "endsAt", "products", "percent"}
SaleRow(r) == r = [f \in SaleFields |-> r[f]] /\ r.endsAt \in Nat /\ r.percent \in Nat

\* Nothing of c and d was checked while the other, or the same, was about to be written.
Apart(T, c, d) == T \cap {{c, d}, {c}, {d}} = {}

\* A request about to write the campaign it checked.  Unless another one changes the same
\* campaign, what it does not write is as it read it; and what it checked still holds of every
\* campaign it was not checked together with.
SalePending(T, cam, j) ==
    /\ j.at = "WRITE" /\ j.id \in Campaigns /\ SaleRow(j.next) /\ j.next.exists = TRUE
    /\ j.fields \in SUBSET Sales!AllFields
    /\ {j.id} \notin T /\ cam[j.id].exists = TRUE
       => \A f \in SaleFields : f \notin j.fields => cam[j.id][f] = j.next[f]
    /\ \A d \in Campaigns \ {j.id} : Apart(T, j.id, d) => ~Sales!Conflict(j.next, cam[d])

SaleJobs(T, cam, jb) ==
    /\ jb = [h \in Handlers |-> jb[h]]
    /\ \A h \in Handlers : jb[h] = Sales!NoJob \/ SalePending(T, cam, jb[h])
    /\ \A g, h \in Handlers : g # h /\ jb[g] # Sales!NoJob /\ jb[h] # Sales!NoJob => {jb[g].id, jb[h].id} \in T

SaleRows(T, cam) ==
    /\ cam = [c \in Campaigns |-> cam[c]] /\ \A c \in Campaigns : SaleRow(cam[c])
    /\ \A c, d \in Campaigns : c # d /\ Apart(T, c, d) => ~Sales!Conflict(cam[c], cam[d])

SalesInv == SaleRows(together, campaign) /\ SaleJobs(together, campaign, job)

LEMMA ConflictIsMutual == ASSUME NEW a, NEW b PROVE Sales!Conflict(a, b) <=> Sales!Conflict(b, a)
BY DEF Sales!Conflict, Sales!windowsOverlap

LEMMA NoneIsRow ==
    /\ SaleRow(Sales!None) /\ DOMAIN Sales!None = SaleFields
    /\ \A a : ~Sales!Conflict(Sales!None, a) /\ ~Sales!Conflict(a, Sales!None)
    /\ Sales!None.exists = FALSE
<1>1. Sales!Always \in Nat
  BY ServicesAssumption DEF Sales!Always
<1>2. SaleRow(Sales!None) /\ DOMAIN Sales!None = SaleFields
  BY <1>1 DEF Sales!None, SaleRow, SaleFields
<1>3. Sales!None.active = FALSE /\ Sales!None.exists = FALSE
  BY DEF Sales!None
<1> QED BY <1>2, <1>3 DEF Sales!Conflict

\* A job at work is one that writes.
LEMMA AtWork ==
    ASSUME NEW T, NEW cam, NEW j, j = Sales!NoJob \/ SalePending(T, cam, j)
    PROVE  j.at = "WRITE" <=> j # Sales!NoJob
BY DEF Sales!NoJob, SalePending

\* What was apart later was apart before.
LEMMA ApartBefore ==
    ASSUME NEW S, NEW T, S \subseteq T, NEW c, NEW d, Apart(T, c, d) PROVE Apart(S, c, d)
BY DEF Apart

\* More pairs are checked together: what is required shrinks.
LEMMA PendingStays ==
    ASSUME NEW S, NEW T, S \subseteq T, NEW cam, NEW j, SalePending(S, cam, j) PROVE SalePending(T, cam, j)
<1>1. ASSUME NEW d \in Campaigns \ {j.id}, Apart(T, j.id, d) PROVE ~Sales!Conflict(j.next, cam[d])
  BY <1>1, ApartBefore DEF SalePending
<1> QED BY <1>1 DEF SalePending

(* A request checks a campaign, with the campaigns others are about to write. *)
LEMMA SaleCheckStep ==
    ASSUME SalesInv, NEW h \in Handlers, NEW id \in Campaigns, NEW next, NEW fields,
           SaleRow(next), next.exists = TRUE, fields \in SUBSET Sales!AllFields,
           campaign[id].exists = TRUE => \A f \in SaleFields : f \notin fields => campaign[id][f] = next[f],
           job[h] = Sales!NoJob, Sales!Check(h, id, next, fields)
    PROVE  SalesInv'
<1>1. PICK cam, jb, T, j, b, Q :
         /\ cam = campaign /\ jb = job /\ T = together /\ j = [at |-> "WRITE", id |-> id, next |-> next, fields |-> fields]
         /\ b = [jb EXCEPT ![h] = j] /\ Q = T \cup {{id, d} : d \in Sales!Checking}
  OBVIOUS
<1>2. campaign' = cam /\ job' = b /\ together' = Q /\ jb[h] = Sales!NoJob
  BY <1>1 DEF Sales!Check
<1>3. SaleRows(T, cam) /\ SaleJobs(T, cam, jb) /\ T \subseteq Q
  BY <1>1 DEF SalesInv
<1>4. \A d \in Campaigns \ {id} : ~Sales!Conflict(next, cam[d])
  BY <1>1 DEF Sales!Check, Sales!assertNoOverlap, Sales!Conflict
<1>5. SalePending(Q, cam, j) /\ j # Sales!NoJob
  <2>1. j.at = "WRITE" /\ j.id = id /\ j.next = next /\ j.fields = fields
    BY <1>1
  <2>2. j # Sales!NoJob
    BY <2>1 DEF Sales!NoJob
  <2> QED BY <1>1, <1>4, <2>1, <2>2 DEF SalePending
<1>6. b = [g \in Handlers |-> b[g]] /\ \A g \in Handlers : b[g] = IF g = h THEN j ELSE jb[g]
  BY <1>1, <1>3 DEF SaleJobs
<1>7. \A g \in Handlers : b[g] = Sales!NoJob \/ SalePending(Q, cam, b[g])
  BY <1>3, <1>5, <1>6, PendingStays DEF SaleJobs
<1>8. ASSUME NEW g \in Handlers, g # h, jb[g] # Sales!NoJob PROVE {id, jb[g].id} \in Q
  <2>1. job[g].at = "WRITE"
    BY <1>1, <1>3, <1>8, AtWork DEF SaleJobs
  <2>2. jb[g].id \in Sales!Checking
    BY <1>1, <2>1 DEF Sales!Checking
  <2> QED BY <1>1, <2>2
<1>9. ASSUME NEW f \in Handlers, NEW g \in Handlers, f # g, b[f] # Sales!NoJob, b[g] # Sales!NoJob
      PROVE  {b[f].id, b[g].id} \in Q
  <2>1. j.id = id
    BY <1>1
  <2>2. CASE f = h
    BY <1>6, <1>8, <1>9, <2>1, <2>2
  <2>3. CASE g = h
    <3>1. {id, b[f].id} \in Q
      BY <1>6, <1>8, <1>9, <2>3
    <3> QED BY <1>6, <2>1, <2>3, <3>1
  <2>4. CASE f # h /\ g # h
    BY <1>3, <1>6, <1>9, <2>4 DEF SaleJobs
  <2> QED BY <2>2, <2>3, <2>4
<1>10. SaleRows(Q, cam)
  BY <1>3, ApartBefore DEF SaleRows
<1> QED BY <1>2, <1>6, <1>7, <1>9, <1>10 DEF SalesInv, SaleJobs

\* In c the row of i is r.
RowPut(cam, c, i, r) ==
    c = [d \in Campaigns |-> c[d]] /\ \A d \in Campaigns : c[d] = IF d = i THEN r ELSE cam[d]

\* A row is written that conflicts with nothing it is apart from.
LEMMA SaleRowWritten ==
    ASSUME NEW T, NEW cam, SaleRows(T, cam), NEW i \in Campaigns, NEW r, SaleRow(r), NEW c, RowPut(cam, c, i, r),
           \A d \in Campaigns \ {i} : Apart(T, i, d) => ~Sales!Conflict(r, cam[d])
    PROVE  SaleRows(T, c)
<1>1. c = [d \in Campaigns |-> c[d]] /\ \A d \in Campaigns : c[d] = IF d = i THEN r ELSE cam[d]
  BY DEF RowPut
<1>2. ASSUME NEW d \in Campaigns, NEW e \in Campaigns, d # e, Apart(T, d, e) PROVE ~Sales!Conflict(c[d], c[e])
  <2>1. CASE d = i
    BY <1>1, <1>2, <2>1
  <2>2. CASE e = i
    <3>1. Apart(T, i, d)
      BY <1>2, <2>2 DEF Apart
    <3>2. ~Sales!Conflict(r, cam[d])
      BY <1>2, <2>2, <3>1
    <3> QED BY <1>1, <1>2, <2>2, <3>2, ConflictIsMutual
  <2>3. CASE d # i /\ e # i
    BY <1>1, <1>2, <2>3 DEF SaleRows
  <2> QED BY <2>1, <2>2, <2>3
<1> QED BY <1>1, <1>2 DEF SaleRows

(* A request writes what it checked, or finds its campaign gone. *)
LEMMA SaleWriteStep == ASSUME SalesInv, NEW h \in Handlers, Sales!Write(h) PROVE SalesInv'
<1>1. PICK cam, jb, T, j, b : /\ cam = campaign /\ jb = job /\ T = together /\ j = job[h]
                              /\ b = [jb EXCEPT ![h] = Sales!NoJob]
  OBVIOUS
<1>2. job' = b /\ together' = T /\ j # Sales!NoJob
  <2>1. j.at = "WRITE"
    BY <1>1 DEF Sales!Write
  <2>2. Sales!NoJob.at = "IDLE"
    BY DEF Sales!NoJob
  <2> QED BY <1>1, <2>1, <2>2 DEF Sales!Write
<1>3. SaleRows(T, cam) /\ SaleJobs(T, cam, jb) /\ SalePending(T, cam, j)
  BY <1>1, <1>2 DEF SalesInv, SaleJobs
<1>4. b = [g \in Handlers |-> b[g]] /\ \A g \in Handlers : b[g] = IF g = h THEN Sales!NoJob ELSE jb[g]
  BY <1>1, <1>3 DEF SaleJobs
<1>5. \A g, k \in Handlers : g # k /\ b[g] # Sales!NoJob /\ b[k] # Sales!NoJob => {b[g].id, b[k].id} \in T
  BY <1>3, <1>4 DEF SaleJobs
<1>6. CASE cam[j.id].exists = TRUE \/ j.fields = Sales!AllFields
  <2>1. PICK r : r = [f \in SaleFields |-> IF f \in j.fields \cup {"exists"} THEN j.next[f] ELSE cam[j.id][f]]
    OBVIOUS
  <2>2. PICK c : c = [cam EXCEPT ![j.id] = r]
    OBVIOUS
  <2>3. campaign' = c
    <3>1. j.id \in DOMAIN cam
      BY <1>3 DEF SaleRows, SalePending
    <3>2. campaign' = [campaign EXCEPT ![j.id] =
                [f \in DOMAIN Sales!None |-> IF f \in j.fields \cup {"exists"} THEN j.next[f] ELSE @[f]]]
      BY <1>1, <1>6 DEF Sales!Write
    <3> QED BY <1>1, <2>1, <2>2, <3>1, <3>2, NoneIsRow
  <2>4. j.id \in Campaigns /\ SaleRow(j.next) /\ SaleRow(cam[j.id])
    BY <1>3 DEF SaleRows, SalePending
  <2>5. SaleRow(r)
    BY <2>1, <2>4 DEF SaleRow, SaleFields
  <2>6. ASSUME {j.id} \notin T PROVE r = j.next
    <3>1. ASSUME NEW f \in SaleFields PROVE r[f] = j.next[f]
      <4>1. CASE f \in j.fields \cup {"exists"}
        BY <2>1, <4>1
      <4>2. CASE f \notin j.fields \cup {"exists"}
        <5>1. cam[j.id].exists = TRUE
          BY <1>6, <4>2 DEF Sales!AllFields, SaleFields
        <5> QED BY <1>3, <2>1, <2>6, <4>2, <5>1 DEF SalePending
      <4> QED BY <4>1, <4>2
    <3> QED BY <2>4, <2>5, <3>1 DEF SaleRow
  <2>7. ASSUME NEW d \in Campaigns \ {j.id}, Apart(T, j.id, d) PROVE ~Sales!Conflict(r, cam[d])
    <3>1. {j.id} \notin T
      BY <2>7 DEF Apart
    <3> QED BY <1>3, <2>6, <2>7, <3>1 DEF SalePending
  <2>8. SaleRows(T, c) /\ \A d \in Campaigns : c[d] = IF d = j.id THEN r ELSE cam[d]
    <3>1. PICK i \in Campaigns : i = j.id
      BY <2>4
    <3>2. RowPut(cam, c, i, r)
      BY <1>3, <2>2, <3>1 DEF SaleRows, RowPut
    <3>3. \A d \in Campaigns \ {i} : Apart(T, i, d) => ~Sales!Conflict(r, cam[d])
      BY <2>7, <3>1
    <3>4. SaleRows(T, c)
      BY <1>3, <2>5, <3>1, <3>2, <3>3, SaleRowWritten
    <3> QED BY <3>1, <3>2, <3>4 DEF RowPut
  <2>9. ASSUME NEW g \in Handlers, b[g] # Sales!NoJob PROVE SalePending(T, c, b[g])
    <3>1. g # h /\ b[g] = jb[g] /\ jb[g] # Sales!NoJob
      BY <1>4, <2>9
    <3>2. SalePending(T, cam, b[g]) /\ {b[g].id, j.id} \in T
      BY <1>1, <1>2, <1>3, <3>1 DEF SaleJobs
    <3>3. b[g].id = j.id => {b[g].id} \in T
      BY <3>2
    <3>4. \A d \in Campaigns \ {b[g].id} : Apart(T, b[g].id, d) => d # j.id
      BY <3>2 DEF Apart
    <3>5. {b[g].id} \notin T /\ c[b[g].id].exists = TRUE
          => \A f \in SaleFields : f \notin b[g].fields => c[b[g].id][f] = b[g].next[f]
      BY <2>8, <3>2, <3>3 DEF SalePending
    <3>6. \A d \in Campaigns \ {b[g].id} : Apart(T, b[g].id, d) => ~Sales!Conflict(b[g].next, c[d])
      BY <2>8, <3>2, <3>4 DEF SalePending
    <3> QED BY <3>2, <3>5, <3>6 DEF SalePending
  <2> QED BY <1>2, <1>4, <1>5, <2>3, <2>8, <2>9 DEF SalesInv, SaleJobs
<1>7. CASE ~(cam[j.id].exists = TRUE \/ j.fields = Sales!AllFields)
  <2>1. campaign' = cam
    <3>1. j.id \in Campaigns /\ SaleRow(cam[j.id])
      BY <1>3 DEF SalePending, SaleRows
    <3> QED BY <1>1, <1>7 DEF Sales!Write
  <2> QED BY <1>2, <1>3, <1>4, <1>5, <2>1 DEF SalesInv, SaleJobs
<1> QED BY <1>6, <1>7

(* A campaign is removed. *)
LEMMA SaleRemoveStep == ASSUME SalesInv, NEW id \in Campaigns, Sales!remove(id) PROVE SalesInv'
<1>1. PICK cam, jb, T, c : cam = campaign /\ jb = job /\ T = together /\ c = [cam EXCEPT ![id] = Sales!None]
  OBVIOUS
<1>2. campaign' = c /\ job' = jb /\ together' = T
  BY <1>1 DEF Sales!remove
<1>3. SaleRows(T, cam) /\ SaleJobs(T, cam, jb)
  BY <1>1 DEF SalesInv
<1>4. SaleRows(T, c) /\ \A d \in Campaigns : c[d] = IF d = id THEN Sales!None ELSE cam[d]
  <2>1. PICK r : r = Sales!None
    OBVIOUS
  <2>2. SaleRow(r) /\ \A d \in Campaigns \ {id} : ~Sales!Conflict(r, cam[d])
    BY <2>1, NoneIsRow
  <2>3. RowPut(cam, c, id, r)
    BY <1>1, <1>3, <2>1 DEF SaleRows, RowPut
  <2>4. SaleRows(T, c)
    BY <1>3, <2>2, <2>3, SaleRowWritten
  <2> QED BY <2>1, <2>3, <2>4 DEF RowPut
<1>5. ASSUME NEW j, SalePending(T, cam, j) PROVE SalePending(T, c, j)
  <2>1. j.id \in Campaigns
    BY <1>5 DEF SalePending
  <2>2. {j.id} \notin T /\ c[j.id].exists = TRUE => \A f \in SaleFields : f \notin j.fields => c[j.id][f] = j.next[f]
    BY <1>4, <1>5, <2>1, NoneIsRow DEF SalePending
  <2>3. \A d \in Campaigns \ {j.id} : Apart(T, j.id, d) => ~Sales!Conflict(j.next, c[d])
    BY <1>4, <1>5, NoneIsRow DEF SalePending
  <2> QED BY <1>5, <2>2, <2>3 DEF SalePending
<1> QED BY <1>2, <1>3, <1>4, <1>5 DEF SalesInv, SaleJobs

(* A campaign is created, or changed. *)
LEMMA SaleCreateStep == ASSUME SalesInv, NEW h \in Handlers, Sales!create(h) PROVE SalesInv'
<1>1. PICK id \in Campaigns : /\ job[h] = Sales!NoJob /\ ~campaign[id].exists
                              /\ \E next \in Sales!Drafts : Sales!Check(h, id, next, Sales!AllFields)
  BY DEF Sales!create
<1>2. PICK next \in Sales!Drafts : Sales!Check(h, id, next, Sales!AllFields)
  BY <1>1
<1>3. SaleRow(next) /\ next.exists = TRUE
  <2>1. PICK a \in BOOLEAN, w \in Windows, p \in SUBSET Products, r \in Percents :
          next = [exists |-> TRUE, active |-> a, startsAt |-> w[1], endsAt |-> w[2], products |-> p, percent |-> r]
    BY <1>2 DEF Sales!Drafts
  <2>2. w[2] \in Nat /\ r \in Nat
    BY <2>1, ServicesAssumption
  <2> QED BY <2>1, <2>2 DEF SaleRow, SaleFields
<1> QED BY <1>1, <1>2, <1>3, SaleCheckStep

LEMMA SaleUpdateStep == ASSUME SalesInv, NEW h \in Handlers, Sales!update(h) PROVE SalesInv'
<1>1. PICK id \in Campaigns :
        LET was == campaign[id]
        IN /\ was.exists /\ job[h] = Sales!NoJob
           /\ \/ \E a \in BOOLEAN : Sales!Check(h, id, [was EXCEPT !.active = a], {"active"})
              \/ \E p \in SUBSET Products : Sales!Check(h, id, [was EXCEPT !.products = p], {"products"})
              \/ \E w \in Windows : Sales!Check(h, id, [was EXCEPT !.startsAt = w[1], !.endsAt = w[2]],
                                                {"startsAt", "endsAt"})
  BY DEF Sales!update
<1>2. PICK was : was = campaign[id]
  OBVIOUS
<1>3. job[h] = Sales!NoJob
  BY <1>1
<1>4. was.exists /\ SaleRow(was)
  BY <1>1, <1>2 DEF SalesInv, SaleRows
<1>5. \A f \in SUBSET {"active", "products", "startsAt", "endsAt"} : f \in SUBSET Sales!AllFields
  BY DEF Sales!AllFields
<1>6. ASSUME NEW a \in BOOLEAN, Sales!Check(h, id, [was EXCEPT !.active = a], {"active"}) PROVE SalesInv'
  <2>1. PICK next : next = [was EXCEPT !.active = a]
    OBVIOUS
  <2>2. SaleRow(next) /\ next.exists = was.exists /\ \A f \in SaleFields : f \notin {"active"} => was[f] = next[f]
    BY <1>4, <2>1 DEF SaleRow, SaleFields
  <2> QED BY <1>2, <1>3, <1>4, <1>5, <1>6, <2>1, <2>2, SaleCheckStep
<1>7. ASSUME NEW p \in SUBSET Products, Sales!Check(h, id, [was EXCEPT !.products = p], {"products"}) PROVE SalesInv'
  <2>1. PICK next : next = [was EXCEPT !.products = p]
    OBVIOUS
  <2>2. SaleRow(next) /\ next.exists = was.exists /\ \A f \in SaleFields : f \notin {"products"} => was[f] = next[f]
    BY <1>4, <2>1 DEF SaleRow, SaleFields
  <2> QED BY <1>2, <1>3, <1>4, <1>5, <1>7, <2>1, <2>2, SaleCheckStep
<1>8. ASSUME NEW w \in Windows,
             Sales!Check(h, id, [was EXCEPT !.startsAt = w[1], !.endsAt = w[2]], {"startsAt", "endsAt"})
      PROVE  SalesInv'
  <2>1. PICK next : next = [was EXCEPT !.startsAt = w[1], !.endsAt = w[2]]
    OBVIOUS
  <2>2. w[2] \in Nat
    BY ServicesAssumption
  <2>3. SaleRow(next) /\ next.exists = was.exists
        /\ \A f \in SaleFields : f \notin {"startsAt", "endsAt"} => was[f] = next[f]
    BY <1>4, <2>1, <2>2 DEF SaleRow, SaleFields
  <2>4. PICK fields : fields = {"startsAt", "endsAt"}
    OBVIOUS
  <2>5. fields \in SUBSET Sales!AllFields /\ next.exists = TRUE /\ SaleRow(next) /\ Sales!Check(h, id, next, fields)
    BY <1>4, <1>5, <1>8, <2>1, <2>3, <2>4
  <2>6. \A f \in SaleFields : f \notin fields => campaign[id][f] = next[f]
    BY <1>2, <2>3, <2>4
  <2> QED BY <1>3, <2>5, <2>6, SaleCheckStep
<1> QED BY <1>1, <1>2, <1>6, <1>7, <1>8

-----------------------------------------------------------------------------
(* Sales: one price, in whatever order the rows come *)

LEMMA LastRow ==
    ASSUME NEW c \in Nat, NEW S \in SUBSET (1..c), S # {}
    PROVE  Sales!Max(S) \in S /\ \A x \in S : x <= Sales!Max(S)
<1>1. \E x \in S : \A z \in S : x >= z
  BY Greatest
<1>2. Sales!Max(S) \in S /\ \A z \in S : Sales!Max(S) >= z
  BY <1>1 DEF Sales!Max
<1> QED BY <1>2

NextBest(c, b) == IF b = 0 \/ Sales!isBetterSale(c, b) THEN c ELSE b

\* The best of the rows of s with the numbers in T, the last one looked at last.
Scan(G, s, D) ==
    G = [T \in SUBSET D |-> IF T = {} THEN 0 ELSE NextBest(s[Sales!Max(T)], G[T \ {Sales!Max(T)}])]

\* isBetterSale orders the campaigns.
SaleOrder(C) ==
    /\ \A a \in C : ~Sales!isBetterSale(a, a)
    /\ \A a, b \in C : a = b \/ Sales!isBetterSale(a, b) \/ Sales!isBetterSale(b, a)
    /\ \A a, b \in C : ~Sales!isBetterSale(a, b) => Sales!Price(b) <= Sales!Price(a)
    /\ \A a, b, c \in C : Sales!isBetterSale(a, b) /\ Sales!isBetterSale(b, c) => Sales!isBetterSale(a, c)

Better(pr, en, a, b) == \/ pr[a] < pr[b]
                        \/ (pr[a] = pr[b] /\ en[a] < en[b])
                        \/ (pr[a] = pr[b] /\ en[a] = en[b] /\ a < b)

LEMMA BetterIsOrder ==
    ASSUME \A c \in Campaigns : SaleRow(campaign[c])
    PROVE  SaleOrder(Campaigns)
<1>1. ASSUME NEW c \in Campaigns PROVE c \in Nat /\ Sales!Price(c) \in Int /\ campaign[c].endsAt \in Nat
  <2>1. PICK x : x = campaign[c].percent
    OBVIOUS
  <2>2. x \in Nat /\ ListPrice \in Nat /\ c \in Nat
    BY <2>1, ServicesAssumption DEF SaleRow
  <2>3. 100 - x \in Int
    BY <2>2
  <2>4. ListPrice * (100 - x) \in Int
    BY <2>2, <2>3
  <2>5. (ListPrice * (100 - x) + 50) \div 100 \in Int
    BY <2>4
  <2> QED BY <2>1, <2>2, <2>5 DEF SaleRow, Sales!Price, Sales!resolveSalePrice
<1>2. PICK pr, en : pr = [c \in Campaigns |-> Sales!Price(c)] /\ en = [c \in Campaigns |-> campaign[c].endsAt]
  OBVIOUS
<1>3. /\ Campaigns \in SUBSET Nat /\ pr \in [Campaigns -> Int] /\ en \in [Campaigns -> Nat]
      /\ \A c \in Campaigns : Sales!Price(c) = pr[c]
  BY <1>1, <1>2
<1>4. ASSUME NEW a \in Campaigns, NEW b \in Campaigns
      PROVE  Sales!isBetterSale(a, b) <=> Better(pr, en, a, b)
  <2>1. /\ Sales!Price(a) = pr[a] /\ Sales!Price(b) = pr[b]
        /\ campaign[a].endsAt = en[a] /\ campaign[b].endsAt = en[b]
    BY <1>2
  <2> QED BY ONLY <2>1 DEF Sales!isBetterSale, Better
<1>5. ASSUME NEW a \in Campaigns, NEW b \in Campaigns
      PROVE  /\ ~Better(pr, en, a, a)
             /\ a = b \/ Better(pr, en, a, b) \/ Better(pr, en, b, a)
             /\ ~Better(pr, en, a, b) => pr[b] <= pr[a]
  BY <1>3 DEF Better
<1>6. ASSUME NEW a \in Campaigns, NEW b \in Campaigns, NEW c \in Campaigns,
             Better(pr, en, a, b), Better(pr, en, b, c)
      PROVE  Better(pr, en, a, c)
  BY <1>3, <1>6 DEF Better
<1>7. /\ \A a \in Campaigns : ~Sales!isBetterSale(a, a)
      /\ \A a, b \in Campaigns : a = b \/ Sales!isBetterSale(a, b) \/ Sales!isBetterSale(b, a)
  BY <1>4, <1>5
<1>8. \A a, b \in Campaigns : ~Sales!isBetterSale(a, b) => Sales!Price(b) <= Sales!Price(a)
  BY <1>3, <1>4, <1>5
<1>9. \A a, b, c \in Campaigns : Sales!isBetterSale(a, b) /\ Sales!isBetterSale(b, c) => Sales!isBetterSale(a, c)
  BY <1>4, <1>6
<1> QED BY <1>7, <1>8, <1>9 DEF SaleOrder

LEMMA NatInduct ==
    ASSUME NEW S, 0 \in S, \A k \in Nat : k \in S => k + 1 \in S
    PROVE  \A k \in Nat : k \in S
<1> SUFFICES ASSUME NEW n \in Nat, n \notin S PROVE FALSE
  OBVIOUS
<1> DEFINE T == {k \in Nat : k \notin S}
<1>1. PICK y \in T : \A z \in T : ~(<<z, y>> \in OpToRel(<, Nat))
  <2>1. T \subseteq Nat /\ T # {}
    OBVIOUS
  <2> QED BY <2>1, NatLessThanWellFounded, WFMin
<1>2. y \in Nat /\ y \notin S /\ y # 0
  BY <1>1
<1>3. y - 1 \in Nat /\ y - 1 < y /\ y = (y - 1) + 1
  BY <1>2
<1>4. y - 1 \notin T
  BY <1>1, <1>2, <1>3 DEF OpToRel
<1> QED BY <1>2, <1>3, <1>4

\* The rest of the rows of 1..k + 1 are rows of 1..k.
LEMMA RowsBefore ==
    ASSUME NEW k \in Nat, NEW T \in SUBSET (1..(k + 1)), T # {}
    PROVE  /\ Sales!Max(T) \in T /\ T \ {Sales!Max(T)} \in SUBSET (1..k)
           /\ T = (T \ {Sales!Max(T)}) \cup {Sales!Max(T)}
<1>1. Sales!Max(T) \in T /\ \A x \in T : x <= Sales!Max(T)
  <2>1. k + 1 \in Nat
    OBVIOUS
  <2> QED BY <2>1, LastRow
<1>2. ASSUME NEW x \in T, x # Sales!Max(T) PROVE x \in 1..k
  <2>1. PICK m \in 1..(k + 1) : m = Sales!Max(T)
    BY <1>1
  <2>2. x \in 1..(k + 1) /\ x <= m /\ x # m
    BY <1>1, <1>2, <2>1
  <2> QED BY <2>2
<1> QED BY <1>1, <1>2

LEMMA ScanExists == ASSUME NEW n \in Nat, NEW s PROVE \E G : Scan(G, s, 1..n)
<1> DEFINE S == {k \in Nat : \E G : Scan(G, s, 1..k)}
<1>1. 0 \in S
  <2> DEFINE G == [T \in SUBSET (1..0) |-> 0]
  <2>1. \A T \in SUBSET (1..0) : T = {}
    OBVIOUS
  <2>2. Scan(G, s, 1..0)
    BY <2>1 DEF Scan
  <2> QED BY <2>2
<1>2. ASSUME NEW k \in Nat, k \in S PROVE k + 1 \in S
  <2>1. PICK G : Scan(G, s, 1..k)
    BY <1>2
  <2> DEFINE rest(T) == T \ {Sales!Max(T)}
  <2> DEFINE H == [T \in SUBSET (1..(k + 1)) |->
                     IF T = {} THEN 0 ELSE NextBest(s[Sales!Max(T)], G[rest(T)])]
  <2>2. ASSUME NEW T \in SUBSET (1..k) PROVE H[T] = G[T]
    <3>1. T \in SUBSET (1..(k + 1))
      OBVIOUS
    <3> QED BY <2>1, <3>1 DEF Scan
  <2>3. ASSUME NEW T \in SUBSET (1..(k + 1)), T # {} PROVE H[rest(T)] = G[rest(T)]
    <3>1. rest(T) \in SUBSET (1..k)
      BY <2>3, RowsBefore
    <3> HIDE DEF H, rest
    <3> QED BY <2>2, <3>1
  <2>4. \A T \in SUBSET (1..(k + 1)) :
            H[T] = IF T = {} THEN 0 ELSE NextBest(s[Sales!Max(T)], H[rest(T)])
    BY <2>3
  <2>5. H = [T \in SUBSET (1..(k + 1)) |-> H[T]]
    OBVIOUS
  <2>6. Scan(H, s, 1..(k + 1))
    <3> HIDE DEF H
    <3> QED BY <2>4, <2>5 DEF Scan
  <2>7. k + 1 \in Nat
    OBVIOUS
  <2> HIDE DEF H
  <2> QED BY <2>6, <2>7
<1>3. \A k \in Nat : k \in S
  <2> HIDE DEF S
  <2> QED BY <1>1, <1>2, NatInduct
<1> QED BY <1>3

\* What is found is one of the rows, and none of them is better.
LEMMA ScanIsBest ==
    ASSUME NEW C \in SUBSET (Nat \ {0}), SaleOrder(C),
           NEW n \in Nat, NEW s \in [1..n -> C], NEW G, Scan(G, s, 1..n)
    PROVE  n # 0 => \E i \in 1..n : G[1..n] = s[i] /\ \A x \in 1..n : ~Sales!isBetterSale(s[x], s[i])
<1>0. /\ \A a \in C : ~Sales!isBetterSale(a, a)
      /\ \A a, b, c \in C : Sales!isBetterSale(a, b) /\ Sales!isBetterSale(b, c) => Sales!isBetterSale(a, c)
  BY DEF SaleOrder
<1> DEFINE Best(T) == \E i \in T : G[T] = s[i] /\ \A x \in T : ~Sales!isBetterSale(s[x], s[i])
<1> DEFINE S == {k \in Nat : k <= n => \A T \in SUBSET (1..k) : T # {} => Best(T)}
<1>1. 0 \in S
  <2>1. \A T \in SUBSET (1..0) : T = {}
    OBVIOUS
  <2> QED BY <2>1
<1>2. ASSUME NEW k \in Nat, k \in S PROVE k + 1 \in S
  <2>1. SUFFICES ASSUME k + 1 <= n, NEW T \in SUBSET (1..(k + 1)), T # {} PROVE Best(T)
    BY <1>2
  <2>2. PICK m, R : m = Sales!Max(T) /\ R = T \ {m}
    OBVIOUS
  <2>3. m \in T /\ R \in SUBSET (1..k) /\ T = R \cup {m} /\ m \in 1..n
    <3>1. m \in T /\ R \in SUBSET (1..k) /\ T = R \cup {m}
      BY <2>1, <2>2, RowsBefore
    <3>2. m \in 1..(k + 1)
      BY <3>1
    <3> QED BY <2>1, <3>1, <3>2
  <2>4. T \in SUBSET (1..n) /\ R \in SUBSET (1..n) /\ k <= n
    BY <2>1, <2>3
  <2>5. G[T] = NextBest(s[m], G[R]) /\ G[{}] = 0
    BY <2>1, <2>2, <2>4 DEF Scan
  <2>6. \A x \in T : s[x] \in C /\ s[x] \in Nat /\ s[x] # 0
    BY <2>4
  <2>7. CASE R = {}
    <3>1. G[T] = s[m]
      BY <2>5, <2>7 DEF NextBest
    <3>2. ~Sales!isBetterSale(s[m], s[m])
      BY <1>0, <2>3, <2>6
    <3> QED BY <2>3, <2>7, <3>1, <3>2
  <2>8. CASE R # {}
    <3>1. PICK i \in R : G[R] = s[i] /\ \A x \in R : ~Sales!isBetterSale(s[x], s[i])
      BY <1>2, <2>3, <2>4, <2>8
    <3>2. s[i] \in C /\ s[i] # 0 /\ s[m] \in C /\ ~Sales!isBetterSale(s[m], s[m])
      BY <1>0, <2>3, <2>6, <3>1
    <3>3. CASE Sales!isBetterSale(s[m], s[i])
      <4>1. G[T] = s[m]
        BY <2>5, <3>1, <3>3 DEF NextBest
      <4>2. ASSUME NEW x \in R PROVE ~Sales!isBetterSale(s[x], s[m])
        <5>1. s[x] \in C
          BY <2>3, <2>6
        <5> QED BY <1>0, <3>1, <3>2, <3>3, <5>1
      <4> QED BY <2>3, <3>2, <4>1, <4>2
    <3>4. CASE ~Sales!isBetterSale(s[m], s[i])
      <4>1. G[T] = s[i]
        BY <2>5, <3>1, <3>2, <3>4 DEF NextBest
      <4> QED BY <2>3, <3>1, <3>4, <4>1
    <3> QED BY <3>3, <3>4
  <2> QED BY <2>7, <2>8
<1>3. \A k \in Nat : k \in S
  <2> HIDE DEF S
  <2> QED BY <1>1, <1>2, NatInduct
<1>4. ASSUME n # 0 PROVE Best(1..n)
  <2>1. 1 \in 1..n /\ n <= n
    BY <1>4
  <2>2. n \in S
    BY <1>3
  <2>3. \A T \in SUBSET (1..n) : T # {} => Best(T)
    BY <2>1, <2>2
  <2> HIDE DEF Best
  <2> QED BY <2>1, <2>3
<1> QED BY <1>4

LEMMA SalesCardinality == \A S : Sales!Cardinality(S) = Cardinality(S)
BY DEF Sales!Cardinality, Cardinality

(* A permutation of as many rows as there are has every row. *)
LEMMA PermutationHasAll ==
    ASSUME NEW R, IsFiniteSet(R), NEW s \in Sales!SetToAllKPermutations(R), Len(s) = Cardinality(R)
    PROVE  /\ Cardinality(R) \in Nat /\ s \in [1..Cardinality(R) -> R]
           /\ \A c \in R : \E i \in 1..Cardinality(R) : s[i] = c
<1>1. PICK S \in SUBSET R : s \in Sales!SetToSeqs(S)
  BY DEF Sales!SetToAllKPermutations
<1>2. PICK n : n = Cardinality(S)
  OBVIOUS
<1>3. IsFiniteSet(S) /\ n \in Nat
  BY <1>1, <1>2, FS_Subset, FS_CardinalityType
<1>4. s \in [1..n -> S] /\ \A i, j \in 1..n : i # j => s[i] # s[j]
  BY <1>1, <1>2, SalesCardinality DEF Sales!SetToSeqs
<1>5. Len(s) = n
  BY <1>3, <1>4, LenProperties
<1>6. S = R
  BY <1>1, <1>2, <1>5, FS_Subset
<1>7. PICK I : I = {s[i] : i \in 1..n}
  OBVIOUS
<1>8. Cardinality(1..n) = n /\ IsFiniteSet(1..n)
  <2>1. 1 \in Int /\ n \in Int /\ n - 1 + 1 = n
    BY <1>3
  <2> QED BY <1>3, <2>1, FS_Interval
<1>9. s \in Bijection(1..n, I)
  <2>1. s \in [1..n -> I] /\ \A t \in I : \E i \in 1..n : s[i] = t
    BY <1>4, <1>7
  <2> QED BY <1>4, <2>1 DEF Bijection, Injection, Surjection, IsInjective
<1>10. Cardinality(I) = n
  <2>1. ExistsBijection(1..n, I)
    BY <1>9 DEF ExistsBijection
  <2> QED BY <1>8, <2>1, FS_Bijection
<1>11. I \in SUBSET S
  BY <1>4, <1>7
<1>12. I = S
  BY <1>2, <1>3, <1>10, <1>11, FS_Subset
<1> QED BY <1>2, <1>3, <1>4, <1>5, <1>6, <1>7, <1>12

(* What resolveSale finds is what a scan finds. *)
LEMMA ResolveIsScan ==
    ASSUME NEW n \in Nat, NEW s, DOMAIN s = 1..n
    PROVE  \E G : Scan(G, s, 1..n) /\ Sales!resolveSale(s) = G[1..n]
<1> DEFINE body(it) == [T \in SUBSET (1..n) |-> IF T = {} THEN 0
                          ELSE NextBest(s[Sales!Max(T)], it[T \ {Sales!Max(T)}])]
<1> DEFINE found == CHOOSE it : it = body(it)
<1>1. \E it : it = body(it)
  <2>1. PICK G : Scan(G, s, 1..n)
    BY ScanExists
  <2>2. G = body(G)
    BY <2>1 DEF Scan
  <2> QED BY <2>2
<1>2. found = body(found)
  BY <1>1
<1>3. Scan(found, s, 1..n)
  BY <1>2 DEF Scan
<1>4. Sales!resolveSale(s) = found[1..n]
  BY DEF Sales!resolveSale, Sales!FoldLeft, Sales!MapThenFoldSet, NextBest
<1> QED BY <1>3, <1>4

(* Two readers of the same rows find the same campaign, and no lower price. *)
LEMMA OnePriceShown == ASSUME SalesInv PROVE Sales!OnePrice
<1> SUFFICES ASSUME NEW p \in Products, NEW at \in 0..Horizon,
                    NEW s \in Sales!SetToAllKPermutations(Sales!Rows(p, at)),
                    NEW t \in Sales!SetToAllKPermutations(Sales!Rows(p, at)),
                    Len(s) = Sales!Cardinality(Sales!Rows(p, at)), Len(t) = Len(s)
             PROVE  /\ Sales!resolveSale(s) = Sales!resolveSale(t)
                    /\ \A c \in Sales!Rows(p, at) : Sales!Price(Sales!resolveSale(s)) <= Sales!Price(c)
  BY DEF Sales!OnePrice
<1>1. PICK R, n : R = Sales!Rows(p, at) /\ n = Cardinality(R)
  OBVIOUS
<1>2. R \in SUBSET Campaigns /\ Campaigns \in SUBSET (Nat \ {0}) /\ IsFiniteSet(R)
  <2>1. R \in SUBSET Campaigns
    BY <1>1 DEF Sales!Rows
  <2> QED BY <2>1, ServicesAssumption, FS_Subset
<1>3. SaleOrder(Campaigns)
  BY BetterIsOrder DEF SalesInv, SaleRows
<1>4. SaleOrder(R)
  BY <1>2, <1>3 DEF SaleOrder
<1>5. /\ n \in Nat /\ s \in [1..n -> R] /\ t \in [1..n -> R]
      /\ \A c \in R : (\E i \in 1..n : s[i] = c) /\ (\E i \in 1..n : t[i] = c)
  <2>1. Len(s) = Cardinality(R) /\ Len(t) = Cardinality(R)
    BY <1>1, SalesCardinality
  <2>2. n \in Nat /\ s \in [1..n -> R] /\ \A c \in R : \E i \in 1..n : s[i] = c
    BY <1>1, <1>2, <2>1, PermutationHasAll
  <2>3. t \in [1..n -> R] /\ \A c \in R : \E i \in 1..n : t[i] = c
    BY <1>1, <1>2, <2>1, PermutationHasAll
  <2> QED BY <2>2, <2>3
<1>6. PICK G : Scan(G, s, 1..n) /\ Sales!resolveSale(s) = G[1..n]
  BY <1>5, ResolveIsScan
<1>7. PICK H : Scan(H, t, 1..n) /\ Sales!resolveSale(t) = H[1..n]
  BY <1>5, ResolveIsScan
<1>8. CASE n = 0
  <2>1. R = {}
    BY <1>1, <1>2, <1>8, FS_EmptySet
  <2>2. 1..n = {}
    BY <1>8
  <2>3. G[1..n] = 0 /\ H[1..n] = 0
    BY <1>6, <1>7, <2>2 DEF Scan
  <2> QED BY <1>1, <1>6, <1>7, <2>1, <2>3
<1>9. CASE n # 0
  <2>1. R \in SUBSET (Nat \ {0})
    BY <1>2
  <2>2. PICK i \in 1..n : G[1..n] = s[i] /\ \A x \in 1..n : ~Sales!isBetterSale(s[x], s[i])
    BY <1>4, <1>5, <1>6, <1>9, <2>1, ScanIsBest
  <2>3. PICK j \in 1..n : H[1..n] = t[j] /\ \A x \in 1..n : ~Sales!isBetterSale(t[x], t[j])
    BY <1>4, <1>5, <1>7, <1>9, <2>1, ScanIsBest
  <2>4. PICK a, b \in R : a = s[i] /\ b = t[j]
    BY <1>5
  <2>5. \A c \in R : ~Sales!isBetterSale(c, a) /\ ~Sales!isBetterSale(c, b)
    BY <1>5, <2>2, <2>3, <2>4
  <2>6. a = b
    BY <1>4, <2>5 DEF SaleOrder
  <2>7. \A c \in R : Sales!Price(a) <= Sales!Price(c)
    BY <1>4, <2>5 DEF SaleOrder
  <2> QED BY <1>1, <1>6, <1>7, <2>2, <2>3, <2>4, <2>6, <2>7
<1> QED BY <1>5, <1>8, <1>9

LEMMA SalesShown == ASSUME SalesInv PROVE Sales!OverlapIsHarmless
<1>1. Sales!OverlapOnlyTogether
  BY DEF Sales!OverlapOnlyTogether, SalesInv, SaleRows, Apart
<1> QED BY <1>1, OnePriceShown DEF Sales!OverlapIsHarmless

LEMMA SalesStart == ASSUME Sales!Init PROVE SalesInv
<1>1. /\ campaign = [c \in Campaigns |-> Sales!None] /\ job = [h \in Handlers |-> Sales!NoJob] /\ together = {}
  BY DEF Sales!Init
<1>2. SaleRows(together, campaign)
  <2>1. \A c \in Campaigns : campaign[c] = Sales!None
    BY <1>1
  <2> QED BY <1>1, <2>1, NoneIsRow DEF SaleRows
<1>3. SaleJobs(together, campaign, job)
  <2>1. \A h \in Handlers : job[h] = Sales!NoJob
    BY <1>1
  <2> QED BY <1>1, <2>1 DEF SaleJobs
<1> QED BY <1>2, <1>3 DEF SalesInv

LEMMA SalesStep == ASSUME SalesInv, [Sales!Next]_(Sales!vars) PROVE SalesInv'
<1>1. CASE UNCHANGED Sales!vars
  <2>1. campaign' = campaign /\ job' = job /\ together' = together
    BY <1>1 DEF Sales!vars
  <2> QED BY <2>1 DEF SalesInv
<1> QED BY <1>1, SaleCreateStep, SaleUpdateStep, SaleWriteStep, SaleRemoveStep DEF Sales!Next

(* Two active campaigns share a product and a moment only after one was checked while the
   other was about to be written, or one was changed by two requests at once; and whatever
   campaigns there are, every reader is given the same price, the lowest, in whatever order
   the rows come, for any number of administrators, campaigns, products and dates
   (sale-campaigns.service.ts, sale-pricing.service.ts). *)
THEOREM OverlapIsHarmlessHolds == Spec => []OverlapIsHarmless
<1>1. Init => (scope = "Sales" => SalesInv)
  BY SalesStart DEF Init
<1>2. (scope = "Sales" => SalesInv) /\ [Next]_vars => (scope = "Sales" => SalesInv)'
  <2>1. [Next]_vars /\ scope' = "Sales" => scope = "Sales" /\ [Sales!Next]_(Sales!vars)
    BY DEF Next, vars, shared, sales, Sales!vars
  <2> QED BY <2>1, SalesStep
<1>3. (scope = "Sales" => SalesInv) => OverlapIsHarmless
  BY SalesShown DEF OverlapIsHarmless
<1> QED BY <1>1, <1>2, <1>3, PTL DEF Spec

=============================================================================
