------------------------------ MODULE AddressBook ------------------------------
(***************************************************************************)
(* The address book of one customer, edited from several devices at once.  *)
(* A request first checks what it was given, asking the carrier when the   *)
(* place is new, and then changes the book in a transaction that begins by *)
(* locking the customer's row: what it read after the lock is still so     *)
(* when it writes.  The book is kept in the order of creation.             *)
(***************************************************************************)
EXTENDS Naturals, Sequences, SequencesExt

CONSTANTS
    Handlers,          \* requests at one time
    Places,            \* wards an address may be in
    Undeliverable,     \* those the carrier refuses
    ADDRESS_LIMIT,     \* addresses of an account
    MaxVersion,        \* bound: changes of one address
    MaxCreated         \* bound: addresses ever created

NoPlace == "NO_PLACE"
Free == "FREE"

VARIABLES
    book,              \* user_addresses of the customer, oldest first
    created,           \* addresses ever created
    lock,              \* request that holds the customer's row
    job

vars == <<book, created, lock, job>>

NoJob == [at |-> "IDLE", op |-> "NONE", id |-> 0, place |-> NoPlace, default |-> FALSE,
          expected |-> 0, seen |-> <<>>]

Init ==
    /\ book = <<>> /\ created = 0 /\ lock = Free
    /\ job = [h \in Handlers |-> NoJob]

At(h, s) == job[h].at = s
Go(h, s) == job' = [job EXCEPT ![h].at = s]
Done(h)  == job' = [job EXCEPT ![h] = NoJob]

Ids(b) == {b[n].id : n \in DOMAIN b}
Entry(b, id) == b[CHOOSE n \in DOMAIN b : b[n].id = id]

-----------------------------------------------------------------------------
(* Before the transaction *)

\* A new address is always checked with the carrier, a changed one when it moved.
create(h, place, default) ==
    /\ job[h] = NoJob
    /\ job' = [job EXCEPT ![h] = [NoJob EXCEPT !.at = "PROBE", !.op = "CREATE",
                                              !.place = place, !.default = default]]
    /\ UNCHANGED <<book, created, lock>>

\* A device may send the version it loaded, 0 when it does not.
update(h, id, place, default, expected) ==
    /\ job[h] = NoJob
    /\ LET moved == id \notin Ids(book) \/ Entry(book, id).place # place
       IN job' = [job EXCEPT ![h] = [NoJob EXCEPT !.at = IF moved THEN "PROBE" ELSE "LOCK",
                                       !.op = "UPDATE", !.id = id, !.place = place,
                                       !.default = default, !.expected = expected]]
    /\ UNCHANGED <<book, created, lock>>

removeOrSetDefault(h, op, id) ==
    /\ job[h] = NoJob
    /\ job' = [job EXCEPT ![h] = [NoJob EXCEPT !.at = "LOCK", !.op = op, !.id = id]]
    /\ UNCHANGED <<book, created, lock>>

\* Only a carrier that says the address is wrong stops the request; every other error of
\* the carrier lets it through.
probeDeliverability(h) ==
    /\ At(h, "PROBE")
    /\ Go(h, "LOCK") \/ (job[h].place \in Undeliverable /\ Done(h))
    /\ UNCHANGED <<book, created, lock>>

-----------------------------------------------------------------------------
(* The transaction *)

NoLock(h) == job[h].at = "LOCK" /\ UNCHANGED lock

lockUser(h) == job[h].at = "LOCK" /\ lock = Free /\ lock' = h

Begin(h) ==
    /\ lockUser(h)
    /\ job' = [job EXCEPT ![h].at = "WRITE", ![h].seen = book]
    /\ UNCHANGED <<book, created>>

\* Every other default address is demoted, which counts as a change of it.
Demoted(b, id) ==
    [n \in DOMAIN b |-> IF b[n].default /\ b[n].id # id
                        THEN [b[n] EXCEPT !.default = FALSE, !.version = @ + 1] ELSE b[n]]
Changed(b, id, a) == [n \in DOMAIN b |-> IF b[n].id = id THEN a ELSE b[n]]
Without(b, id) ==
    IF id \in Ids(b) THEN RemoveAt(b, CHOOSE n \in DOMAIN b : b[n].id = id) ELSE b
\* The oldest one left takes the place of a default that is removed.
Promoted(b) == IF b = <<>> THEN b
               ELSE [b EXCEPT ![1].default = TRUE, ![1].version = @ + 1]

Refused(j) ==
    CASE j.op = "CREATE" -> Len(j.seen) >= ADDRESS_LIMIT
      [] j.op = "UPDATE" -> \/ j.id \notin Ids(j.seen)
                            \/ j.expected \notin {0, Entry(j.seen, j.id).version}
      [] OTHER           -> j.id \notin Ids(j.seen)

Created(j) ==
    LET default == j.seen = <<>> \/ j.default
    IN Append(IF default THEN Demoted(book, 0) ELSE book,
              [id |-> created + 1, place |-> j.place, default |-> default, version |-> 1])

Updated(j) ==
    LET was == Entry(j.seen, j.id)
        default == j.default \/ was.default
    IN Changed(IF default THEN Demoted(book, j.id) ELSE book, j.id,
               [was EXCEPT !.place = j.place, !.default = default, !.version = @ + 1])

Removed(j) ==
    IF Entry(j.seen, j.id).default THEN Promoted(Without(book, j.id)) ELSE Without(book, j.id)

MadeDefault(j) ==
    Changed(Demoted(book, j.id), j.id,
            [Entry(j.seen, j.id) EXCEPT !.default = TRUE, !.version = @ + 1])

Written(j) ==
    CASE j.op = "CREATE" -> Created(j)
      [] j.op = "UPDATE" -> Updated(j)
      [] j.op = "REMOVE" -> Removed(j)
      [] j.op = "SET_DEFAULT" -> MadeDefault(j)

Commit(h) ==
    /\ At(h, "WRITE")
    /\ IF Refused(job[h]) THEN UNCHANGED <<book, created>>
       ELSE /\ book' = Written(job[h])
            /\ created' = IF job[h].op = "CREATE" THEN created + 1 ELSE created
    /\ created' <= MaxCreated
    /\ \A n \in DOMAIN book' : book'[n].version <= MaxVersion
    /\ lock' = Free
    /\ Done(h)

Next == \E h \in Handlers :
    \/ \E place \in Places, default \in BOOLEAN :
          \/ create(h, place, default)
          \/ \E id \in 1..created, v \in 0..1 : update(h, id, place, default, v)
    \/ \E id \in 1..created, op \in {"REMOVE", "SET_DEFAULT"} : removeOrSetDefault(h, op, id)
    \/ probeDeliverability(h) \/ Begin(h) \/ Commit(h)

Spec == Init /\ [][Next]_vars

-----------------------------------------------------------------------------
(* Properties *)

\* Whatever the devices do at once, an address book with an address in it has exactly one
\* default: no index of the database says so, the lock of lockUser does
\* (user-addresses.service.ts:175).
OneDefault == book # <<>> => \E n \in DOMAIN book : \A m \in DOMAIN book : book[m].default <=> m = n

===============================================================================
