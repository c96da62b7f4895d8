------------------------------- MODULE Locations -------------------------------
(***************************************************************************)
(* The carrier's catalog of provinces and wards: ghn-location-sync copies  *)
(* it under a new generation and publishes the generation under a new      *)
(* revision; clients read provinces, then wards, by the revision they      *)
(* were given.  Codes and names are left out: a generation is the          *)
(* provinces it lists and the provinces whose wards it has, or has none    *)
(* of because the carrier's answer was empty.                              *)
(***************************************************************************)
EXTENDS Naturals, Sequences, FiniteSets

CONSTANTS
    Handlers,      \* synchronisations and readers at one time
    Provinces,
    MaxRuns,       \* bound: synchronisations
    MaxFaults      \* bound: lost and empty answers, deaths, expiries of the lock

VARIABLES
    runs,          \* ghn_location_sync_runs: the status of generation n
    rows,          \* ghn_locations of generation n
    metadata,      \* ghn_catalog_metadata, NoCatalog before the first publication
    publications,  \* ghn_catalog_publications: the generation of revision n
    expired,       \* revisions whose retainedUntil has passed
    lock,          \* ghn:location-sync is taken
    stragglers,    \* workers that go on after another one failed
    served,        \* history: what readers were given, by the revision published
    job, faults

vars == <<runs, rows, metadata, publications, expired, lock, stragglers, served, job, faults>>

NoCatalog == [generation |-> 0, revision |-> 0]
NoRows    == [provinces |-> {}, wards |-> {}, empty |-> {}]
NoJob == [at |-> "IDLE", generation |-> 0, attempt |-> 0, todo |-> {}, inHand |-> {},
          seen |-> NoCatalog, revision |-> 0]

Init ==
    /\ runs = <<>> /\ rows = <<>> /\ publications = <<>>
    /\ metadata = NoCatalog
    /\ expired = {} /\ stragglers = {} /\ served = {}
    /\ lock = FALSE
    /\ job = [h \in Handlers |-> NoJob]
    /\ faults = 0

At(h, s)  == job[h].at = s
Set(h, j) == job' = [job EXCEPT ![h] = j]
Go(h, s)  == Set(h, [job[h] EXCEPT !.at = s])
Fault     == faults < MaxFaults /\ faults' = faults + 1
catalog   == <<metadata, publications, expired, served>>

-----------------------------------------------------------------------------
(* sync *)

\* A run that is still RUNNING after STALE_SYNC_RUN_MS is given up, alive or not; the
\* lock's time to live is shorter than that.
Stale == {n \in DOMAIN runs : runs[n] = "RUNNING"}
reconcileStaleRuns(stale) ==
    runs' = [n \in DOMAIN runs |-> IF n \in stale THEN "FAILED" ELSE runs[n]]

Start(h) ==
    /\ job[h] = NoJob /\ ~lock
    /\ lock' = TRUE
    /\ \E stale \in SUBSET Stale : reconcileStaleRuns(stale)
    /\ Go(h, "ALLOCATE")
    /\ UNCHANGED <<rows, catalog, stragglers, faults>>

nextCatalogGeneration ==
    (IF metadata.generation > Len(runs) THEN metadata.generation ELSE Len(runs)) + 1

Allocate(h) ==
    /\ At(h, "ALLOCATE") /\ nextCatalogGeneration <= MaxRuns
    /\ Set(h, [job[h] EXCEPT !.at = "CREATE", !.generation = nextCatalogGeneration,
                             !.attempt = @ + 1])
    /\ UNCHANGED <<runs, rows, catalog, lock, stragglers, faults>>

\* The generation is unique: another run may have taken it; three attempts.
createSyncRun(h) ==
    /\ At(h, "CREATE")
    /\ IF job[h].generation \in DOMAIN runs
       THEN /\ IF job[h].attempt = 3 THEN Set(h, NoJob) /\ lock' = FALSE
                                     ELSE Go(h, "ALLOCATE") /\ UNCHANGED lock
            /\ UNCHANGED <<runs, rows>>
       ELSE /\ runs' = Append(runs, "RUNNING") /\ rows' = Append(rows, NoRows)
            /\ Go(h, "PROVINCES") /\ UNCHANGED lock
    /\ UNCHANGED <<catalog, stragglers, faults>>

\* catch and finally: the run is FAILED, the lock is deleted whoever holds it now.  The
\* other workers of eachLimit go on with the provinces that are left.
Fail(h, left) ==
    /\ runs' = [runs EXCEPT ![job[h].generation] = "FAILED"]
    /\ lock' = FALSE
    /\ stragglers' = stragglers \cup {<<job[h].generation, p>> : p \in left}
    /\ Set(h, NoJob)

fetchProvinces(h, answer) ==
    /\ At(h, "PROVINCES")
    /\ IF answer = {}
       THEN Fail(h, {}) /\ UNCHANGED rows
       ELSE /\ rows' = [rows EXCEPT ![job[h].generation].provinces = answer]
            /\ Set(h, [job[h] EXCEPT !.at = "WARDS", !.todo = answer])
            /\ UNCHANGED <<runs, lock, stragglers>>
    /\ UNCHANGED <<catalog, faults>>

\* Workers fetch the wards of one province each and store them.
fetchWards(h, p) ==
    /\ At(h, "WARDS") /\ p \in job[h].todo
    /\ Set(h, [job[h] EXCEPT !.todo = @ \ {p}, !.inHand = @ \cup {p}])
    /\ UNCHANGED <<runs, rows, catalog, lock, stragglers, faults>>

upsertLocations(h, p) ==
    /\ At(h, "WARDS") /\ p \in job[h].inHand
    /\ rows' = [rows EXCEPT ![job[h].generation].wards = @ \cup {p}]
    /\ Set(h, [job[h] EXCEPT !.inHand = @ \ {p}])
    /\ UNCHANGED <<runs, catalog, lock, stragglers, faults>>

\* An answer without a ward that can be read is none to store, and no failure.
EmptyAnswer(h, p) ==
    /\ Fault
    /\ At(h, "WARDS") /\ p \in job[h].inHand
    /\ rows' = [rows EXCEPT ![job[h].generation].empty = @ \cup {p}]
    /\ Set(h, [job[h] EXCEPT !.inHand = @ \ {p}])
    /\ UNCHANGED <<runs, catalog, lock, stragglers>>

Working(h) == job[h].todo \cup job[h].inHand

\* A worker failed and nobody minds.
SwallowedFailure(h, p) ==
    /\ Set(h, [job[h] EXCEPT !.todo = @ \ {p}, !.inHand = @ \ {p}])
    /\ UNCHANGED <<runs, lock, stragglers>>

WorkerFailure(h, p) == Fail(h, Working(h) \ {p})

\* Three attempts of withRetry are over, or the upsert fails.
WorkerFails(h, p) ==
    /\ Fault
    /\ At(h, "WARDS") /\ p \in Working(h)
    /\ WorkerFailure(h, p)
    /\ UNCHANGED <<rows, catalog>>

Straggle(s) ==
    /\ s \in stragglers /\ stragglers' = stragglers \ {s}
    /\ rows' = [rows EXCEPT ![s[1]].wards = @ \cup {s[2]}]
    /\ UNCHANGED <<runs, catalog, lock, job, faults>>

\* The transaction reads which revision is the current one ...
ReadRevision(h) ==
    /\ At(h, "WARDS") /\ Working(h) = {}
    /\ Set(h, [job[h] EXCEPT !.at = "PUBLISH", !.seen = metadata])
    /\ UNCHANGED <<runs, rows, catalog, lock, stragglers, faults>>

\* ... keeps it for CATALOG_RETENTION_MS more, and makes its own the current one: the
\* revision is unique, so of two runs that read the same one the second fails.
RevisionTaken(h) == job[h].seen.revision + 1 \in DOMAIN publications

Publish(h) ==
    LET revision == job[h].seen.revision + 1
    IN /\ At(h, "PUBLISH")
       /\ IF RevisionTaken(h) THEN Fail(h, {}) /\ UNCHANGED catalog
          ELSE /\ publications' = [n \in 1..revision |->
                                     IF n = revision THEN job[h].generation ELSE publications[n]]
               /\ expired' = expired \ {revision - 1}
               /\ metadata' = [generation |-> job[h].generation, revision |-> revision]
               /\ runs' = [runs EXCEPT ![job[h].generation] = "SUCCEEDED"]
               /\ lock' = FALSE /\ Set(h, NoJob)
               /\ UNCHANGED <<served, stragglers>>
       /\ UNCHANGED <<rows, faults>>

Crash(h) ==
    /\ Fault
    /\ job[h].at \notin {"IDLE", "READ"}
    /\ Set(h, NoJob)
    /\ UNCHANGED <<runs, rows, catalog, lock, stragglers>>

LockExpires ==
    /\ Fault
    /\ lock /\ lock' = FALSE
    /\ UNCHANGED <<runs, rows, catalog, stragglers, job>>

\* onModuleInit of a process that starts.
onModuleInit ==
    /\ Stale # {} /\ reconcileStaleRuns(Stale)
    /\ UNCHANGED <<rows, catalog, lock, stragglers, job, faults>>

\* A week after a revision was published, or replaced.
RetentionEnds(r) ==
    /\ r \in DOMAIN publications \ expired
    /\ expired' = expired \cup {r}
    /\ UNCHANGED <<runs, rows, metadata, publications, lock, stragglers, served, job, faults>>

-----------------------------------------------------------------------------
(* getAddressCatalogProvinces and getAddressCatalogWards by a revision r, and                *)
(* validateGhnLocation by none (0), with getPublishedCatalog                                *)

ReadMetadata(h, r) ==
    /\ job[h] = NoJob
    /\ Set(h, [NoJob EXCEPT !.at = "READ", !.seen = metadata, !.revision = r])
    /\ UNCHANGED <<runs, rows, catalog, lock, stragglers, faults>>

\* The current revision never expires; an older one is served while it is retained; who
\* names none is served the current one, or generation 1 before anything is published.
getPublishedCatalog(j) ==
    IF j.revision \in {0, j.seen.revision}
    THEN IF j.seen = NoCatalog THEN [generation |-> 1, revision |-> 0] ELSE j.seen
    ELSE IF j.revision \in DOMAIN publications \ expired
    THEN [generation |-> publications[j.revision], revision |-> j.revision]
    ELSE NoCatalog                         \* CATALOG_REVISION_STALE

ReadRows(h) ==
    /\ At(h, "READ")
    /\ LET c == getPublishedCatalog(job[h])
       IN served' = IF c.revision = 0 THEN served
                    ELSE served \cup {[revision |-> c.revision, generation |-> c.generation,
                                       rows |-> rows[c.generation]]}
    /\ Set(h, NoJob)
    /\ UNCHANGED <<runs, rows, metadata, publications, expired, lock, stragglers, faults>>

Next ==
    \/ \E h \in Handlers :
          \/ Start(h) \/ Allocate(h) \/ createSyncRun(h) \/ ReadRevision(h) \/ Publish(h)
          \/ \E answer \in SUBSET Provinces : fetchProvinces(h, answer)
          \/ \E p \in Provinces : \/ fetchWards(h, p) \/ upsertLocations(h, p)
                                  \/ EmptyAnswer(h, p) \/ WorkerFails(h, p)
          \/ Crash(h)
          \/ \E r \in {0} \cup DOMAIN publications : ReadMetadata(h, r)
          \/ ReadRows(h)
    \/ \E s \in stragglers : Straggle(s)
    \/ \E r \in DOMAIN publications : RetentionEnds(r)
    \/ LockExpires \/ onModuleInit

Spec == Init /\ [][Next]_vars

-----------------------------------------------------------------------------
(* Properties *)

\* Provinces and wards are two requests, and between them a run may publish, fail half
\* way or be doubled by another one whose lock expired: by one revision a client is always
\* given the same copy, whole as the carrier answered (shipping.service.ts:193,
\* ghn-location-sync.service.ts:63).  A copy lacks the wards of a province only if the
\* carrier's answer for it had none (ghn-location-sync.service.ts:172).  Left out is who
\* names no revision before the first one is published: generation 1 as far as it goes
\* (shipping.service.ts:219).
RevisionIsOneWholeCatalog ==
    \A s \in served :
        /\ s.rows.wards \cup s.rows.empty = s.rows.provinces /\ s.rows.provinces # {}
        /\ \A t \in served : t.revision = s.revision => t.generation = s.generation
===============================================================================
