---------------------------- MODULE StudioProofs ----------------------------
(***************************************************************************)
(* Theorems about the AI studio, for any number of requests, outfits,      *)
(* limits and faults: a picture is bought once, and what the user is given *)
(* and charged follows the results.  The arguments: of one picture no more *)
(* requests are past the look for its result than there are locks of it,   *)
(* in Redis and in the process, and locks that expired (StudioInv); what   *)
(* was given, what is in flight and what is still to come stay within the  *)
(* limits while any counter can start again (Books).                       *)
(***************************************************************************)
EXTENDS Services, Integers, Sequences, SequenceTheorems, FiniteSetTheorems, WellFoundedInduction, TLAPS

-----------------------------------------------------------------------------
(* AiStudio: a picture is bought once *)

LEMMA StudioCardinality == \A S : AiStudio!Cardinality(S) = Cardinality(S)
BY DEF AiStudio!Cardinality, Cardinality

LEMMA FewRequests == IsFiniteSet(Handlers)
BY ServicesAssumption

\* A request has all its fields.
StudioFields == {"kind", "step", "reading", "used", "outfit", "failed"}
StudioJob(j) == j = [x \in StudioFields |-> j[x]]

\* What a request puts on; it has the lock of its picture and is past the look for a
\* result of it that is stored already.
Worn(j)   == CHOOSE o \in j.outfit : TRUE
TryingOn(j) == j.kind = "TRY_ON"
TryOnJob(j) == j.kind = "NONE" \/ (TryingOn(j) /\ j.step \in 1..8)
In(j)     == j.kind = "TRY_ON" /\ j.step \in 3..8
Past(j)   == j.kind = "TRY_ON" /\ j.step \in 4..6
SamePicture(a, b) == AiStudio!Pictures(a) = AiStudio!Pictures(b) /\ AiStudio!CacheKey(a) = AiStudio!CacheKey(b)
Inside(k) == {h \in Handlers : In(job[h]) /\ AiStudio!Pictures(Worn(job[h])) = k}
Passed(o) == {h \in Handlers : Past(job[h]) /\ SamePicture(Worn(job[h]), o)}
Bought(o) == {i \in DOMAIN tryOns : SamePicture(tryOns[i], o)}
One(p)    == IF p THEN 1 ELSE 0

\* Every request that has the lock of a picture has one that is kept, or one that expired.
InsideInv == \A k : Cardinality(Inside(k)) <= One(k \in locks) + One(k \in memLocks) + expiries
\* Results of a picture, and requests that will store one.
BoughtInv == \A o : Cardinality(Bought(o)) + Cardinality(Passed(o)) <= 1 + expiries + outages

StudioRows ==
    /\ action \in {"TRY_ON", "STYLIST", "CHATBOT"} /\ expiries \in Nat /\ outages \in Nat
    /\ (~up \/ memLocks # {}) => outages > 0
    /\ up \in BOOLEAN
    /\ \E S : tryOns \in Seq(S)
    /\ job = [h \in Handlers |-> job[h]]
    /\ \A h \in Handlers : StudioJob(job[h])
    /\ action = "TRY_ON" => \A h \in Handlers : TryOnJob(job[h])
    /\ action # "TRY_ON" => tryOns = <<>> /\ \A h \in Handlers : ~TryingOn(job[h])
StudioInv == StudioRows /\ InsideInv /\ BoughtInv

(* A request goes on, or ends. *)
Keeps(i, j) == StudioJob(j) /\ j.kind = i.kind /\ j.outfit = i.outfit
LEMMA StudioIdle == StudioJob(AiStudio!NoJob) /\ AiStudio!NoJob.kind = "NONE" /\ AiStudio!NoJob.step = 0
BY DEF StudioJob, StudioFields, AiStudio!NoJob

LEMMA WithReading ==
    ASSUME NEW i, StudioJob(i), NEW s, NEW j, j = [i EXCEPT !.reading = s]
    PROVE  Keeps(i, j) /\ j.step = i.step
BY DEF StudioJob, StudioFields, Keeps

LEMMA WithUsed ==
    ASSUME NEW i, StudioJob(i), NEW s, NEW j, j = [i EXCEPT !.used = s]
    PROVE  Keeps(i, j) /\ j.step = i.step
BY DEF StudioJob, StudioFields, Keeps

LEMMA WithFailed ==
    ASSUME NEW i, StudioJob(i), NEW s, NEW j, j = [i EXCEPT !.failed = s]
    PROVE  Keeps(i, j) /\ j.step = i.step
BY DEF StudioJob, StudioFields, Keeps

LEMMA WithStep ==
    ASSUME NEW i, StudioJob(i), NEW s, NEW j, j = [i EXCEPT !.step = s]
    PROVE  Keeps(i, j) /\ j.step = s
BY DEF StudioJob, StudioFields, Keeps

LEMMA KeepsOn == ASSUME NEW i, NEW j, NEW k, Keeps(i, j), Keeps(j, k) PROVE Keeps(i, k)
BY DEF Keeps

LEMMA EightSteps ==
    ASSUME NEW q, q = <<"GUARD", "LOCK", "CACHE", "QUOTA", "PROVIDER", "SAVE", "CONSUME", "RELEASE">>
    PROVE  /\ Len(q) = 8 /\ DOMAIN q = 1..8
           /\ q[1] = "GUARD" /\ q[2] = "LOCK" /\ q[3] = "CACHE" /\ q[4] = "QUOTA"
           /\ q[5] = "PROVIDER" /\ q[6] = "SAVE" /\ q[7] = "CONSUME" /\ q[8] = "RELEASE"
OBVIOUS

(* What Advance and Fail make of a request. *)
LEMMA AdvanceIs ==
    ASSUME StudioRows, NEW h \in Handlers, AiStudio!Advance(h)
    PROVE  \E j : /\ StudioJob(j) /\ job' = [job EXCEPT ![h] = j]
                  /\ IF AiStudio!AtEnd(h) THEN j = AiStudio!NoJob
                                          ELSE Keeps(job[h], j) /\ j.step = job[h].step + 1
<1>1. PICK i : i = job[h] /\ StudioJob(i)
  BY DEF StudioRows
<1>2. CASE AiStudio!AtEnd(h)
  BY <1>2, StudioIdle DEF AiStudio!Advance, AiStudio!Go
<1>3. CASE ~AiStudio!AtEnd(h)
  <2>1. PICK a : a = [i EXCEPT !.step = i.step + 1]
    OBVIOUS
  <2>2. PICK b : b = [a EXCEPT !.reading = "NO"]
    OBVIOUS
  <2>3. PICK c : c = [b EXCEPT !.used = 0]
    OBVIOUS
  <2>4. Keeps(i, a) /\ a.step = i.step + 1
    BY <1>1, <2>1, WithStep
  <2>5. Keeps(a, b) /\ b.step = a.step
    BY <2>2, <2>4, WithReading DEF Keeps
  <2>6. Keeps(b, c) /\ c.step = b.step
    BY <2>3, <2>5, WithUsed DEF Keeps
  <2>7. job' = [job EXCEPT ![h] = c]
    BY <1>1, <1>3, <2>1, <2>2, <2>3 DEF AiStudio!Advance, AiStudio!Go
  <2> QED BY <1>1, <1>3, <2>4, <2>5, <2>6, <2>7, KeepsOn DEF Keeps
<1> QED BY <1>2, <1>3

LEMMA FailIs ==
    ASSUME StudioRows, NEW h \in Handlers, AiStudio!Fail(h)
    PROVE  \E j : /\ StudioJob(j) /\ job' = [job EXCEPT ![h] = j]
                  /\ IF AiStudio!Holding(h)
                     THEN Keeps(job[h], j) /\ j.step = AiStudio!Max(AiStudio!ReleaseStep(h))
                     ELSE j = AiStudio!NoJob
<1>1. PICK i : i = job[h] /\ StudioJob(i)
  BY DEF StudioRows
<1>2. CASE ~AiStudio!Holding(h)
  BY <1>2, StudioIdle DEF AiStudio!Fail, AiStudio!Go
<1>3. CASE AiStudio!Holding(h)
  <2>1. PICK m, a : m = AiStudio!Max(AiStudio!ReleaseStep(h)) /\ a = [i EXCEPT !.step = m]
    OBVIOUS
  <2>2. PICK b : b = [a EXCEPT !.reading = "NO"]
    OBVIOUS
  <2>3. PICK c : c = [b EXCEPT !.failed = TRUE]
    OBVIOUS
  <2>4. Keeps(i, a) /\ a.step = m
    BY <1>1, <2>1, WithStep
  <2>5. Keeps(a, b) /\ b.step = a.step
    BY <2>2, <2>4, WithReading DEF Keeps
  <2>6. Keeps(b, c) /\ c.step = b.step
    BY <2>3, <2>5, WithFailed DEF Keeps
  <2>7. job' = [job EXCEPT ![h] = c]
    BY <1>1, <1>3, <2>1, <2>2, <2>3 DEF AiStudio!Fail, AiStudio!Go
  <2> QED BY <1>1, <1>3, <2>1, <2>4, <2>5, <2>6, <2>7, KeepsOn DEF Keeps
<1> QED BY <1>2, <1>3

\* Where a request that tries something on is.
LEMMA TryOnAt ==
    ASSUME ~Mock, NEW h \in Handlers, TryingOn(job[h]), job[h].step \in 1..8
    PROVE  /\ AiStudio!At(h, "GUARD") <=> job[h].step = 1
           /\ AiStudio!At(h, "LOCK") <=> job[h].step = 2
           /\ AiStudio!At(h, "CACHE") <=> job[h].step = 3
           /\ AiStudio!At(h, "QUOTA") <=> job[h].step = 4
           /\ AiStudio!At(h, "PROVIDER") <=> job[h].step = 5
           /\ AiStudio!At(h, "SAVE") <=> job[h].step = 6
           /\ AiStudio!At(h, "CONSUME") <=> job[h].step = 7
           /\ AiStudio!At(h, "RELEASE") <=> job[h].step = 8
           /\ ~AiStudio!At(h, "ASK")
           /\ AiStudio!AtEnd(h) <=> job[h].step = 8
           /\ AiStudio!Holding(h) <=> job[h].step \in 3..7
           /\ AiStudio!Max(AiStudio!ReleaseStep(h)) = 8
           /\ AiStudio!Active(h) /\ AiStudio!LockKey(h) = AiStudio!Pictures(Worn(job[h]))
           /\ AiStudio!Outfit(h) = Worn(job[h])
<1>1. PICK q : q = AiStudio!Steps(h) /\ q = <<"GUARD", "LOCK", "CACHE", "QUOTA", "PROVIDER", "SAVE", "CONSUME", "RELEASE">>
  BY DEF AiStudio!Steps, AiStudio!Flow, AiStudio!TryOnSteps, TryingOn
<1>2. AiStudio!Active(h)
  BY DEF TryingOn, AiStudio!Active
<1>3. /\ Len(q) = 8 /\ DOMAIN q = 1..8
      /\ q[1] = "GUARD" /\ q[2] = "LOCK" /\ q[3] = "CACHE" /\ q[4] = "QUOTA"
      /\ q[5] = "PROVIDER" /\ q[6] = "SAVE" /\ q[7] = "CONSUME" /\ q[8] = "RELEASE"
  BY <1>1, EightSteps
<1>4. PICK s \in 1..8 : s = job[h].step
  OBVIOUS
<1>5. \A x : AiStudio!At(h, x) <=> q[s] = x
  BY <1>1, <1>2, <1>4 DEF AiStudio!At
<1>6. s \in {1, 2, 3, 4, 5, 6, 7, 8}
  OBVIOUS
<1>7. AiStudio!AtEnd(h) <=> s = 8
  BY <1>1, <1>3, <1>4 DEF AiStudio!AtEnd
<1>8. \A r \in 1..8 : (q[r] = "LOCK" <=> r = 2) /\ (q[r] = "RELEASE" <=> r = 8)
  <2>1. \A r \in 1..8 : r \in {1, 2, 3, 4, 5, 6, 7, 8}
    OBVIOUS
  <2> QED BY <1>3, <2>1
<1>9. AiStudio!Holding(h) <=> s \in 3..7
  BY <1>1, <1>3, <1>4, <1>8 DEF AiStudio!Holding
<1>10. AiStudio!ReleaseStep(h) = {8}
  BY <1>1, <1>3, <1>8 DEF AiStudio!ReleaseStep
<1>11. AiStudio!Max({8}) = 8
  BY DEF AiStudio!Max
<1>12. AiStudio!LockKey(h) = AiStudio!Pictures(Worn(job[h])) /\ AiStudio!Outfit(h) = Worn(job[h])
  BY DEF AiStudio!LockKey, AiStudio!Outfit, Worn, TryingOn
<1>13. /\ q[s] = "GUARD" <=> s = 1
       /\ q[s] = "LOCK" <=> s = 2
       /\ q[s] = "CACHE" <=> s = 3
       /\ q[s] = "QUOTA" <=> s = 4
       /\ q[s] = "PROVIDER" <=> s = 5
       /\ q[s] = "SAVE" <=> s = 6
       /\ q[s] = "CONSUME" <=> s = 7
       /\ q[s] = "RELEASE" <=> s = 8
       /\ q[s] # "ASK"
  BY <1>3, <1>6
<1> QED BY <1>2, <1>4, <1>5, <1>7, <1>9, <1>10, <1>11, <1>12, <1>13

LEMMA IdleAt ==
    ASSUME NEW h \in Handlers, job[h].kind = "NONE", NEW x
    PROVE  ~AiStudio!At(h, x) /\ ~AiStudio!Active(h)
BY DEF AiStudio!At, AiStudio!Active

LEMMA FewAre ==
    ASSUME NEW S \in SUBSET Handlers
    PROVE  IsFiniteSet(S) /\ Cardinality(S) \in Nat
           /\ \A T \in SUBSET S : Cardinality(T) <= Cardinality(S) /\ Cardinality(T) \in Nat
<1>1. IsFiniteSet(S)
  BY FewRequests, FS_Subset
<1>2. ASSUME NEW T \in SUBSET S PROVE Cardinality(T) <= Cardinality(S) /\ IsFiniteSet(T)
  BY <1>1, FS_Subset
<1> QED BY <1>1, <1>2, FS_CardinalityType

\* The results of a picture are finitely many.
LEMMA BoughtAre ==
    ASSUME StudioRows, NEW o
    PROVE  /\ IsFiniteSet(Bought(o)) /\ Cardinality(Bought(o)) \in Nat
           /\ \A T \in SUBSET Bought(o) : Cardinality(T) <= Cardinality(Bought(o)) /\ Cardinality(T) \in Nat
<1>1. PICK S : tryOns \in Seq(S)
  BY DEF StudioRows
<1>2. PICK n \in Nat : n = Len(tryOns) /\ DOMAIN tryOns = 1..n
  BY <1>1, LenProperties
<1>3. IsFiniteSet(1..n)
  BY FS_Interval
<1>4. Bought(o) \in SUBSET (1..n)
  BY <1>2 DEF Bought
<1>5. IsFiniteSet(Bought(o))
  BY <1>3, <1>4, FS_Subset
<1>6. ASSUME NEW T \in SUBSET Bought(o) PROVE Cardinality(T) <= Cardinality(Bought(o)) /\ IsFiniteSet(T)
  BY <1>5, FS_Subset
<1> QED BY <1>5, <1>6, FS_CardinalityType

(* Who tries nothing on buys no picture. *)
LEMMA NothingBought ==
    ASSUME StudioRows', \A k : Inside(k)' = {}, \A o : Passed(o)' = {} /\ Bought(o)' = {}
    PROVE  InsideInv' /\ BoughtInv'
<1>1. Cardinality({}) = 0
  BY FS_EmptySet
<1>2. PICK e, d \in Nat : e = expiries' /\ d = outages'
  BY DEF StudioRows
<1>3. ASSUME NEW k PROVE Cardinality(Inside(k)') <= One(k \in locks') + One(k \in memLocks') + expiries'
  <2>1. PICK a, b \in Nat : a = One(k \in locks') /\ b = One(k \in memLocks')
    BY DEF One
  <2>2. 0 <= a + b + e
    OBVIOUS
  <2> QED BY <1>1, <1>2, <2>1, <2>2
<1>4. 0 + 0 <= 1 + e + d
  OBVIOUS
<1>5. ASSUME NEW o PROVE Cardinality(Bought(o)') + Cardinality(Passed(o)') <= 1 + expiries' + outages'
  BY <1>1, <1>2, <1>4
<1> QED BY <1>3, <1>5 DEF InsideInv, BoughtInv

(* One request moves. *)
LEMMA StudioMove ==
    ASSUME StudioRows, NEW h \in Handlers, NEW j, StudioJob(j), job' = [job EXCEPT ![h] = j]
    PROVE  /\ \A g \in Handlers : job'[g] = IF g = h THEN j ELSE job[g]
           /\ job' = [g \in Handlers |-> job'[g]] /\ \A g \in Handlers : StudioJob(job'[g])
           /\ \A k : Inside(k)' = (Inside(k) \ {h}) \cup
                         (IF In(j) /\ AiStudio!Pictures(Worn(j)) = k THEN {h} ELSE {})
           /\ \A o : Passed(o)' = (Passed(o) \ {h}) \cup
                         (IF Past(j) /\ SamePicture(Worn(j), o) THEN {h} ELSE {})
<1>1. \A g \in Handlers : job'[g] = IF g = h THEN j ELSE job[g]
  BY DEF StudioRows
<1>2. job' = [g \in Handlers |-> job'[g]] /\ \A g \in Handlers : StudioJob(job'[g])
  BY <1>1 DEF StudioRows
<1>3. \A k : Inside(k)' = {g \in Handlers : In(job'[g]) /\ AiStudio!Pictures(Worn(job'[g])) = k}
  BY DEF Inside, In, Worn
<1>4. \A o : Passed(o)' = {g \in Handlers : Past(job'[g]) /\ SamePicture(Worn(job'[g]), o)}
  BY DEF Passed, Past, Worn, SamePicture
<1>5. \A k : Inside(k)' = (Inside(k) \ {h}) \cup
                         (IF In(j) /\ AiStudio!Pictures(Worn(j)) = k THEN {h} ELSE {})
  BY <1>1, <1>3 DEF Inside
<1>6. \A o : Passed(o)' = (Passed(o) \ {h}) \cup
                         (IF Past(j) /\ SamePicture(Worn(j), o) THEN {h} ELSE {})
  BY <1>1, <1>4 DEF Passed
<1> QED BY <1>1, <1>2, <1>5, <1>6

\* What a step of one request leaves as it is.
StudioFrame ==
    /\ UNCHANGED <<action, up, expiries, outages>>
    /\ memLocks' # {} => memLocks # {} \/ ~up
    /\ \E S : tryOns' \in Seq(S)

LEMMA RowsStay ==
    ASSUME StudioRows, NEW h \in Handlers, NEW j, StudioJob(j), job' = [job EXCEPT ![h] = j], StudioFrame,
           action = "TRY_ON" => TryOnJob(j),
           action # "TRY_ON" => tryOns' = <<>> /\ ~TryingOn(j)
    PROVE  StudioRows'
<1>1. \A g \in Handlers : job'[g] = IF g = h THEN j ELSE job[g]
  BY StudioMove
<1>2. job' = [g \in Handlers |-> job'[g]] /\ \A g \in Handlers : StudioJob(job'[g])
  BY StudioMove
<1>3. action = "TRY_ON" => \A g \in Handlers : TryOnJob(job'[g])
  BY <1>1 DEF StudioRows
<1>4. action # "TRY_ON" => \A g \in Handlers : ~TryingOn(job'[g])
  BY <1>1 DEF StudioRows
<1>5. /\ action' = action /\ action \in {"TRY_ON", "STYLIST", "CHATBOT"}
      /\ expiries' \in Nat /\ outages' \in Nat /\ up' \in BOOLEAN
      /\ (~up' \/ memLocks' # {}) => outages' > 0
  BY DEF StudioFrame, StudioRows
<1>6. \E S : tryOns' \in Seq(S)
  BY DEF StudioFrame
<1>7. (\A g \in Handlers : TryOnJob(job[g]))' <=> \A g \in Handlers : TryOnJob(job'[g])
  BY DEF TryOnJob, TryingOn
<1>8. (\A g \in Handlers : ~TryingOn(job[g]))' <=> \A g \in Handlers : ~TryingOn(job'[g])
  BY DEF TryingOn
<1>9. (\A g \in Handlers : StudioJob(job[g]))' <=> \A g \in Handlers : StudioJob(job'[g])
  BY DEF StudioJob
<1> QED BY <1>2, <1>3, <1>4, <1>5, <1>6, <1>7, <1>8, <1>9 DEF StudioRows

(* Nobody comes to hold a lock, or to be past the look for a result. *)
LEMMA StudioQuiet ==
    ASSUME StudioInv, NEW h \in Handlers, NEW j, StudioJob(j), job' = [job EXCEPT ![h] = j],
           UNCHANGED <<action, up, expiries, outages, locks, memLocks, tryOns>>,
           action = "TRY_ON" => TryOnJob(j), action # "TRY_ON" => ~TryingOn(j),
           In(j) => In(job[h]) /\ Worn(j) = Worn(job[h]),
           Past(j) => Past(job[h]) /\ Worn(j) = Worn(job[h])
    PROVE  StudioInv'
<1>1. StudioRows
  BY DEF StudioInv
<1>2. StudioFrame
  BY <1>1 DEF StudioFrame, StudioRows
<1>3. action # "TRY_ON" => tryOns' = <<>>
  BY <1>1 DEF StudioRows
<1>4. StudioRows'
  BY <1>1, <1>2, <1>3, RowsStay
<1>5. ASSUME NEW k PROVE Inside(k)' \subseteq Inside(k) /\ Inside(k) \subseteq Handlers
  BY <1>1, StudioMove DEF Inside
<1>6. ASSUME NEW o PROVE Passed(o)' \subseteq Passed(o) /\ Passed(o) \subseteq Handlers
  BY <1>1, StudioMove DEF Passed
<1>7. ASSUME NEW k PROVE Cardinality(Inside(k)') <= One(k \in locks') + One(k \in memLocks') + expiries'
  <2>1. PICK a, b \in Nat : a = Cardinality(Inside(k)') /\ b = Cardinality(Inside(k)) /\ a <= b
    BY <1>5, FewAre
  <2>2. PICK c, d, e \in Nat : c = One(k \in locks) /\ d = One(k \in memLocks) /\ e = expiries
    BY <1>1 DEF One, StudioRows
  <2>3. b <= c + d + e
    BY <2>1, <2>2 DEF StudioInv, InsideInv
  <2>4. a <= c + d + e
    BY <2>1, <2>3
  <2> QED BY <2>1, <2>2, <2>4
<1>8. ASSUME NEW o PROVE Cardinality(Bought(o)') + Cardinality(Passed(o)') <= 1 + expiries' + outages'
  <2>1. PICK a, b \in Nat : a = Cardinality(Passed(o)') /\ b = Cardinality(Passed(o)) /\ a <= b
    BY <1>6, FewAre
  <2>2. PICK c, d, e \in Nat : c = Cardinality(Bought(o)) /\ d = outages /\ e = expiries
    BY <1>1, BoughtAre DEF StudioRows
  <2>3. Bought(o)' = Bought(o)
    BY DEF Bought
  <2>4. c + b <= 1 + e + d
    BY <2>1, <2>2 DEF StudioInv, BoughtInv
  <2>5. c + a <= 1 + e + d
    BY <2>1, <2>4
  <2> QED BY <2>1, <2>2, <2>3, <2>5
<1> QED BY <1>4, <1>7, <1>8 DEF StudioInv, InsideInv, BoughtInv

(* A request takes the lock of its picture: nobody else's is touched. *)
LEMMA LockTaken ==
    ASSUME StudioInv, action = "TRY_ON", NEW h \in Handlers, NEW j, StudioJob(j), TryOnJob(j),
           job' = [job EXCEPT ![h] = j], UNCHANGED <<action, up, expiries, outages, tryOns>>,
           TryingOn(job[h]), Keeps(job[h], j), job[h].step = 2, j.step = 3,
           NEW k, k = AiStudio!Pictures(Worn(job[h])),
           \/ up /\ k \notin locks /\ locks' = locks \cup {k} /\ UNCHANGED memLocks
           \/ ~up /\ k \notin memLocks /\ memLocks' = memLocks \cup {k} /\ UNCHANGED locks
    PROVE  StudioInv'
<1>1. StudioRows
  BY DEF StudioInv
<1>2. StudioFrame
  BY <1>1 DEF StudioFrame, StudioRows
<1>3. StudioRows'
  BY <1>1, <1>2, RowsStay
<1>4. Worn(j) = Worn(job[h]) /\ In(j) /\ ~Past(j) /\ ~In(job[h])
  BY DEF Keeps, Worn, In, Past, TryingOn
<1>5. ASSUME NEW o PROVE Passed(o)' \subseteq Passed(o) /\ Passed(o) \subseteq Handlers
  BY <1>1, <1>4, StudioMove DEF Passed
<1>6. ASSUME NEW o PROVE Cardinality(Bought(o)') + Cardinality(Passed(o)') <= 1 + expiries' + outages'
  <2>1. PICK a, b \in Nat : a = Cardinality(Passed(o)') /\ b = Cardinality(Passed(o)) /\ a <= b
    BY <1>5, FewAre
  <2>2. PICK c, d, e \in Nat : c = Cardinality(Bought(o)) /\ d = outages /\ e = expiries
    BY <1>1, BoughtAre DEF StudioRows
  <2>3. Bought(o)' = Bought(o)
    BY DEF Bought
  <2>4. c + b <= 1 + e + d
    BY <2>1, <2>2 DEF StudioInv, BoughtInv
  <2>5. c + a <= 1 + e + d
    BY <2>1, <2>4
  <2> QED BY <2>1, <2>2, <2>3, <2>5
<1>7. ASSUME NEW n PROVE Cardinality(Inside(n)') <= One(n \in locks') + One(n \in memLocks') + expiries'
  <2>1. PICK c, d, e \in Nat : c = One(n \in locks) /\ d = One(n \in memLocks) /\ e = expiries
    BY <1>1 DEF One, StudioRows
  <2>2. PICK b \in Nat : b = Cardinality(Inside(n)) /\ IsFiniteSet(Inside(n))
    BY FewAre DEF Inside
  <2>3. b <= c + d + e
    BY <2>1, <2>2 DEF StudioInv, InsideInv
  <2>4. CASE n = k
    <3>1. Inside(n)' = Inside(n) \cup {h} /\ h \notin Inside(n)
      <4>1. Inside(n)' = (Inside(n) \ {h}) \cup
                         (IF In(j) /\ AiStudio!Pictures(Worn(j)) = n THEN {h} ELSE {})
        BY <1>1, StudioMove
      <4>2. AiStudio!Pictures(Worn(j)) = n
        BY <1>4, <2>4
      <4>3. h \notin Inside(n)
        BY <1>4 DEF Inside
      <4> QED BY <1>4, <4>1, <4>2, <4>3
    <3>2. Cardinality(Inside(n)') = b + 1
      BY <2>2, <3>1, FS_AddElement
    <3>3. One(n \in locks') + One(n \in memLocks') = c + d + 1
      BY <2>1, <2>4 DEF One
    <3>4. b + 1 <= c + d + 1 + e
      BY <2>3
    <3> QED BY <2>1, <3>2, <3>3, <3>4
  <2>5. CASE n # k
    <3>1. Inside(n)' = Inside(n)
      BY <1>1, <1>4, <2>5, StudioMove DEF Inside
    <3>2. One(n \in locks') = c /\ One(n \in memLocks') = d
      BY <2>1, <2>5 DEF One
    <3> QED BY <2>1, <2>2, <2>3, <3>1, <3>2
  <2> QED BY <2>4, <2>5
<1> QED BY <1>3, <1>6, <1>7 DEF StudioInv, InsideInv, BoughtInv

(* It gives one back, whoever holds it now. *)
LEMMA LockGiven ==
    ASSUME StudioInv, action = "TRY_ON", NEW h \in Handlers, job' = [job EXCEPT ![h] = AiStudio!NoJob],
           UNCHANGED <<action, up, expiries, outages, tryOns>>,
           In(job[h]), NEW k, k = AiStudio!Pictures(Worn(job[h])),
           \/ locks' = locks \ {k} /\ UNCHANGED memLocks
           \/ memLocks' = memLocks \ {k} /\ UNCHANGED locks
    PROVE  StudioInv'
<1>1. StudioRows
  BY DEF StudioInv
<1>2. StudioFrame
  BY <1>1 DEF StudioFrame, StudioRows
<1>4. PICK j : j = AiStudio!NoJob /\ StudioJob(j) /\ TryOnJob(j) /\ ~In(j) /\ ~Past(j)
  <2>1. PICK j : j = AiStudio!NoJob /\ StudioJob(j) /\ j.kind = "NONE"
    BY StudioIdle
  <2>2. TryOnJob(j) /\ ~In(j) /\ ~Past(j)
    BY <2>1 DEF TryOnJob, In, Past
  <2> QED BY <2>1, <2>2
<1>3. StudioRows'
  BY <1>1, <1>2, <1>4, RowsStay
<1>5. ASSUME NEW o PROVE Passed(o)' \subseteq Passed(o) /\ Passed(o) \subseteq Handlers
  BY <1>1, <1>4, StudioMove DEF Passed
<1>6. ASSUME NEW o PROVE Cardinality(Bought(o)') + Cardinality(Passed(o)') <= 1 + expiries' + outages'
  <2>1. PICK a, b \in Nat : a = Cardinality(Passed(o)') /\ b = Cardinality(Passed(o)) /\ a <= b
    BY <1>5, FewAre
  <2>2. PICK c, d, e \in Nat : c = Cardinality(Bought(o)) /\ d = outages /\ e = expiries
    BY <1>1, BoughtAre DEF StudioRows
  <2>3. Bought(o)' = Bought(o)
    BY DEF Bought
  <2>4. c + b <= 1 + e + d
    BY <2>1, <2>2 DEF StudioInv, BoughtInv
  <2>5. c + a <= 1 + e + d
    BY <2>1, <2>4
  <2> QED BY <2>1, <2>2, <2>3, <2>5
<1>7. ASSUME NEW n PROVE Cardinality(Inside(n)') <= One(n \in locks') + One(n \in memLocks') + expiries'
  <2>1. PICK c, d, e \in Nat : c = One(n \in locks) /\ d = One(n \in memLocks) /\ e = expiries
    BY <1>1 DEF One, StudioRows
  <2>2. PICK b \in Nat : b = Cardinality(Inside(n)) /\ IsFiniteSet(Inside(n))
    BY FewAre DEF Inside
  <2>3. b <= c + d + e
    BY <2>1, <2>2 DEF StudioInv, InsideInv
  <2>4. CASE n = k
    <3>1. Inside(n)' = Inside(n) \ {h} /\ h \in Inside(n)
      <4>1. Inside(n)' = (Inside(n) \ {h}) \cup
                         (IF In(j) /\ AiStudio!Pictures(Worn(j)) = n THEN {h} ELSE {})
        BY <1>1, <1>4, StudioMove
      <4>2. h \in Inside(n)
        BY <2>4 DEF Inside
      <4> QED BY <1>4, <4>1, <4>2
    <3>2. Cardinality(Inside(n)') = b - 1
      BY <2>2, <3>1, FS_RemoveElement
    <3>3. PICK a, f \in Nat : a = One(n \in locks') /\ f = One(n \in memLocks') /\ c + d <= a + f + 1
      BY <2>1, <2>4 DEF One
    <3>4. b - 1 <= a + f + e
      BY <2>3, <3>3
    <3> QED BY <2>1, <3>2, <3>3, <3>4
  <2>5. CASE n # k
    <3>1. Inside(n)' = Inside(n)
      BY <1>1, <1>4, <2>5, StudioMove DEF Inside
    <3>2. One(n \in locks') = c /\ One(n \in memLocks') = d
      BY <2>1, <2>5 DEF One
    <3> QED BY <2>1, <2>2, <2>3, <3>1, <3>2
  <2> QED BY <2>4, <2>5
<1> QED BY <1>3, <1>6, <1>7 DEF StudioInv, InsideInv, BoughtInv

(* It finds no result of its picture: whoever is to store one holds its lock, as it does. *)
LEMMA NothingFound ==
    ASSUME StudioInv, action = "TRY_ON", NEW h \in Handlers, NEW j, StudioJob(j), TryOnJob(j),
           job' = [job EXCEPT ![h] = j],
           UNCHANGED <<action, up, expiries, outages, tryOns, locks, memLocks>>,
           In(job[h]), In(j), Worn(j) = Worn(job[h]), AiStudio!CachedTryOns(Worn(job[h])) = {}
    PROVE  StudioInv'
<1>1. StudioRows
  BY DEF StudioInv
<1>2. StudioFrame
  BY <1>1 DEF StudioFrame, StudioRows
<1>3. StudioRows'
  BY <1>1, <1>2, RowsStay
<1>4. ASSUME NEW k PROVE Inside(k)' = Inside(k)
  BY <1>1, StudioMove DEF Inside
<1>5. InsideInv'
  <2>1. \A k : Cardinality(Inside(k)') <= One(k \in locks') + One(k \in memLocks') + expiries'
    BY <1>4 DEF StudioInv, InsideInv
  <2> QED BY <2>1 DEF InsideInv
<1>6. ASSUME NEW o PROVE Cardinality(Bought(o)') + Cardinality(Passed(o)') <= 1 + expiries' + outages'
  <2>1. PICK c, d, e \in Nat : c = Cardinality(Bought(o)) /\ d = outages /\ e = expiries
    BY <1>1, BoughtAre DEF StudioRows
  <2>2. Bought(o)' = Bought(o)
    BY DEF Bought
  <2>3. CASE SamePicture(Worn(j), o)
    <3>1. Bought(o) = {}
      BY <2>3 DEF Bought, SamePicture, AiStudio!CachedTryOns
    <3>2. PICK k : k = AiStudio!Pictures(o)
      OBVIOUS
    <3>3. \A g \in Handlers : Past(job[g]) /\ SamePicture(Worn(job[g]), o) => g \in Inside(k)
      BY <3>2 DEF Inside, Past, In, SamePicture
    <3>4. h \in Inside(k)
      BY <2>3, <3>2 DEF Inside, SamePicture
    <3>5. Passed(o)' \subseteq Inside(k) /\ Inside(k) \subseteq Handlers
      BY <1>1, <3>3, <3>4, StudioMove DEF Passed, Inside
    <3>6. PICK a, b \in Nat : a = Cardinality(Passed(o)') /\ b = Cardinality(Inside(k)) /\ a <= b
      BY <3>5, FewAre
    <3>7. PICK l, m \in Nat : l = One(k \in locks) /\ m = One(k \in memLocks) /\ l <= 1 /\ m <= 1
                              /\ (m = 1 => memLocks # {})
      BY DEF One
    <3>8. m <= d
      BY <1>1, <2>1, <3>7 DEF StudioRows
    <3>9. b <= l + m + e
      BY <2>1, <3>6, <3>7 DEF StudioInv, InsideInv
    <3>10. 0 + a <= 1 + e + d
      BY <3>6, <3>7, <3>8, <3>9
    <3>11. Cardinality({}) = 0
      BY FS_EmptySet
    <3> QED BY <2>1, <2>2, <3>1, <3>6, <3>10, <3>11
  <2>4. CASE ~SamePicture(Worn(j), o)
    <3>1. Passed(o)' = Passed(o)
      BY <1>1, <2>4, StudioMove DEF Passed
    <3> QED BY <2>2, <3>1 DEF StudioInv, BoughtInv
  <2> QED BY <2>3, <2>4
<1>7. BoughtInv'
  BY <1>6 DEF BoughtInv
<1> QED BY <1>3, <1>5, <1>7 DEF StudioInv

(* It stores its result, and is no longer about to. *)
LEMMA ResultStored ==
    ASSUME StudioInv, action = "TRY_ON", NEW h \in Handlers, NEW j, StudioJob(j), TryOnJob(j),
           job' = [job EXCEPT ![h] = j], UNCHANGED <<action, up, expiries, outages, locks, memLocks>>,
           Past(job[h]), In(j), ~Past(j), Worn(j) = Worn(job[h]), tryOns' = Append(tryOns, Worn(job[h]))
    PROVE  StudioInv'
<1>1. StudioRows
  BY DEF StudioInv
<1>2. PICK w : w = Worn(job[h])
  OBVIOUS
<1>3. PICK n \in Nat : /\ DOMAIN tryOns = 1..n /\ DOMAIN tryOns' = 1..(n + 1)
                       /\ tryOns'[n + 1] = w /\ \A i \in 1..n : tryOns'[i] = tryOns[i]
                       /\ \E S : tryOns' \in Seq(S)
  <2>1. PICK S : tryOns \in Seq(S)
    BY <1>1 DEF StudioRows
  <2>2. PICK T : T = S \cup {w}
    OBVIOUS
  <2>3. tryOns \in Seq(T) /\ w \in T
    BY <2>1, <2>2, SeqMonotonic
  <2>4. PICK n \in Nat : n = Len(tryOns)
    BY <2>1, LenProperties
  <2>5. tryOns' = Append(tryOns, w)
    BY <1>2
  <2>6. DOMAIN tryOns = 1..n
    BY <2>1, <2>4, LenProperties
  <2>7. tryOns' \in Seq(T) /\ Len(tryOns') = n + 1
    BY <2>3, <2>4, <2>5
  <2>8. DOMAIN tryOns' = 1..(n + 1)
    BY <2>7, LenProperties
  <2>9. tryOns'[n + 1] = w /\ \A i \in 1..n : tryOns'[i] = tryOns[i]
    BY <2>3, <2>4, <2>5
  <2> QED BY <2>6, <2>7, <2>8, <2>9
<1>4. StudioFrame
  BY <1>3 DEF StudioFrame
<1>5. StudioRows'
  BY <1>1, <1>4, RowsStay
<1>6. ASSUME NEW k PROVE Inside(k)' = Inside(k)
  BY <1>1, StudioMove DEF Inside, Past, In
<1>7. InsideInv'
  <2>1. \A k : Cardinality(Inside(k)') <= One(k \in locks') + One(k \in memLocks') + expiries'
    BY <1>6 DEF StudioInv, InsideInv
  <2> QED BY <2>1 DEF InsideInv
<1>8. ASSUME NEW o PROVE Cardinality(Bought(o)') + Cardinality(Passed(o)') <= 1 + expiries' + outages'
  <2>1. PICK c, d, e \in Nat : c = Cardinality(Bought(o)) /\ d = outages /\ e = expiries /\ IsFiniteSet(Bought(o))
    BY <1>1, BoughtAre DEF StudioRows
  <2>2. PICK b \in Nat : b = Cardinality(Passed(o)) /\ IsFiniteSet(Passed(o))
    BY FewAre DEF Passed
  <2>3. c + b <= 1 + e + d
    BY <2>1, <2>2 DEF StudioInv, BoughtInv
  <2>4. Bought(o)' = {i \in DOMAIN tryOns' : SamePicture(tryOns'[i], o)}
    BY DEF Bought, SamePicture
  <2>5. 1..(n + 1) = 1..n \cup {n + 1} /\ n + 1 \notin 1..n
    OBVIOUS
  <2>6. CASE SamePicture(w, o)
    <3>1. Bought(o)' = Bought(o) \cup {n + 1} /\ n + 1 \notin Bought(o)
      BY <1>3, <2>4, <2>5, <2>6 DEF Bought
    <3>2. Cardinality(Bought(o)') = c + 1
      BY <2>1, <3>1, FS_AddElement
    <3>3. Passed(o)' = Passed(o) \ {h} /\ h \in Passed(o)
      <4>1. Passed(o)' = (Passed(o) \ {h}) \cup
                         (IF Past(j) /\ SamePicture(Worn(j), o) THEN {h} ELSE {})
        BY <1>1, StudioMove
      <4>2. h \in Passed(o)
        BY <1>2, <2>6 DEF Passed
      <4> QED BY <4>1, <4>2
    <3>4. Cardinality(Passed(o)') = b - 1
      BY <2>2, <3>3, FS_RemoveElement
    <3>5. c + 1 + (b - 1) <= 1 + e + d
      BY <2>3
    <3> QED BY <2>1, <3>2, <3>4, <3>5
  <2>7. CASE ~SamePicture(w, o)
    <3>1. Bought(o)' = Bought(o)
      BY <1>3, <2>4, <2>5, <2>7 DEF Bought
    <3>2. Passed(o)' = Passed(o)
      BY <1>1, <1>2, <2>7, StudioMove DEF Passed
    <3> QED BY <2>1, <2>2, <2>3, <3>1, <3>2
  <2> QED BY <2>6, <2>7
<1>9. BoughtInv'
  BY <1>8 DEF BoughtInv
<1> QED BY <1>5, <1>7, <1>9 DEF StudioInv

-----------------------------------------------------------------------------

(* Redis, the history of the user and time leave the requests alone. *)
LEMMA StudioRests ==
    ASSUME StudioRows, UNCHANGED <<job, action>>, expiries' \in Nat, outages' \in Nat, up' \in BOOLEAN,
           (~up' \/ memLocks' # {}) => outages' > 0, \E S : tryOns' \in Seq(S),
           tryOns = <<>> => tryOns' = <<>>
    PROVE  /\ StudioRows' /\ \A k : Inside(k)' = Inside(k)
           /\ \A o : Passed(o)' = Passed(o)
<1>1. \A k : Inside(k)' = Inside(k)
  BY DEF Inside, In, Worn
<1>2. \A o : Passed(o)' = Passed(o)
  BY DEF Passed, Past, Worn, SamePicture
<1>3. (\A h \in Handlers : StudioJob(job[h]))' <=> \A h \in Handlers : StudioJob(job[h])
  BY DEF StudioJob
<1>4. (\A h \in Handlers : TryOnJob(job[h]))' <=> \A h \in Handlers : TryOnJob(job[h])
  BY DEF TryOnJob, TryingOn
<1>5. (\A h \in Handlers : ~TryingOn(job[h]))' <=> \A h \in Handlers : ~TryingOn(job[h])
  BY DEF TryingOn
<1>6. StudioRows'
  BY <1>3, <1>4, <1>5 DEF StudioRows
<1> QED BY <1>1, <1>2, <1>6

LEMMA ExpireStep == ASSUME StudioInv, NEW k, AiStudio!Expire(k) PROVE StudioInv'
<1>1. /\ UNCHANGED <<job, action, up, outages, tryOns>> /\ expiries' = expiries + 1
      /\ \/ locks' = locks \ {k} /\ UNCHANGED memLocks
         \/ memLocks' = memLocks \ {k} /\ UNCHANGED locks
  BY DEF AiStudio!Expire, AiStudio!stored
<1>2. PICK e, d \in Nat : e = expiries /\ d = outages /\ expiries' = e + 1
  BY <1>1 DEF StudioInv, StudioRows
<1>3. /\ StudioRows' /\ \A n : Inside(n)' = Inside(n)
      /\ \A o : Passed(o)' = Passed(o)
  <2>1. StudioRows /\ expiries' \in Nat /\ outages' \in Nat /\ up' \in BOOLEAN
        /\ (\E S : tryOns' \in Seq(S)) /\ (tryOns = <<>> => tryOns' = <<>>)
    BY <1>1, <1>2 DEF StudioInv, StudioRows
  <2>2. (~up' \/ memLocks' # {}) => outages' > 0
    BY <1>1, <2>1 DEF StudioRows
  <2>3. UNCHANGED <<job, action>>
    BY <1>1
  <2> QED BY ONLY <2>1, <2>2, <2>3, StudioRests
<1>4. ASSUME NEW n PROVE Cardinality(Inside(n)') <= One(n \in locks') + One(n \in memLocks') + expiries'
  <2>1. PICK a, b, c, d1 \in Nat : a = One(n \in locks) /\ b = One(n \in memLocks)
                                /\ c = One(n \in locks') /\ d1 = One(n \in memLocks')
                                /\ a + b <= c + d1 + 1
    BY <1>1 DEF One
  <2>2. PICK m \in Nat : m = Cardinality(Inside(n))
    BY FewAre DEF Inside
  <2>3. m <= a + b + e
    BY <1>2, <2>1, <2>2 DEF StudioInv, InsideInv
  <2>4. m <= c + d1 + (e + 1)
    BY <2>1, <2>3
  <2> QED BY <1>2, <1>3, <2>1, <2>2, <2>4
<1>5. ASSUME NEW o PROVE Cardinality(Bought(o)') + Cardinality(Passed(o)') <= 1 + expiries' + outages'
  <2>1. PICK a, b \in Nat : a = Cardinality(Bought(o)) /\ b = Cardinality(Passed(o))
    BY BoughtAre, FewAre DEF StudioInv, Passed
  <2>2. a + b <= 1 + e + d
    BY <1>2, <2>1 DEF StudioInv, BoughtInv
  <2>3. Bought(o)' = Bought(o)
    BY <1>1 DEF Bought
  <2>4. a + b <= 1 + (e + 1) + d
    BY <2>2
  <2> QED BY <1>1, <1>2, <1>3, <2>1, <2>3, <2>4
<1> QED BY <1>3, <1>4, <1>5 DEF StudioInv, InsideInv, BoughtInv

(* A deleted result is one less. *)
LEMMA OneLess ==
    ASSUME StudioRows, NEW n \in DOMAIN tryOns, tryOns' = AiStudio!RemoveAt(tryOns, n), NEW o
    PROVE  /\ \E S : tryOns' \in Seq(S)
           /\ Cardinality(Bought(o)') <= Cardinality(Bought(o)) /\ Cardinality(Bought(o)') \in Nat
<1>1. PICK S : tryOns \in Seq(S)
  BY DEF StudioRows
<1>2. PICK l \in Nat : l = Len(tryOns) /\ DOMAIN tryOns = 1..l /\ n \in 1..l
  BY <1>1, LenProperties
<1>3. PICK a, b : a = SubSeq(tryOns, 1, n - 1) /\ b = SubSeq(tryOns, n + 1, l)
  OBVIOUS
<1>4. tryOns' = a \o b
  BY <1>2, <1>3 DEF AiStudio!RemoveAt
<1>5. /\ a \in Seq(S) /\ Len(a) = n - 1 /\ \A i \in 1..(n - 1) : a[i] = tryOns[i]
      /\ b \in Seq(S) /\ Len(b) = l - n /\ \A i \in 1..(l - n) : b[i] = tryOns[n + i]
  <2>1. n \in Nat /\ n - 1 \in 0..l /\ n + 1 \in 1..(l + 1)
    BY <1>2
  <2>2. a \in Seq(S) /\ Len(a) = n - 1 /\ \A i \in 1..(n - 1) : a[i] = tryOns[i]
    BY <1>1, <1>2, <1>3, <2>1, SubSeqProperties
  <2>3. b \in Seq(S) /\ Len(b) = l - n /\ \A i \in 1..(l - n) : b[i] = tryOns[n + i]
    BY <1>1, <1>2, <1>3, <2>1, SubSeqProperties
  <2> QED BY <2>2, <2>3
<1>6. /\ tryOns' \in Seq(S) /\ DOMAIN tryOns' = 1..(l - 1)
      /\ \A i \in 1..(l - 1) : tryOns'[i] = IF i <= n - 1 THEN a[i] ELSE b[i - (n - 1)]
  <2>1. PICK c, d \in Nat : c = Len(a) /\ d = Len(b)
    BY <1>5, LenProperties
  <2>2. Len(a \o b) = c + d /\ a \o b \in Seq(S)
    BY <1>5, <2>1, ConcatProperties
  <2>3. \A i \in 1..(c + d) : (a \o b)[i] = IF i <= c THEN a[i] ELSE b[i - c]
    BY <1>5, <2>1, ConcatProperties
  <2>4. c = n - 1 /\ d = l - n /\ n \in Nat /\ l \in Nat
    BY <1>2, <1>5, <2>1
  <2>5. c + d = l - 1
    BY <2>4
  <2>6. DOMAIN tryOns' = 1..Len(tryOns')
    BY <1>4, <2>2, LenProperties
  <2> QED BY <1>4, <2>2, <2>3, <2>4, <2>5, <2>6
<1>7. \A i \in 1..(l - 1) : tryOns'[i] = IF i < n THEN tryOns[i] ELSE tryOns[i + 1]
  <2> TAKE i \in 1..(l - 1)
  <2>1. CASE i < n
    <3>1. i <= n - 1 /\ i \in 1..(n - 1)
      BY <1>2, <2>1
    <3> QED BY <1>5, <1>6, <2>1, <3>1
  <2>2. CASE ~(i < n)
    <3>1. PICK k \in 1..(l - n) : k = i - (n - 1)
      <4>1. i - (n - 1) \in 1..(l - n)
        BY <1>2, <2>2
      <4> QED BY <4>1
    <3>2. ~(i <= n - 1) /\ n + k = i + 1
      BY <1>2, <2>2, <3>1
    <3>3. tryOns'[i] = b[k]
      BY <1>6, <3>1, <3>2
    <3> QED BY <1>5, <2>2, <3>2, <3>3
  <2> QED BY <2>1, <2>2
<1>8. PICK P, Q, f : /\ P = Bought(o)' /\ Q = Bought(o)
                     /\ f = [i \in P |-> IF i < n THEN i ELSE i + 1]
  OBVIOUS
<1>9. P = {i \in 1..(l - 1) : SamePicture(tryOns'[i], o)}
  BY <1>6, <1>8 DEF Bought, SamePicture
<1>10. Q = {i \in 1..l : SamePicture(tryOns[i], o)}
  BY <1>2, <1>8 DEF Bought
<1>11. ASSUME NEW i \in P PROVE f[i] \in Q
  <2>1. i \in 1..(l - 1) /\ f[i] \in 1..l /\ f[i] = IF i < n THEN i ELSE i + 1
    BY <1>2, <1>8, <1>9
  <2>2. tryOns'[i] = tryOns[f[i]]
    BY <1>7, <2>1
  <2> QED BY <1>9, <1>10, <2>1, <2>2
<1>12. ASSUME NEW i \in P, NEW k \in P, f[i] = f[k] PROVE i = k
  <2>1. i \in 1..(l - 1) /\ k \in 1..(l - 1)
    BY <1>9
  <2> QED BY <1>2, <1>8, <1>12, <2>1
<1>13. f \in [P -> Q]
  BY <1>8, <1>11
<1>14. f \in Injection(P, Q)
  BY <1>12, <1>13 DEF Injection, IsInjective
<1>15. IsFiniteSet(Q)
  BY <1>8, BoughtAre
<1>16. Cardinality(P) <= Cardinality(Q) /\ IsFiniteSet(P)
  BY <1>14, <1>15, FS_Injection
<1>17. Cardinality(P) \in Nat
  BY <1>16, FS_CardinalityType
<1> QED BY <1>6, <1>8, <1>16, <1>17

LEMMA DeleteResultStep == ASSUME StudioInv, AiStudio!Delete PROVE StudioInv'
<1>1. /\ UNCHANGED <<job, action, up, outages, expiries, locks, memLocks>>
      /\ \/ tryOns' = tryOns \/ tryOns' = <<>>
         \/ \E i \in DOMAIN tryOns : tryOns' = AiStudio!RemoveAt(tryOns, i)
  BY DEF AiStudio!Delete, AiStudio!guards
<1>2. StudioRows
  BY DEF StudioInv
<1>3. DOMAIN <<>> = {} /\ Cardinality({}) = 0
  BY FS_EmptySet
<1>4. ASSUME NEW o
      PROVE  /\ Cardinality(Bought(o)') <= Cardinality(Bought(o)) /\ Cardinality(Bought(o)') \in Nat
             /\ \E S : tryOns' \in Seq(S)
  <2>1. PICK a \in Nat : a = Cardinality(Bought(o))
    BY <1>2, BoughtAre
  <2>2. CASE tryOns' = tryOns
    BY <1>2, <2>1, <2>2 DEF StudioRows, Bought
  <2>3. CASE tryOns' = <<>>
    <3>1. Bought(o)' = {}
      BY <2>3 DEF Bought
    <3>2. tryOns' \in Seq({})
      BY <2>3
    <3> QED BY <1>3, <2>1, <3>1, <3>2
  <2>4. CASE \E i \in DOMAIN tryOns : tryOns' = AiStudio!RemoveAt(tryOns, i)
    BY <1>2, <2>4, OneLess
  <2> QED BY <1>1, <2>2, <2>3, <2>4
<1>5. tryOns = <<>> => tryOns' = <<>>
  BY <1>1
<1>6. /\ StudioRows' /\ \A n : Inside(n)' = Inside(n)
      /\ \A o : Passed(o)' = Passed(o)
  <2>1. expiries' \in Nat /\ outages' \in Nat /\ up' \in BOOLEAN /\ ((~up' \/ memLocks' # {}) => outages' > 0)
    BY <1>1, <1>2 DEF StudioRows
  <2>2. UNCHANGED <<job, action>> /\ \E S : tryOns' \in Seq(S)
    BY <1>1, <1>4
  <2> QED BY ONLY <1>2, <1>5, <2>1, <2>2, StudioRests
<1>7. \A n : Cardinality(Inside(n)') <= One(n \in locks') + One(n \in memLocks') + expiries'
  BY <1>1, <1>6 DEF StudioInv, InsideInv
<1>8. ASSUME NEW o PROVE Cardinality(Bought(o)') + Cardinality(Passed(o)') <= 1 + expiries' + outages'
  <2>1. PICK a, b, c \in Nat : a = Cardinality(Bought(o)) /\ b = Cardinality(Passed(o)) /\ c = Cardinality(Bought(o)')
    BY <1>2, <1>4, BoughtAre, FewAre DEF Passed
  <2>2. PICK e, d \in Nat : e = expiries /\ d = outages
    BY <1>2 DEF StudioRows
  <2>3. a + b <= 1 + e + d
    BY <2>1, <2>2 DEF StudioInv, BoughtInv
  <2>4. c <= a
    BY <1>4, <2>1
  <2>5. c + b <= 1 + e + d
    BY <2>3, <2>4
  <2> QED BY <1>1, <1>6, <2>1, <2>2, <2>5
<1> QED BY <1>6, <1>7, <1>8 DEF StudioInv, InsideInv, BoughtInv

StudioStill == UNCHANGED <<action, up, expiries, outages, locks, memLocks, tryOns>>

LEMMA NobodysJob ==
    ASSUME NEW j, j.kind = "NONE"
    PROVE  TryOnJob(j) /\ ~TryingOn(j) /\ ~In(j) /\ ~Past(j)
BY DEF TryOnJob, TryingOn, In, Past

(* Requests that go on, fail, end and read. *)
LEMMA TryOnGoes ==
    ASSUME StudioInv, ~Mock, action = "TRY_ON", StudioStill, NEW h \in Handlers,
           TryingOn(job[h]), job[h].step \in {1, 4, 5, 7}, AiStudio!Advance(h)
    PROVE  StudioInv'
<1>1. StudioRows
  BY DEF StudioInv
<1>2. ~AiStudio!AtEnd(h)
  BY TryOnAt
<1>3. PICK j : StudioJob(j) /\ job' = [job EXCEPT ![h] = j] /\ Keeps(job[h], j) /\ j.step = job[h].step + 1
  BY <1>1, <1>2, AdvanceIs
<1>4. /\ TryOnJob(j) /\ Worn(j) = Worn(job[h])
      /\ In(j) => In(job[h])
      /\ Past(j) => Past(job[h])
  BY <1>3 DEF Keeps, TryOnJob, TryingOn, In, Past, Worn
<1> QED BY <1>3, <1>4, StudioQuiet DEF StudioStill

LEMMA TryOnFails ==
    ASSUME StudioInv, ~Mock, action = "TRY_ON", StudioStill, NEW h \in Handlers,
           TryingOn(job[h]), job[h].step \in 1..7, AiStudio!Fail(h)
    PROVE  StudioInv'
<1>1. StudioRows
  BY DEF StudioInv
<1>2. PICK j : /\ StudioJob(j) /\ job' = [job EXCEPT ![h] = j]
               /\ IF AiStudio!Holding(h)
                  THEN Keeps(job[h], j) /\ j.step = AiStudio!Max(AiStudio!ReleaseStep(h))
                  ELSE j = AiStudio!NoJob
  BY <1>1, FailIs
<1>3. (AiStudio!Holding(h) <=> job[h].step \in 3..7) /\ AiStudio!Max(AiStudio!ReleaseStep(h)) = 8
  BY TryOnAt
<1>4. /\ TryOnJob(j) /\ ~Past(j)
      /\ In(j) => In(job[h]) /\ Worn(j) = Worn(job[h])
  <2>1. CASE job[h].step \in 3..7
    <3>1. Keeps(job[h], j) /\ j.step = 8
      BY <1>2, <1>3, <2>1
    <3> QED BY <2>1, <3>1 DEF Keeps, TryOnJob, TryingOn, In, Past, Worn
  <2>2. CASE job[h].step \notin 3..7
    <3>1. j.kind = "NONE"
      BY <1>2, <1>3, <2>2, StudioIdle
    <3> QED BY <3>1, NobodysJob
  <2> QED BY <2>1, <2>2
<1> QED BY <1>2, <1>4, StudioQuiet DEF StudioStill

LEMMA StudioEnds ==
    ASSUME StudioInv, StudioStill, NEW h \in Handlers, AiStudio!Go(h, AiStudio!NoJob)
    PROVE  StudioInv'
<1>1. PICK j : j = AiStudio!NoJob /\ StudioJob(j) /\ j.kind = "NONE"
  BY StudioIdle
<1>2. TryOnJob(j) /\ ~TryingOn(j) /\ ~In(j) /\ ~Past(j)
  BY <1>1, NobodysJob
<1>3. job' = [job EXCEPT ![h] = j]
  BY <1>1 DEF AiStudio!Go
<1> QED BY <1>1, <1>2, <1>3, StudioQuiet DEF StudioStill

LEMMA ReadingIs ==
    ASSUME StudioRows, NEW h \in Handlers, NEW s, NEW v,
           \/ AiStudio!Go(h, [job[h] EXCEPT !.reading = s])
           \/ AiStudio!Go(h, [job[h] EXCEPT !.reading = s, !.used = v])
    PROVE  \E j : /\ StudioJob(j) /\ job' = [job EXCEPT ![h] = j]
                  /\ Keeps(job[h], j) /\ j.step = job[h].step
<1>1. PICK i : i = job[h] /\ StudioJob(i)
  BY DEF StudioRows
<1>2. PICK a : a = [i EXCEPT !.reading = s]
  OBVIOUS
<1>3. PICK b : b = [a EXCEPT !.used = v]
  OBVIOUS
<1>4. Keeps(i, a) /\ a.step = i.step
  BY <1>1, <1>2, WithReading
<1>5. Keeps(a, b) /\ b.step = a.step
  BY <1>3, <1>4, WithUsed DEF Keeps
<1>6. Keeps(i, b) /\ b.step = i.step
  BY <1>4, <1>5, KeepsOn
<1>7. job' = [job EXCEPT ![h] = a] \/ job' = [job EXCEPT ![h] = b]
  BY <1>1, <1>2, <1>3 DEF AiStudio!Go
<1> QED BY <1>1, <1>4, <1>6, <1>7 DEF Keeps

LEMMA TryOnReads ==
    ASSUME StudioInv, action = "TRY_ON", StudioStill, NEW h \in Handlers, TryingOn(job[h]), NEW s, NEW v,
           \/ AiStudio!Go(h, [job[h] EXCEPT !.reading = s])
           \/ AiStudio!Go(h, [job[h] EXCEPT !.reading = s, !.used = v])
    PROVE  StudioInv'
<1>1. StudioRows
  BY DEF StudioInv
<1>2. PICK j : /\ StudioJob(j) /\ job' = [job EXCEPT ![h] = j]
               /\ Keeps(job[h], j) /\ j.step = job[h].step
  BY <1>1, ReadingIs
<1>3. TryOnJob(job[h])
  BY <1>1 DEF StudioRows
<1>4. /\ TryOnJob(j) /\ Worn(j) = Worn(job[h])
      /\ In(j) => In(job[h])
      /\ Past(j) => Past(job[h])
  BY <1>2, <1>3 DEF Keeps, TryOnJob, TryingOn, In, Past, Worn
<1> QED BY <1>2, <1>4, StudioQuiet DEF StudioStill

(* A new request. *)
LEMMA RequestIs ==
    ASSUME NEW h \in Handlers, AiStudio!FreshRequest(h)
    PROVE  /\ StudioStill
           /\ \E j : /\ StudioJob(j) /\ job' = [job EXCEPT ![h] = j]
                     /\ j.kind \in AiStudio!KindsOf[action] /\ j.step = 1
<1>1. PICK k, w : k \in AiStudio!KindsOf[action] /\ AiStudio!Request(h, k, w)
  BY DEF AiStudio!FreshRequest
<1>2. PICK j : j = [AiStudio!NoJob EXCEPT !.kind = k, !.step = 1, !.outfit = w]
  OBVIOUS
<1>3. StudioJob(j) /\ j.kind = k /\ j.step = 1
  BY <1>2 DEF StudioJob, StudioFields, AiStudio!NoJob
<1>4. job' = [job EXCEPT ![h] = j]
  BY <1>1, <1>2 DEF AiStudio!Request, AiStudio!Go
<1>5. StudioStill
  BY <1>1 DEF AiStudio!Request, StudioStill, AiStudio!stored, AiStudio!guards, AiStudio!Env
<1> QED BY <1>1, <1>3, <1>4, <1>5

LEMMA RequestStep ==
    ASSUME StudioInv, NEW h \in Handlers, AiStudio!FreshRequest(h)
    PROVE  StudioInv'
<1>1. PICK j : /\ StudioStill /\ StudioJob(j) /\ job' = [job EXCEPT ![h] = j]
               /\ j.kind \in AiStudio!KindsOf[action] /\ j.step = 1
  BY RequestIs
<1>2. action \in {"TRY_ON", "STYLIST", "CHATBOT"}
  BY DEF StudioInv, StudioRows
<1>3. ~In(j) /\ ~Past(j)
  BY <1>1 DEF In, Past
<1>4. action = "TRY_ON" => j.kind = "TRY_ON"
  BY <1>1 DEF AiStudio!KindsOf
<1>5. action # "TRY_ON" => j.kind # "TRY_ON"
  BY <1>1, <1>2 DEF AiStudio!KindsOf
<1>6. (action = "TRY_ON" => TryOnJob(j)) /\ (action # "TRY_ON" => ~TryingOn(j))
  BY <1>1, <1>4, <1>5 DEF TryOnJob, TryingOn
<1> QED BY <1>1, <1>3, <1>6, StudioQuiet DEF StudioStill

(* A step of a request that tries something on. *)
LEMMA TryOnIs ==
    ASSUME StudioInv, action = "TRY_ON", NEW h \in Handlers, NEW x, AiStudio!At(h, x)
    PROVE  TryingOn(job[h]) /\ job[h].step \in 1..8 /\ StudioRows
<1>1. TryOnJob(job[h]) /\ StudioRows
  BY DEF StudioInv, StudioRows
<1>2. job[h].kind # "NONE"
  BY DEF AiStudio!At, AiStudio!Active
<1> QED BY <1>1, <1>2 DEF TryOnJob

LEMMA TryOnAsserts ==
    ASSUME StudioInv, ~Mock, action = "TRY_ON", NEW h \in Handlers,
           AiStudio!AssertGet(h) \/ AiStudio!AssertLoad(h) \/ AiStudio!AssertStore(h)
    PROVE  StudioInv'
<1>1. AiStudio!At(h, "GUARD") \/ AiStudio!At(h, "QUOTA")
  BY DEF AiStudio!AssertGet, AiStudio!AssertLoad, AiStudio!AssertStore, AiStudio!Asserting
<1>2. TryingOn(job[h]) /\ job[h].step \in 1..8
  BY <1>1, TryOnIs
<1>3. job[h].step \in {1, 4}
  BY <1>1, <1>2, TryOnAt
<1>4. StudioStill
  BY DEF AiStudio!AssertGet, AiStudio!AssertLoad, AiStudio!AssertStore, AiStudio!stored, AiStudio!guards,
         AiStudio!Env, StudioStill
<1>5. \/ AiStudio!Advance(h) \/ AiStudio!Fail(h)
      \/ AiStudio!Go(h, [job[h] EXCEPT !.reading = "USAGE"])
      \/ AiStudio!Go(h, [job[h] EXCEPT !.reading = "LOADED", !.used = usage])
  BY DEF AiStudio!AssertGet, AiStudio!AssertLoad, AiStudio!AssertStore, AiStudio!Decide
<1>6. CASE AiStudio!Advance(h)
  BY <1>2, <1>3, <1>4, <1>6, TryOnGoes
<1>7. CASE AiStudio!Fail(h)
  BY <1>2, <1>3, <1>4, <1>7, TryOnFails
<1>8. CASE AiStudio!Go(h, [job[h] EXCEPT !.reading = "USAGE"])
  BY <1>2, <1>4, <1>8, TryOnReads
<1>9. CASE AiStudio!Go(h, [job[h] EXCEPT !.reading = "LOADED", !.used = usage])
  BY <1>2, <1>4, <1>9, TryOnReads
<1> QED BY <1>5, <1>6, <1>7, <1>8, <1>9

LEMMA TryOnQuietSteps ==
    ASSUME StudioInv, ~Mock, action = "TRY_ON", NEW h \in Handlers,
           \/ AiStudio!consumeQuota(h) \/ AiStudio!ProviderAnswers(h) \/ AiStudio!Unanswered(h)
           \/ AiStudio!Crash(h)
    PROVE  StudioInv'
<1>1. CASE AiStudio!Crash(h)
  <2>1. CASE expiries' = expiries
    <3>1. StudioStill /\ AiStudio!Go(h, AiStudio!NoJob)
      BY <1>1 DEF AiStudio!Crash, AiStudio!stored, AiStudio!guards, StudioStill
    <3> QED BY <3>1, StudioEnds
  <2> QED BY <1>1, <2>1 DEF AiStudio!Crash
<1>2. CASE AiStudio!consumeQuota(h)
  <2>1. AiStudio!At(h, "CONSUME") /\ AiStudio!Advance(h) /\ StudioStill
    BY <1>2 DEF AiStudio!consumeQuota, AiStudio!stored, AiStudio!guards, AiStudio!Env, StudioStill
  <2>2. TryingOn(job[h]) /\ job[h].step \in 1..8
    BY <2>1, TryOnIs
  <2>3. job[h].step = 7
    BY <2>1, <2>2, TryOnAt
  <2> QED BY <2>1, <2>2, <2>3, TryOnGoes
<1>3. CASE AiStudio!ProviderAnswers(h) \/ AiStudio!Unanswered(h)
  <2>1. AiStudio!At(h, "PROVIDER") /\ (AiStudio!Advance(h) \/ AiStudio!Fail(h)) /\ StudioStill
    BY <1>3 DEF AiStudio!ProviderAnswers, AiStudio!Unanswered, AiStudio!stored, AiStudio!guards, AiStudio!Env, StudioStill
  <2>2. TryingOn(job[h]) /\ job[h].step \in 1..8
    BY <2>1, TryOnIs
  <2>3. job[h].step = 5
    BY <2>1, <2>2, TryOnAt
  <2>4. job[h].step \in 1..7 /\ job[h].step \in {1, 4, 5, 7}
    BY <2>3
  <2>5. CASE AiStudio!Advance(h)
    BY <2>1, <2>2, <2>4, <2>5, TryOnGoes
  <2>6. CASE AiStudio!Fail(h)
    BY <2>1, <2>2, <2>4, <2>6, TryOnFails
  <2> QED BY <2>1, <2>5, <2>6
<1> QED BY <1>1, <1>2, <1>3

LEMMA TryOnLocks ==
    ASSUME StudioInv, ~Mock, action = "TRY_ON", NEW h \in Handlers, AiStudio!acquireLock(h)
    PROVE  StudioInv'
<1>1. AiStudio!At(h, "LOCK") /\ UNCHANGED <<action, up, expiries, outages, tryOns>>
  BY DEF AiStudio!acquireLock, AiStudio!stored, AiStudio!Env
<1>2. TryingOn(job[h]) /\ job[h].step \in 1..8 /\ StudioRows
  BY <1>1, TryOnIs
<1>3. PICK k : k = AiStudio!LockKey(h)
  OBVIOUS
<1>4. job[h].step = 2 /\ ~AiStudio!AtEnd(h) /\ k = AiStudio!Pictures(Worn(job[h]))
  BY <1>1, <1>2, <1>3, TryOnAt
<1>5. \/ AiStudio!Go(h, AiStudio!NoJob) /\ UNCHANGED <<locks, memLocks>>
      \/ /\ AiStudio!Advance(h)
         /\ \/ up /\ k \notin locks /\ locks' = locks \cup {k} /\ UNCHANGED memLocks
            \/ ~up /\ k \notin memLocks /\ memLocks' = memLocks \cup {k} /\ UNCHANGED locks
  BY <1>3 DEF AiStudio!acquireLock, AiStudio!guards
<1>6. CASE AiStudio!Go(h, AiStudio!NoJob) /\ UNCHANGED <<locks, memLocks>>
  BY <1>1, <1>6, StudioEnds DEF StudioStill
<1>7. CASE /\ AiStudio!Advance(h)
           /\ \/ up /\ k \notin locks /\ locks' = locks \cup {k} /\ UNCHANGED memLocks
              \/ ~up /\ k \notin memLocks /\ memLocks' = memLocks \cup {k} /\ UNCHANGED locks
  <2>1. PICK j : StudioJob(j) /\ job' = [job EXCEPT ![h] = j] /\ Keeps(job[h], j) /\ j.step = job[h].step + 1
    BY <1>2, <1>4, <1>7, AdvanceIs
  <2>2. j.step = 3 /\ TryOnJob(j)
    BY <1>2, <1>4, <2>1 DEF Keeps, TryOnJob, TryingOn
  <2> QED BY <1>1, <1>2, <1>4, <1>7, <2>1, <2>2, LockTaken
<1> QED BY <1>5, <1>6, <1>7

LEMMA TryOnUnlocks ==
    ASSUME StudioInv, ~Mock, action = "TRY_ON", NEW h \in Handlers, AiStudio!releaseLock(h)
    PROVE  StudioInv'
<1>1. AiStudio!At(h, "RELEASE") /\ UNCHANGED <<action, up, expiries, outages, tryOns>>
  BY DEF AiStudio!releaseLock, AiStudio!stored, AiStudio!Env
<1>2. TryingOn(job[h]) /\ job[h].step \in 1..8 /\ StudioRows
  BY <1>1, TryOnIs
<1>3. PICK k : k = AiStudio!LockKey(h)
  OBVIOUS
<1>4. job[h].step = 8 /\ AiStudio!AtEnd(h) /\ k = AiStudio!Pictures(Worn(job[h])) /\ In(job[h])
  BY <1>1, <1>2, <1>3, TryOnAt DEF In, TryingOn
<1>5. /\ AiStudio!Go(h, AiStudio!NoJob) \/ AiStudio!Advance(h)
      /\ \/ locks' = locks \ {k} /\ UNCHANGED memLocks
         \/ memLocks' = memLocks \ {k} /\ UNCHANGED locks
  BY <1>3 DEF AiStudio!releaseLock
<1>6. job' = [job EXCEPT ![h] = AiStudio!NoJob]
  <2>1. CASE AiStudio!Go(h, AiStudio!NoJob)
    BY <2>1 DEF AiStudio!Go
  <2>2. CASE AiStudio!Advance(h)
    BY <1>2, <1>4, <2>2, AdvanceIs
  <2> QED BY <1>5, <2>1, <2>2
<1> QED BY <1>1, <1>4, <1>5, <1>6, LockGiven

LEMMA TryOnLooks ==
    ASSUME StudioInv, ~Mock, action = "TRY_ON", NEW h \in Handlers, AiStudio!CacheLookup(h)
    PROVE  StudioInv'
<1>1. AiStudio!At(h, "CACHE") /\ UNCHANGED <<action, up, expiries, outages, tryOns, locks, memLocks>>
  BY DEF AiStudio!CacheLookup, AiStudio!stored, AiStudio!guards, AiStudio!Env
<1>2. TryingOn(job[h]) /\ job[h].step \in 1..8 /\ StudioRows
  BY <1>1, TryOnIs
<1>3. job[h].step = 3 /\ ~AiStudio!AtEnd(h) /\ AiStudio!Outfit(h) = Worn(job[h])
  BY <1>1, <1>2, TryOnAt
<1>4. \/ AiStudio!CachedTryOns(Worn(job[h])) = {} /\ AiStudio!Advance(h)
      \/ AiStudio!Fail(h)
  BY <1>3 DEF AiStudio!CacheLookup
<1>5. CASE AiStudio!Fail(h)
  <2>1. StudioStill /\ job[h].step \in 1..7
    BY <1>1, <1>3 DEF StudioStill
  <2> QED BY <1>2, <1>5, <2>1, TryOnFails
<1>6. CASE AiStudio!CachedTryOns(Worn(job[h])) = {} /\ AiStudio!Advance(h)
  <2>1. PICK j : StudioJob(j) /\ job' = [job EXCEPT ![h] = j] /\ Keeps(job[h], j) /\ j.step = job[h].step + 1
    BY <1>2, <1>3, <1>6, AdvanceIs
  <2>2. TryOnJob(j) /\ In(j) /\ In(job[h]) /\ Worn(j) = Worn(job[h])
    BY <1>2, <1>3, <2>1 DEF Keeps, TryOnJob, TryingOn, In, Worn
  <2> QED BY <1>1, <1>6, <2>1, <2>2, NothingFound
<1> QED BY <1>4, <1>5, <1>6

LEMMA TryOnSaves ==
    ASSUME StudioInv, ~Mock, action = "TRY_ON", NEW h \in Handlers, AiStudio!Save(h)
    PROVE  StudioInv'
<1>1. AiStudio!At(h, "SAVE") /\ UNCHANGED <<action, up, expiries, outages, locks, memLocks>>
  BY DEF AiStudio!Save, AiStudio!guards, AiStudio!Env
<1>2. TryingOn(job[h]) /\ job[h].step \in 1..8 /\ StudioRows
  BY <1>1, TryOnIs
<1>3. job[h].step = 6 /\ ~AiStudio!AtEnd(h) /\ AiStudio!Outfit(h) = Worn(job[h])
  BY <1>1, <1>2, TryOnAt
<1>4. AiStudio!Advance(h) /\ tryOns' = Append(tryOns, Worn(job[h]))
  BY <1>3 DEF AiStudio!Save
<1>5. PICK j : StudioJob(j) /\ job' = [job EXCEPT ![h] = j] /\ Keeps(job[h], j) /\ j.step = job[h].step + 1
  BY <1>2, <1>3, <1>4, AdvanceIs
<1>6. TryOnJob(j) /\ In(j) /\ ~Past(j) /\ Past(job[h]) /\ Worn(j) = Worn(job[h])
  BY <1>2, <1>3, <1>5 DEF Keeps, TryOnJob, TryingOn, In, Past, Worn
<1> QED BY <1>1, <1>4, <1>5, <1>6, ResultStored

LEMMA TryOnStep ==
    ASSUME StudioInv, ~Mock, action = "TRY_ON", NEW h \in Handlers, AiStudio!Step(h) \/ AiStudio!Crash(h)
    PROVE  StudioInv'
<1>1. CASE AiStudio!Ask(h)
  <2>1. AiStudio!At(h, "ASK")
    BY <1>1 DEF AiStudio!Ask
  <2> QED BY <2>1, TryOnIs, TryOnAt
<1>2. CASE AiStudio!PhotoRefused(h) \/ AiStudio!PredictionFails(h) \/ AiStudio!AdviceUnusable(h) \/ AiStudio!StreamBreaks(h)
  <2>1. AiStudio!Unanswered(h)
    BY <1>2 DEF AiStudio!PhotoRefused, AiStudio!PredictionFails, AiStudio!AdviceUnusable, AiStudio!StreamBreaks
  <2> QED BY <2>1, TryOnQuietSteps
<1> QED BY <1>1, <1>2, RequestStep, TryOnLocks, TryOnUnlocks, TryOnAsserts, TryOnQuietSteps, TryOnLooks,
          TryOnSaves DEF AiStudio!Step

(* The other features store no picture. *)
LEMMA OtherStep ==
    ASSUME StudioInv, action # "TRY_ON", NEW h \in Handlers, AiStudio!Step(h) \/ AiStudio!Crash(h)
    PROVE  StudioInv'
<1>1. StudioRows /\ ~TryingOn(job[h]) /\ tryOns = <<>>
  BY DEF StudioInv, StudioRows
<1>2. CASE AiStudio!FreshRequest(h)
  BY <1>2, RequestStep
<1>3. CASE ~AiStudio!FreshRequest(h)
  <2>1. /\ UNCHANGED <<action, up, expiries, outages, tryOns>>
        /\ memLocks' # {} => memLocks # {} \/ ~up
    <3>1. CASE AiStudio!acquireLock(h) \/ AiStudio!releaseLock(h)
      BY <3>1 DEF AiStudio!acquireLock, AiStudio!releaseLock, AiStudio!stored, AiStudio!Env, AiStudio!guards
    <3>2. CASE AiStudio!Crash(h)
      BY <3>2 DEF AiStudio!Crash, AiStudio!stored, AiStudio!guards
    <3>3. CASE AiStudio!Save(h)
      BY <1>1, <3>3 DEF AiStudio!Save, AiStudio!stored, AiStudio!guards, AiStudio!Env
    <3>4. CASE ~AiStudio!acquireLock(h) /\ ~AiStudio!releaseLock(h) /\ ~AiStudio!Crash(h) /\ ~AiStudio!Save(h)
      BY <1>3, <3>4 DEF AiStudio!Step, AiStudio!AssertGet, AiStudio!AssertLoad, AiStudio!AssertStore,
         AiStudio!consumeQuota, AiStudio!CacheLookup, AiStudio!Ask, AiStudio!ProviderAnswers,
         AiStudio!PhotoRefused, AiStudio!PredictionFails, AiStudio!AdviceUnusable, AiStudio!StreamBreaks,
         AiStudio!Unanswered, AiStudio!stored, AiStudio!guards, AiStudio!Env
    <3> QED BY <3>1, <3>2, <3>3, <3>4
  <2>2. \/ AiStudio!Advance(h) \/ AiStudio!Fail(h) \/ AiStudio!Go(h, AiStudio!NoJob)
        \/ AiStudio!Go(h, [job[h] EXCEPT !.reading = "USAGE"])
        \/ AiStudio!Go(h, [job[h] EXCEPT !.reading = "LOADED", !.used = usage])
    BY <1>3 DEF AiStudio!Step, AiStudio!Crash, AiStudio!acquireLock, AiStudio!releaseLock,
       AiStudio!AssertGet, AiStudio!AssertLoad, AiStudio!AssertStore, AiStudio!Decide,
       AiStudio!consumeQuota, AiStudio!CacheLookup, AiStudio!Ask, AiStudio!ProviderAnswers, AiStudio!Save,
       AiStudio!PhotoRefused, AiStudio!PredictionFails, AiStudio!AdviceUnusable, AiStudio!StreamBreaks,
       AiStudio!Unanswered
  <2>3. PICK j : StudioJob(j) /\ job' = [job EXCEPT ![h] = j] /\ (Keeps(job[h], j) \/ j = AiStudio!NoJob)
    <3>1. CASE AiStudio!Advance(h)
      BY <1>1, <3>1, AdvanceIs
    <3>2. CASE AiStudio!Fail(h)
      BY <1>1, <3>2, FailIs
    <3>3. CASE AiStudio!Go(h, AiStudio!NoJob)
      BY <3>3, StudioIdle DEF AiStudio!Go
    <3>4. CASE \/ AiStudio!Go(h, [job[h] EXCEPT !.reading = "USAGE"])
               \/ AiStudio!Go(h, [job[h] EXCEPT !.reading = "LOADED", !.used = usage])
      BY <1>1, <3>4, ReadingIs
    <3> QED BY <2>2, <3>1, <3>2, <3>3, <3>4
  <2>4. ~TryingOn(j)
    BY <1>1, <2>3, StudioIdle DEF Keeps, TryingOn
  <2>5. StudioFrame
    BY <1>1, <2>1 DEF StudioFrame, StudioRows
  <2>6. StudioRows'
    BY <1>1, <2>1, <2>3, <2>4, <2>5, RowsStay
  <2>7. action' # "TRY_ON"
    BY <2>1
  <2>8. \A k : Inside(k)' = {}
    <3>1. \A g \in Handlers : ~TryingOn(job'[g])
      BY <1>1, <2>3, <2>4, StudioMove DEF StudioRows
    <3> QED BY <3>1 DEF Inside, In, TryingOn
  <2>9. \A o : Passed(o)' = {} /\ Bought(o)' = {}
    <3>1. \A g \in Handlers : ~TryingOn(job'[g])
      BY <1>1, <2>3, <2>4, StudioMove DEF StudioRows
    <3> QED BY <1>1, <2>1, <3>1 DEF Passed, Past, TryingOn, Bought
  <2> QED BY <2>6, <2>8, <2>9, NothingBought DEF StudioInv
<1> QED BY <1>2, <1>3


(* Redis goes and comes back; an upsert is made, or lost. *)
LEMMA StudioWaits ==
    ASSUME StudioInv, UNCHANGED <<job, action, expiries, locks, memLocks, tryOns>>, up' \in BOOLEAN,
           \/ outages' = outages /\ (up' = up \/ up')
           \/ outages' = outages + 1
    PROVE  StudioInv'
<1>1. StudioRows
  BY DEF StudioInv
<1>2. PICK e, d, n \in Nat : e = expiries /\ d = outages /\ n = outages' /\ (n = d \/ n = d + 1)
  BY <1>1 DEF StudioRows
<1>3. /\ StudioRows' /\ \A k : Inside(k)' = Inside(k)
      /\ \A o : Passed(o)' = Passed(o)
  <2>1. expiries' \in Nat /\ outages' \in Nat /\ (\E S : tryOns' \in Seq(S)) /\ (tryOns = <<>> => tryOns' = <<>>)
    BY <1>1, <1>2 DEF StudioRows
  <2>2. (~up' \/ memLocks' # {}) => outages' > 0
    BY <1>1 DEF StudioRows
  <2>3. UNCHANGED <<job, action>> /\ up' \in BOOLEAN
    OBVIOUS
  <2> QED BY ONLY <1>1, <2>1, <2>2, <2>3, StudioRests
<1>4. \A k : Cardinality(Inside(k)') <= One(k \in locks') + One(k \in memLocks') + expiries'
  BY <1>3 DEF StudioInv, InsideInv
<1>5. ASSUME NEW o PROVE Cardinality(Bought(o)') + Cardinality(Passed(o)') <= 1 + expiries' + outages'
  <2>1. PICK a, b \in Nat : a = Cardinality(Bought(o)) /\ b = Cardinality(Passed(o))
    BY <1>1, BoughtAre, FewAre DEF Passed
  <2>2. a + b <= 1 + e + d
    BY <1>2, <2>1 DEF StudioInv, BoughtInv
  <2>3. Bought(o)' = Bought(o)
    BY DEF Bought
  <2>4. a + b <= 1 + e + n
    <3>1. (n = d \/ n = d + 1) /\ a \in Nat /\ b \in Nat /\ e \in Nat /\ d \in Nat /\ n \in Nat
      BY <1>2, <2>1
    <3> QED BY ONLY <2>2, <3>1
  <2>5. expiries' = e
    BY <1>2
  <2> QED BY <1>2, <1>3, <2>1, <2>3, <2>4, <2>5
<1> QED BY <1>3, <1>4, <1>5 DEF StudioInv, InsideInv, BoughtInv

LEMMA StudioRedis ==
    ASSUME StudioInv, \/ AiStudio!Disconnect \/ AiStudio!Reconnect \/ AiStudio!SyncUsage
                      \/ AiStudio!LoseUpsert \/ UNCHANGED AiStudio!vars
    PROVE  StudioInv'
<1>1. UNCHANGED <<job, action, expiries, locks, memLocks, tryOns>>
  BY DEF AiStudio!Disconnect, AiStudio!Reconnect, AiStudio!SyncUsage, AiStudio!LoseUpsert, AiStudio!vars,
         AiStudio!stored, AiStudio!guards, AiStudio!Env
<1>2. up' \in BOOLEAN /\ ((outages' = outages /\ (up' = up \/ up')) \/ outages' = outages + 1)
  BY DEF AiStudio!Disconnect, AiStudio!Reconnect, AiStudio!SyncUsage, AiStudio!LoseUpsert, AiStudio!vars,
         AiStudio!Env, StudioInv, StudioRows
<1> QED BY ONLY StudioInv, <1>1, <1>2, StudioWaits

LEMMA StudioStart == ASSUME AiStudio!Init PROVE StudioInv
<1>1. /\ action \in {"TRY_ON", "STYLIST", "CHATBOT"} /\ expiries = 0 /\ outages = 0 /\ up = TRUE
      /\ locks = {} /\ memLocks = {} /\ tryOns = <<>> /\ job = [h \in Handlers |-> AiStudio!NoJob]
  BY DEF AiStudio!Init, AiStudio!Actions
<1>2. \A h \in Handlers : StudioJob(job[h]) /\ job[h].kind = "NONE"
  BY <1>1, StudioIdle
<1>3. \A h \in Handlers : TryOnJob(job[h]) /\ ~TryingOn(job[h])
  BY <1>2 DEF TryOnJob, TryingOn
<1>4. tryOns \in Seq({}) /\ DOMAIN tryOns = {}
  BY <1>1
<1>5. StudioRows
  BY <1>1, <1>2, <1>3, <1>4 DEF StudioRows
<1>6. Cardinality({}) = 0
  BY FS_EmptySet
<1>7. ASSUME NEW k PROVE Inside(k) = {}
  BY <1>3 DEF Inside, In, TryingOn
<1>8. ASSUME NEW o PROVE Passed(o) = {} /\ Bought(o) = {}
  BY <1>3, <1>4 DEF Passed, Past, TryingOn, Bought
<1>9. InsideInv
  <2>1. ASSUME NEW k PROVE One(k \in locks) = 0 /\ One(k \in memLocks) = 0
    BY <1>1 DEF One
  <2>2. 0 <= 0 + 0 + 0
    OBVIOUS
  <2> QED BY <1>1, <1>6, <1>7, <2>1, <2>2 DEF InsideInv
<1>10. BoughtInv
  <2>1. 0 + 0 <= 1 + 0 + 0
    OBVIOUS
  <2> QED BY <1>1, <1>6, <1>8, <2>1 DEF BoughtInv
<1> QED BY <1>5, <1>9, <1>10 DEF StudioInv

LEMMA StudioStep == ASSUME StudioInv, ~Mock, [AiStudio!Next]_(AiStudio!vars) PROVE StudioInv'
<1>1. ASSUME NEW h \in Handlers, AiStudio!Step(h) \/ AiStudio!Crash(h) PROVE StudioInv'
  BY <1>1, TryOnStep, OtherStep
<1>2. ASSUME NEW k, AiStudio!Expire(k) PROVE StudioInv'
  BY <1>2, ExpireStep
<1> QED BY <1>1, <1>2, StudioRedis, DeleteResultStep DEF AiStudio!Next

LEMMA StudioShown == ASSUME StudioInv PROVE AiStudio!BoughtOnce
<1> SUFFICES ASSUME NEW o \in Outfits PROVE AiStudio!Cardinality(AiStudio!Bought(o)) <= 1 + expiries + outages
  BY DEF AiStudio!BoughtOnce
<1>1. PICK e, d \in Nat : e = expiries /\ d = outages
  BY DEF StudioInv, StudioRows
<1>2. PICK a, b \in Nat : a = Cardinality(Bought(o)) /\ b = Cardinality(Passed(o))
  BY BoughtAre, FewAre DEF StudioInv, Passed
<1>3. a + b <= 1 + e + d
  BY <1>1, <1>2 DEF StudioInv, BoughtInv
<1>4. a <= 1 + e + d
  BY <1>3
<1>5. AiStudio!Bought(o) = Bought(o)
  BY DEF AiStudio!Bought, Bought, SamePicture
<1> QED BY <1>1, <1>2, <1>4, <1>5, StudioCardinality

(* With a provider that takes its time, of one picture there is never more than one result,
   and one for each lock that expired under a running request and each outage of Redis, for
   any number of requests, garments and results, deletions and deaths included
   (try-on.service.ts, redis.service.ts).  The mock's result is stored after its lock was
   released, so it is left out. *)
THEOREM BoughtOnceHolds == ~Mock => (Spec => []BoughtOnce)
<1> SUFFICES ASSUME ~Mock PROVE Spec => []BoughtOnce
  OBVIOUS
<1>1. Init => (scope = "AiStudio" => StudioInv)
  BY StudioStart DEF Init
<1>2. (scope = "AiStudio" => StudioInv) /\ [Next]_vars => (scope = "AiStudio" => StudioInv)'
  <2>1. [Next]_vars /\ scope' = "AiStudio" => scope = "AiStudio" /\ [AiStudio!Next]_(AiStudio!vars)
    BY DEF Next, vars, shared, studio, AiStudio!vars
  <2> QED BY <2>1, StudioStep
<1>3. (scope = "AiStudio" => StudioInv) => BoughtOnce
  BY StudioShown DEF BoughtOnce
<1> QED BY <1>1, <1>2, <1>3, PTL DEF Spec

-----------------------------------------------------------------------------
(* AiStudio: what is given and what is charged stay within the limits.

   A request is stale while it is about to store a count it loaded earlier; it is in flight
   from its last check to its charge.  The requests that are not stale are `free`.  When a
   stale request stores its count the counter starts again; with j free requests it then
   takes at most Width(j) uses until the check refuses everybody: the limit, and one use of
   each of the other j - 1, which passed together.  Depth(j) adds up the widths for 1, ..., j
   free requests. *)
Width(j, l, m) == IF j = 0 THEN 0 ELSE l + (j - 1) * m
Depth(j, l, m) == j * l + ((j * (j - 1)) \div 2) * m

LEMMA Grows == ASSUME NEW a \in Nat, NEW b \in Nat, NEW c \in Nat, a <= b PROVE a * c <= b * c
<1>1. PICK d \in Nat : b = a + d
  <2>1. b - a \in Nat /\ b = a + (b - a)
    OBVIOUS
  <2> QED BY <2>1
<1>2. b * c = a * c + d * c
  BY <1>1
<1>3. a * c \in Nat /\ d * c \in Nat
  OBVIOUS
<1> QED BY <1>2, <1>3

\* One, one and two, one and two and three: the numbers j * (j - 1) / 2.
LEMMA Pairs ==
    ASSUME NEW j \in Nat
    PROVE  /\ (j * (j - 1)) \div 2 \in Nat
           /\ ((j + 1) * ((j + 1) - 1)) \div 2 = (j * (j - 1)) \div 2 + j
<1>1. PICK a \in Nat : a = j * (j - 1)
  <2>1. CASE j = 0
    BY <2>1
  <2>2. CASE j # 0
    <3>1. j - 1 \in Nat
      BY <2>2
    <3>2. j * (j - 1) \in Nat
      BY <3>1
    <3> QED BY <3>2
  <2> QED BY <2>1, <2>2
<1>2. (j + 1) * ((j + 1) - 1) = a + 2 * j
  <2>1. (j + 1) * ((j + 1) - 1) = (j + 1) * j
    OBVIOUS
  <2>2. (j + 1) * j = j * (j - 1) + 2 * j
    OBVIOUS
  <2> QED BY <1>1, <2>1, <2>2
<1>3. a \div 2 \in Nat /\ (a + 2 * j) \div 2 = a \div 2 + j
  OBVIOUS
<1> QED BY <1>1, <1>2, <1>3

LEMMA WidthIs ==
    ASSUME NEW j \in Nat, NEW l \in Nat, NEW m \in Nat
    PROVE  /\ Width(j, l, m) \in Nat /\ Width(0, l, m) = 0
           /\ Width(j + 1, l, m) = l + j * m /\ j * m \in Nat
           /\ \A i \in 0..j : Width(i, l, m) <= Width(j, l, m)
<1>1. j * m \in Nat /\ Width(0, l, m) = 0 /\ Width(j + 1, l, m) = l + j * m
  BY DEF Width
<1>2. ASSUME NEW i \in 0..j PROVE Width(i, l, m) <= Width(j, l, m) /\ Width(j, l, m) \in Nat
  <2>1. CASE j = 0
    BY <2>1 DEF Width
  <2>2. CASE j # 0
    <3>1. PICK b \in Nat : b = j - 1
      <4>1. j - 1 \in Nat
        BY <2>2
      <4> QED BY <4>1
    <3>2. Width(j, l, m) = l + b * m /\ b * m \in Nat
      BY <2>2, <3>1 DEF Width
    <3>3. CASE i = 0
      BY <3>2, <3>3 DEF Width
    <3>4. CASE i # 0
      <4>1. PICK a \in Nat : a = i - 1 /\ a <= b
        <5>1. i - 1 \in Nat /\ i - 1 <= j - 1
          BY <3>4
        <5> QED BY <3>1, <5>1
      <4>2. Width(i, l, m) = l + a * m /\ a * m \in Nat
        BY <3>4, <4>1 DEF Width
      <4>3. a * m <= b * m
        BY <4>1, Grows
      <4> QED BY <3>2, <4>2, <4>3
    <3> QED BY <3>2, <3>3, <3>4
  <2> QED BY <2>1, <2>2
<1>3. 0 \in 0..j
  OBVIOUS
<1> QED BY <1>1, <1>2, <1>3

LEMMA DepthIs ==
    ASSUME NEW j \in Nat, NEW l \in Nat, NEW m \in Nat
    PROVE  /\ Depth(j, l, m) \in Nat /\ Depth(0, l, m) = 0
           /\ Depth(j + 1, l, m) = Depth(j, l, m) + Width(j + 1, l, m)
           /\ j * l \in Nat /\ j * l <= Depth(j, l, m) /\ Width(j, l, m) <= Depth(j, l, m)
<1>1. PICK t, t1 \in Nat : t = (j * (j - 1)) \div 2 /\ t1 = ((j + 1) * ((j + 1) - 1)) \div 2 /\ t1 = t + j
  BY Pairs
<1>2. j * l \in Nat /\ t * m \in Nat /\ j * m \in Nat
  OBVIOUS
<1>3. Depth(j, l, m) = j * l + t * m
  BY <1>1 DEF Depth
<1>4. Depth(j + 1, l, m) = (j + 1) * l + t1 * m
  BY <1>1 DEF Depth
<1>5. (j + 1) * l = j * l + l
  OBVIOUS
<1>6. t1 * m = t * m + j * m
  BY <1>1
<1>7. Depth(j + 1, l, m) = Depth(j, l, m) + Width(j + 1, l, m)
  <2>1. Width(j + 1, l, m) = l + j * m
    BY WidthIs
  <2> QED BY <1>2, <1>3, <1>4, <1>5, <1>6, <2>1
<1>8. Depth(0, l, m) = 0
  <2>1. 0 * (0 - 1) = 0 /\ 0 * l = 0 /\ 0 * m = 0 /\ 0 \div 2 = 0
    OBVIOUS
  <2> QED BY <2>1 DEF Depth
<1>9. Width(j, l, m) <= Depth(j, l, m)
  <2>1. CASE j = 0
    BY <1>8, <2>1, WidthIs
  <2>2. CASE j # 0
    <3>1. PICK i \in Nat : j = i + 1
      <4>1. j - 1 \in Nat /\ j = (j - 1) + 1
        BY <2>2
      <4> QED BY <4>1
    <3>2. PICK a, b \in Nat : a = (i * (i - 1)) \div 2 /\ b = (j * (j - 1)) \div 2 /\ b = a + i
      BY <3>1, Pairs
    <3>3. b * m = a * m + i * m /\ a * m \in Nat /\ i * m \in Nat /\ i * l \in Nat /\ j * l = i * l + l
      BY <3>1, <3>2
    <3>4. Depth(j, l, m) = j * l + b * m
      BY <3>2 DEF Depth
    <3>5. Width(j, l, m) = l + i * m
      BY <3>1, WidthIs
    <3> QED BY <3>3, <3>4, <3>5
  <2> QED BY <2>1, <2>2
<1> QED BY <1>2, <1>3, <1>7, <1>8, <1>9

LEMMA DepthGrows ==
    ASSUME NEW n \in Nat, NEW j \in 0..n, NEW l \in Nat, NEW m \in Nat
    PROVE  /\ Depth(j, l, m) <= Depth(n, l, m)
           /\ j # n => Depth(j, l, m) + Width(n, l, m) <= Depth(n, l, m)
<1>1. ASSUME NEW a \in Nat, NEW b \in Nat, a <= b PROVE Depth(a, l, m) <= Depth(b, l, m)
  <2>1. PICK s, t \in Nat : s = (a * (a - 1)) \div 2 /\ t = (b * (b - 1)) \div 2
    BY Pairs
  <2>2. a * (a - 1) <= b * (b - 1)
    <3>1. a * a <= b * a /\ b * a <= b * b
      <4>1. a * b <= b * b
        BY <1>1, Grows
      <4> QED BY <1>1, Grows, <4>1
    <3>2. CASE a = b
      BY <3>2
    <3>3. CASE a < b
      <4>1. PICK d \in Nat : b = a + 1 + d
        <5>1. b - a - 1 \in Nat /\ b = a + 1 + (b - a - 1)
          BY <3>3
        <5> QED BY <5>1
      <4>2. b * (b - 1) = (a + 1 + d) * (a + d)
        BY <4>1
      <4>3. (a + 1 + d) * (a + d) = a * a + a * d + a + d + d * a + d * d
        OBVIOUS
      <4>4. a * d \in Nat /\ d * a \in Nat /\ d * d \in Nat /\ a * a \in Nat
        OBVIOUS
      <4>5. a * (a - 1) = a * a - a
        OBVIOUS
      <4> QED BY <4>2, <4>3, <4>4, <4>5
    <3> QED BY <1>1, <3>2, <3>3
  <2>3. PICK x, y \in Int : x = a * (a - 1) /\ y = b * (b - 1)
    OBVIOUS
  <2>4. s <= t
    BY <2>1, <2>2, <2>3
  <2>5. s * m <= t * m /\ a * l <= b * l
    BY <1>1, <2>4, Grows
  <2>6. s * m \in Nat /\ t * m \in Nat /\ a * l \in Nat /\ b * l \in Nat
    OBVIOUS
  <2>7. Depth(a, l, m) = a * l + s * m /\ Depth(b, l, m) = b * l + t * m
    BY <2>1 DEF Depth
  <2> QED BY <2>5, <2>6, <2>7
<1>2. CASE j = n
  BY <1>1, <1>2
<1>3. CASE j # n
  <2>1. PICK i \in Nat : n = i + 1 /\ j <= i
    <3>1. n - 1 \in Nat /\ n = (n - 1) + 1 /\ j <= n - 1
      BY <1>3
    <3> QED BY <3>1
  <2>2. Depth(n, l, m) = Depth(i, l, m) + Width(n, l, m)
    BY <2>1, DepthIs
  <2>3. Depth(j, l, m) <= Depth(i, l, m)
    BY <1>1, <2>1
  <2>4. Depth(j, l, m) \in Nat /\ Depth(i, l, m) \in Nat /\ Width(n, l, m) \in Nat
    <3>1. j \in Nat
      OBVIOUS
    <3> QED BY <2>1, <3>1, DepthIs, WidthIs
  <2> QED BY <2>2, <2>3, <2>4
<1> QED BY <1>2, <1>3

(* What is still to come.  With c the count read now (-1: none), m the one in the process, h
   and w the depth and the width of the free requests, x the width of all requests, f what is
   in flight and b the depth of all requests. *)
Excess(e) == IF e >= 0 THEN e ELSE 0
ToCome(on, c, m, b, h, w, x, f) ==
    IF on THEN IF c = -1 THEN b ELSE b - h + Excess(w - c - f)
    ELSE IF c = -1 THEN IF m = -1 THEN b + b ELSE b + b - h + Excess(w - m - f)
    ELSE IF m = -1 THEN b + Excess(x - c - f) ELSE b - h + Excess(w - m - f) + Excess(x - c)

\* The counts, and the depths and widths of up to all requests.
Counts(on, c, m, b, h, w, x, f) ==
    /\ on \in BOOLEAN /\ c \in Nat \cup {-1} /\ m \in Nat \cup {-1}
    /\ b \in Nat /\ h \in Nat /\ w \in Nat /\ x \in Nat /\ f \in Nat
    /\ h <= b /\ w <= h /\ w <= x /\ x <= b

LEMMA SomeToCome ==
    ASSUME NEW on, NEW c, NEW m, NEW b, NEW h, NEW w, NEW x, NEW f, Counts(on, c, m, b, h, w, x, f)
    PROVE  ToCome(on, c, m, b, h, w, x, f) \in Nat
BY DEF Counts, ToCome, Excess

\* Less in flight is as much more to come, at most.
LEMMA LessInFlight ==
    ASSUME NEW on, NEW c, NEW m, NEW b, NEW h, NEW w, NEW x, NEW f, Counts(on, c, m, b, h, w, x, f),
           NEW g \in Nat, NEW d \in Nat, f = g + d
    PROVE  ToCome(on, c, m, b, h, w, x, g) <= ToCome(on, c, m, b, h, w, x, f) + d
BY DEF Counts, ToCome, Excess

\* A use that passes the check is one less to come.
LEMMA OnePasses ==
    ASSUME NEW on, NEW c, NEW m, NEW b, NEW h, NEW w, NEW x, NEW f, Counts(on, c, m, b, h, w, x, f),
           NEW d \in Nat, NEW v \in Nat, v = IF on THEN c ELSE m, v + f + d <= w
    PROVE  ToCome(on, c, m, b, h, w, x, f + d) + d <= ToCome(on, c, m, b, h, w, x, f)
BY DEF Counts, ToCome, Excess

\* A charge moves from what is in flight to the count.
LEMMA OneIsCharged ==
    ASSUME NEW on, NEW c, NEW m, NEW b, NEW h, NEW w, NEW x, NEW f, Counts(on, c, m, b, h, w, x, f),
           f <= h, NEW g \in Nat, NEW d \in Nat, f = g + d, NEW v, v = IF on THEN c ELSE m,
           NEW y, y = (IF v = -1 THEN 0 ELSE v) + d
    PROVE  IF on THEN ToCome(on, y, m, b, h, w, x, g) <= ToCome(on, c, m, b, h, w, x, f)
                 ELSE ToCome(on, c, y, b, h, w, x, g) <= ToCome(on, c, m, b, h, w, x, f)
BY DEF Counts, ToCome, Excess

\* A request is stale no more.
LEMMA OneMoreFree ==
    ASSUME NEW on, NEW c, NEW m, NEW b, NEW h, NEW w, NEW x, NEW f, Counts(on, c, m, b, h, w, x, f),
           NEW k, NEW y, Counts(on, c, m, b, k, y, x, f), k = h + y
    PROVE  ToCome(on, c, m, b, k, y, x, f) <= ToCome(on, c, m, b, h, w, x, f)
BY DEF Counts, ToCome, Excess

\* Nothing depends on who is stale while the count is missing.
LEMMA NoneRead ==
    ASSUME NEW on, NEW c, NEW m, NEW b, NEW h, NEW w, NEW x, NEW f, NEW k, NEW y,
           (IF on THEN c ELSE m) = -1
    PROVE  ToCome(on, c, m, b, k, y, x, f) = ToCome(on, c, m, b, h, w, x, f)
BY DEF ToCome

\* A stale request stores its count, and passes the check with d uses, or none.
LEMMA OneIsStored ==
    ASSUME NEW on, NEW c, NEW m, NEW b, NEW h, NEW w, NEW x, NEW f, Counts(on, c, m, b, h, w, x, f),
           NEW k, NEW y, Counts(on, c, m, b, k, y, x, f), k = h + y, f <= k,
           NEW d \in Nat, NEW v \in Nat, d = 0 \/ v + f + d <= y
    PROVE  IF on THEN ToCome(on, v, m, b, k, y, x, f + d) + d <= ToCome(on, c, m, b, h, w, x, f)
                 ELSE ToCome(on, c, v, b, k, y, x, f + d) + d <= ToCome(on, c, m, b, h, w, x, f)
<1>1. CASE d = 0
  BY <1>1 DEF Counts, ToCome, Excess
<1>2. CASE v + f + d <= y
  BY <1>2 DEF Counts, ToCome, Excess
<1> QED BY <1>1, <1>2

\* Redis goes, and comes back.
LEMMA RedisGoes ==
    ASSUME NEW c, NEW m, NEW b, NEW h, NEW w, NEW x, NEW f, Counts(TRUE, c, m, b, h, w, x, f),
           (h = b /\ w = x) \/ h + x <= b
    PROVE  ToCome(FALSE, c, m, b, h, w, x, f) <= ToCome(TRUE, c, m, b, h, w, x, f) + b
BY DEF Counts, ToCome, Excess

LEMMA RedisComes ==
    ASSUME NEW c, NEW m, NEW b, NEW h, NEW w, NEW x, NEW f, Counts(TRUE, c, m, b, h, w, x, f)
    PROVE  ToCome(TRUE, c, m, b, h, w, x, f) <= ToCome(FALSE, c, m, b, h, w, x, f)
BY DEF Counts, ToCome, Excess

-----------------------------------------------------------------------------
(* The uses of requests are counted as pairs of a request and a number. *)

LEMMA UnitsOf ==
    ASSUME NEW h, NEW d \in 0..3
    PROVE  IsFiniteSet({h} \X (1..d)) /\ Cardinality({h} \X (1..d)) = d
<1>1. IsFiniteSet({h}) /\ Cardinality({h}) = 1
  BY FS_Singleton
<1>2. IsFiniteSet(1..d) /\ Cardinality(1..d) = d
  <2>1. IsFiniteSet(1..d) /\ Cardinality(1..d) = IF 1 > d THEN 0 ELSE d - 1 + 1
    BY FS_Interval
  <2> QED BY <2>1
<1>3. Cardinality({h} \X (1..d)) = 1 * d /\ IsFiniteSet({h} \X (1..d))
  BY <1>1, <1>2, FS_Product
<1>4. 1 * d = d
  OBVIOUS
<1> QED BY <1>3, <1>4

LEMMA UnitsWithin ==
    ASSUME NEW S, IsFiniteSet(S), NEW d \in Nat, NEW A \in SUBSET (S \X (1..d))
    PROVE  /\ IsFiniteSet(A) /\ Cardinality(A) \in Nat /\ Cardinality(S) \in Nat
           /\ Cardinality(S) * d \in Nat /\ Cardinality(A) <= Cardinality(S) * d
<1>1. IsFiniteSet(1..d) /\ Cardinality(1..d) = d
  BY FS_Interval
<1>2. IsFiniteSet(S \X (1..d)) /\ Cardinality(S \X (1..d)) = Cardinality(S) * d
  BY <1>1, FS_Product
<1>3. IsFiniteSet(A) /\ Cardinality(A) <= Cardinality(S \X (1..d))
  BY <1>2, FS_Subset
<1>4. Cardinality(S) \in Nat /\ Cardinality(A) \in Nat
  BY <1>3, FS_CardinalityType
<1>5. Cardinality(S) * d \in Nat
  BY <1>4
<1> QED BY <1>2, <1>3, <1>4, <1>5

LEMMA ApartFrom ==
    ASSUME NEW A, NEW R, NEW B, IsFiniteSet(R), IsFiniteSet(B), A = R \cup B, R \cap B = {}
    PROVE  Cardinality(A) = Cardinality(R) + Cardinality(B) /\ Cardinality(R) \in Nat /\ IsFiniteSet(A)
<1>1. /\ IsFiniteSet(R \cup B)
      /\ Cardinality(R \cup B) = Cardinality(R) + Cardinality(B) - Cardinality(R \cap B)
  BY FS_Union
<1>2. Cardinality({}) = 0
  BY FS_EmptySet
<1>3. PICK r, k \in Nat : r = Cardinality(R) /\ k = Cardinality(B)
  BY FS_CardinalityType
<1>4. Cardinality(R \cup B) = r + k - 0
  BY <1>1, <1>2, <1>3
<1>5. r + k - 0 = r + k
  OBVIOUS
<1> QED BY <1>1, <1>3, <1>4, <1>5

\* One request exchanges its uses for others.
Exchange(A, B, h, d, e) ==
    /\ A \in SUBSET (Handlers \X (1..3)) /\ B \in SUBSET (Handlers \X (1..3))
    /\ h \in Handlers /\ d \in 0..3 /\ e \in 0..3
    /\ \A g \in Handlers, i \in 1..3 : IF g = h THEN (<<g, i>> \in A <=> i <= d) /\ (<<g, i>> \in B <=> i <= e)
                                               ELSE <<g, i>> \in A <=> <<g, i>> \in B
LEMMA UnitsMove ==
    ASSUME NEW A, NEW B, NEW h, NEW d, NEW e, Exchange(A, B, h, d, e)
    PROVE  /\ Cardinality(A) \in Nat /\ Cardinality(B) \in Nat
           /\ Cardinality(B) + d = Cardinality(A) + e
<1>1. PICK R : R = {x \in A : x[1] # h}
  OBVIOUS
<1> USE DEF Exchange
<1>2. A = R \cup ({h} \X (1..d))
  <2>1. ASSUME NEW x \in A PROVE x \in R \cup ({h} \X (1..d))
    <3>1. PICK g \in Handlers, i \in 1..3 : x = <<g, i>>
      OBVIOUS
    <3>2. CASE g = h
      <4>1. i <= d
        BY <3>1, <3>2
      <4> QED BY <3>1, <3>2, <4>1
    <3>3. CASE g # h
      BY <1>1, <3>1, <3>3
    <3> QED BY <3>2, <3>3
  <2>2. ASSUME NEW i \in 1..d PROVE <<h, i>> \in A
    <3>1. i \in 1..3 /\ i <= d
      OBVIOUS
    <3> QED BY <3>1
  <2> QED BY <1>1, <2>1, <2>2
<1>3. B = R \cup ({h} \X (1..e))
  <2>1. ASSUME NEW x \in B PROVE x \in R \cup ({h} \X (1..e))
    <3>1. PICK g \in Handlers, i \in 1..3 : x = <<g, i>>
      OBVIOUS
    <3>2. CASE g = h
      <4>1. i <= e
        BY <3>1, <3>2
      <4> QED BY <3>1, <3>2, <4>1
    <3>3. CASE g # h
      <4>1. x \in A /\ x[1] # h
        BY <3>1, <3>3
      <4> QED BY <1>1, <4>1
    <3> QED BY <3>2, <3>3
  <2>2. ASSUME NEW i \in 1..e PROVE <<h, i>> \in B
    <3>1. i \in 1..3 /\ i <= e
      OBVIOUS
    <3> QED BY <3>1
  <2>3. ASSUME NEW x \in R PROVE x \in B
    <3>1. PICK g \in Handlers, i \in 1..3 : x = <<g, i>>
      BY <1>1
    <3> QED BY <1>1, <3>1
  <2> QED BY <2>1, <2>2, <2>3
<1>4. R \cap ({h} \X (1..d)) = {} /\ R \cap ({h} \X (1..e)) = {}
  BY <1>1
<1>5. IsFiniteSet(R)
  <2>1. R \in SUBSET (Handlers \X (1..3)) /\ 3 \in Nat
    BY <1>1
  <2> QED BY <2>1, UnitsWithin, FewRequests
<1>6. Cardinality(A) = Cardinality(R) + d
  <2>1. IsFiniteSet({h} \X (1..d)) /\ Cardinality({h} \X (1..d)) = d
    BY UnitsOf
  <2>2. Cardinality(A) = Cardinality(R) + Cardinality({h} \X (1..d))
    BY ONLY <1>2, <1>4, <1>5, <2>1, ApartFrom
  <2> QED BY <2>1, <2>2
<1>7. Cardinality(B) = Cardinality(R) + e
  <2>1. IsFiniteSet({h} \X (1..e)) /\ Cardinality({h} \X (1..e)) = e
    BY UnitsOf
  <2>2. Cardinality(B) = Cardinality(R) + Cardinality({h} \X (1..e))
    BY ONLY <1>3, <1>4, <1>5, <2>1, ApartFrom
  <2> QED BY <2>1, <2>2
<1>8. Cardinality(R) \in Nat
  BY <1>5, FS_CardinalityType
<1> QED BY <1>6, <1>7, <1>8

\* One request joins a set of requests, or leaves it.
LEMMA OneJoins ==
    ASSUME NEW S \in SUBSET Handlers, NEW h \in Handlers \ S
    PROVE  Cardinality(S \cup {h}) = Cardinality(S) + 1 /\ Cardinality(S) \in Nat
<1>1. IsFiniteSet(S)
  BY FewRequests, FS_Subset
<1> QED BY <1>1, FS_AddElement, FS_CardinalityType

-----------------------------------------------------------------------------
\* The last check of a request, the step that stores its result, its last step, and the
\* release of its lock.
Kinds      == {"TRY_ON", "STYLIST", "CHAT_SOCKET", "CHAT_SSE"}
CheckAt(k) == IF k = "TRY_ON" THEN 4 ELSE 1
SaveAt(k)  == IF k = "TRY_ON" THEN 6 ELSE IF k = "CHAT_SOCKET" THEN 5 ELSE 4
EndAt(k)   == IF k = "TRY_ON" THEN IF Mock THEN 7 ELSE 8 ELSE IF k = "CHAT_SOCKET" THEN 7 ELSE 5
FreedAt(k) == IF k = "TRY_ON" THEN IF Mock THEN 5 ELSE 8 ELSE IF k = "CHAT_SOCKET" THEN 7 ELSE 0

Weight(j) == IF j.kind = "TRY_ON" THEN Cardinality(DOMAIN Worn(j)) ELSE 1
MeteredJob(j) ==
    /\ StudioJob(j)
    /\ j.kind \in Kinds \cup {"NONE"} /\ j.reading \in {"NO", "USAGE", "LOADED"}
    /\ j.used \in Nat /\ j.failed \in BOOLEAN
    /\ j.kind = "NONE" => j.reading = "NO"
    /\ j.kind # "NONE" => j.step \in 1..EndAt(j.kind) /\ Weight(j) \in 1..3
    /\ j.reading # "NO" => ~j.failed /\ j.step \in {1, CheckAt(j.kind)}
    /\ j.failed => j.step = FreedAt(j.kind)

\* From its last check to its charge a request is in flight; between its result and its
\* charge it owes.
Flying(j) == j.kind # "NONE" /\ ~j.failed /\ j.step \in (CheckAt(j.kind) + 1)..(SaveAt(j.kind) + 1)
Owing(j)  == j.kind # "NONE" /\ ~j.failed /\ j.step = SaveAt(j.kind) + 1

Metered(jb) == jb = [h \in Handlers |-> jb[h]] /\ \A h \in Handlers : MeteredJob(jb[h])
FreeOf(jb)  == {h \in Handlers : jb[h].reading = "NO"}
Flights(jb) == {x \in Handlers \X (1..3) : Flying(jb[x[1]]) /\ x[2] <= Weight(jb[x[1]])}
Debts(jb)   == {x \in Handlers \X (1..3) : Owing(jb[x[1]]) /\ x[2] <= Weight(jb[x[1]])}

LEMMA FlyingIs ==
    ASSUME NEW j, MeteredJob(j)
    PROVE  /\ Owing(j) => Flying(j)
           /\ Flying(j) => j.reading = "NO" /\ Weight(j) \in 1..3
<1>1. CheckAt(j.kind) \in 1..4 /\ SaveAt(j.kind) \in 4..6 /\ CheckAt(j.kind) <= SaveAt(j.kind)
  BY DEF CheckAt, SaveAt
<1>2. Owing(j) => Flying(j)
  BY <1>1 DEF Owing, Flying
<1>3. Flying(j) => j.reading = "NO" /\ Weight(j) \in 1..3
  BY <1>1 DEF Flying, MeteredJob
<1> QED BY <1>2, <1>3

\* The uses of a request that is in flight, or owes.
Flown(j) == IF Flying(j) THEN Weight(j) ELSE 0
Due(j)   == IF Owing(j) THEN Weight(j) ELSE 0

\* One request changes: what is in flight, what is owed, who is free.
Changes(jb, h, i, j, jc) ==
    Metered(jb) /\ h \in Handlers /\ i = jb[h] /\ MeteredJob(j) /\ jc = [jb EXCEPT ![h] = j]
Tallied(jb, h, i, j, jc) ==
    /\ Metered(jc) /\ jc[h] = j /\ \A g \in Handlers : g # h => jc[g] = jb[g]
    /\ Cardinality(Flights(jb)) \in Nat /\ Cardinality(Flights(jc)) \in Nat
    /\ Cardinality(Debts(jb)) \in Nat /\ Cardinality(Debts(jc)) \in Nat
    /\ Cardinality(Flights(jc)) + Flown(i)
           = Cardinality(Flights(jb)) + Flown(j)
    /\ Cardinality(Debts(jc)) + Due(i)
           = Cardinality(Debts(jb)) + Due(j)
    /\ (i.reading = "NO" <=> j.reading = "NO") => FreeOf(jc) = FreeOf(jb)
    /\ i.reading # "NO" /\ j.reading = "NO" =>
           Cardinality(FreeOf(jc)) = Cardinality(FreeOf(jb)) + 1
LEMMA Tally ==
    ASSUME NEW jb, NEW h, NEW i, NEW j, NEW jc, Changes(jb, h, i, j, jc)
    PROVE  Tallied(jb, h, i, j, jc)
<1> USE DEF Changes, Tallied
<1>1. /\ jc = [g \in Handlers |-> jc[g]] /\ jc[h] = j
      /\ \A g \in Handlers : g # h => jc[g] = jb[g]
  BY DEF Metered
<1>2. Metered(jc)
  BY <1>1 DEF Metered
<1>3. MeteredJob(i)
  BY DEF Metered
<1>4. /\ Cardinality(Flights(jb)) \in Nat /\ Cardinality(Flights(jc)) \in Nat
      /\ Cardinality(Flights(jc)) + Flown(i) = Cardinality(Flights(jb)) + Flown(j)
  <2>1. PICK d, e \in 0..3 : d = Flown(i) /\ e = Flown(j)
    BY <1>3, FlyingIs DEF Flown, Due
  <2>2. PICK A, E : A = Flights(jb) /\ E = Flights(jc)
    OBVIOUS
  <2>3. A \in SUBSET (Handlers \X (1..3)) /\ E \in SUBSET (Handlers \X (1..3))
    BY <2>2 DEF Flights
  <2>4. ASSUME NEW g \in Handlers, NEW n \in 1..3
        PROVE  IF g = h THEN (<<g, n>> \in A <=> n <= d) /\ (<<g, n>> \in E <=> n <= e)
                        ELSE <<g, n>> \in A <=> <<g, n>> \in E
    <3>1. <<g, n>> \in A <=> Flying(jb[g]) /\ n <= Weight(jb[g])
      BY <2>2 DEF Flights
    <3>2. <<g, n>> \in E <=> Flying(jc[g]) /\ n <= Weight(jc[g])
      BY <2>2 DEF Flights
    <3>3. CASE g = h
      <4>1. (n <= d) <=> Flying(i) /\ n <= Weight(i)
        BY <2>1 DEF Flown, Due
      <4>2. (n <= e) <=> Flying(j) /\ n <= Weight(j)
        BY <2>1 DEF Flown, Due
      <4> QED BY <1>1, <3>1, <3>2, <3>3, <4>1, <4>2
    <3> QED BY <1>1, <3>1, <3>2, <3>3
  <2>5. h \in Handlers /\ d \in 0..3 /\ e \in 0..3 /\ Exchange(A, E, h, d, e)
    BY <2>1, <2>3, <2>4 DEF Exchange
  <2>6. Cardinality(A) \in Nat /\ Cardinality(E) \in Nat /\ Cardinality(E) + d = Cardinality(A) + e
    BY <2>5, UnitsMove
  <2> QED BY <2>2, <2>6, <2>1
<1>5. /\ Cardinality(Debts(jb)) \in Nat /\ Cardinality(Debts(jc)) \in Nat
      /\ Cardinality(Debts(jc)) + Due(i) = Cardinality(Debts(jb)) + Due(j)
  <2>1. PICK s, t \in 0..3 : s = Due(i) /\ t = Due(j)
    BY <1>3, FlyingIs DEF Flown, Due
  <2>2. PICK A, E : A = Debts(jb) /\ E = Debts(jc)
    OBVIOUS
  <2>3. A \in SUBSET (Handlers \X (1..3)) /\ E \in SUBSET (Handlers \X (1..3))
    BY <2>2 DEF Debts
  <2>4. ASSUME NEW g \in Handlers, NEW n \in 1..3
        PROVE  IF g = h THEN (<<g, n>> \in A <=> n <= s) /\ (<<g, n>> \in E <=> n <= t)
                        ELSE <<g, n>> \in A <=> <<g, n>> \in E
    <3>1. <<g, n>> \in A <=> Owing(jb[g]) /\ n <= Weight(jb[g])
      BY <2>2 DEF Debts
    <3>2. <<g, n>> \in E <=> Owing(jc[g]) /\ n <= Weight(jc[g])
      BY <2>2 DEF Debts
    <3>3. CASE g = h
      <4>1. (n <= s) <=> Owing(i) /\ n <= Weight(i)
        BY <2>1 DEF Flown, Due
      <4>2. (n <= t) <=> Owing(j) /\ n <= Weight(j)
        BY <2>1 DEF Flown, Due
      <4> QED BY <1>1, <3>1, <3>2, <3>3, <4>1, <4>2
    <3> QED BY <1>1, <3>1, <3>2, <3>3
  <2>5. h \in Handlers /\ s \in 0..3 /\ t \in 0..3 /\ Exchange(A, E, h, s, t)
    BY <2>1, <2>3, <2>4 DEF Exchange
  <2>6. Cardinality(A) \in Nat /\ Cardinality(E) \in Nat /\ Cardinality(E) + s = Cardinality(A) + t
    BY <2>5, UnitsMove
  <2> QED BY <2>2, <2>6, <2>1
<1>6. (i.reading = "NO" <=> j.reading = "NO") => FreeOf(jc) = FreeOf(jb)
  BY <1>1 DEF FreeOf
<1>7. ASSUME i.reading # "NO", j.reading = "NO"
      PROVE  Cardinality(FreeOf(jc)) = Cardinality(FreeOf(jb)) + 1
  <2>1. FreeOf(jb) \in SUBSET Handlers /\ h \in Handlers \ FreeOf(jb) /\ FreeOf(jc) = FreeOf(jb) \cup {h}
    BY <1>1, <1>7 DEF FreeOf
  <2> QED BY <2>1, OneJoins
<1> QED BY <1>1, <1>2, <1>4, <1>5, <1>6, <1>7

\* Only free requests are in flight, each with no more than the limit, or any request's uses.
LEMMA FlightsAre ==
    ASSUME NEW jb, Metered(jb), NEW d \in Nat, \A h \in Handlers : Flying(jb[h]) => Weight(jb[h]) <= d
    PROVE  /\ Cardinality(Flights(jb)) \in Nat /\ Cardinality(FreeOf(jb)) \in 0..Cardinality(Handlers)
           /\ Cardinality(Handlers) \in Nat
           /\ Cardinality(Debts(jb)) \in 0..Cardinality(Flights(jb))
           /\ Cardinality(Flights(jb)) <= Cardinality(FreeOf(jb)) * d
<1>1. \A h \in Handlers : Flying(jb[h]) => jb[h].reading = "NO"
  BY FlyingIs DEF Metered
<1>2. FreeOf(jb) \in SUBSET Handlers
  BY DEF FreeOf
<1>3. IsFiniteSet(FreeOf(jb)) /\ Cardinality(FreeOf(jb)) <= Cardinality(Handlers)
  BY <1>2, FewRequests, FS_Subset
<1>4. Flights(jb) \in SUBSET (FreeOf(jb) \X (1..d))
  <2>1. ASSUME NEW x \in Flights(jb) PROVE x \in FreeOf(jb) \X (1..d)
    <3>1. PICK h \in Handlers, n \in 1..3 : x = <<h, n>> /\ Flying(jb[h]) /\ n <= Weight(jb[h])
      BY DEF Flights
    <3>2. n \in 1..d
      <4>1. Weight(jb[h]) \in 1..3 /\ Weight(jb[h]) <= d
        BY <3>1, FlyingIs DEF Metered
      <4> QED BY <3>1, <4>1
    <3>3. h \in FreeOf(jb)
      BY <1>1, <3>1 DEF FreeOf
    <3> QED BY <3>1, <3>2, <3>3
  <2> QED BY <2>1
<1>5. /\ IsFiniteSet(Flights(jb)) /\ Cardinality(Flights(jb)) \in Nat /\ Cardinality(FreeOf(jb)) \in Nat
      /\ Cardinality(Flights(jb)) <= Cardinality(FreeOf(jb)) * d
  BY <1>3, <1>4, UnitsWithin
<1>6. Debts(jb) \in SUBSET Flights(jb)
  BY FlyingIs DEF Debts, Flights, Metered
<1>7. Cardinality(Debts(jb)) <= Cardinality(Flights(jb)) /\ IsFiniteSet(Debts(jb))
  BY <1>5, <1>6, FS_Subset
<1>8. Cardinality(Debts(jb)) \in Nat /\ Cardinality(Handlers) \in Nat
  BY <1>7, FewRequests, FS_CardinalityType
<1> QED BY <1>3, <1>5, <1>7, <1>8

\* A request that is not in flight leaves room for the others.
LEMMA OthersFly ==
    ASSUME NEW jb, Metered(jb), NEW d \in Nat, \A h \in Handlers : Flying(jb[h]) => Weight(jb[h]) <= d,
           NEW g \in Handlers, ~Flying(jb[g]), jb[g].reading = "NO"
    PROVE  \E j \in Nat : /\ Cardinality(FreeOf(jb)) = j + 1 /\ j * d \in Nat
                          /\ Cardinality(Flights(jb)) <= j * d
<1>1. \A h \in Handlers : Flying(jb[h]) => jb[h].reading = "NO"
  BY FlyingIs DEF Metered
<1>2. PICK S : S = FreeOf(jb) \ {g}
  OBVIOUS
<1>3. S \in SUBSET Handlers /\ g \in Handlers \ S /\ FreeOf(jb) = S \cup {g}
  BY <1>2 DEF FreeOf
<1>4. IsFiniteSet(S)
  BY <1>3, FewRequests, FS_Subset
<1>5. Cardinality(FreeOf(jb)) = Cardinality(S) + 1 /\ Cardinality(S) \in Nat
  BY <1>3, OneJoins
<1>6. Flights(jb) \in SUBSET (S \X (1..d))
  <2>1. ASSUME NEW x \in Flights(jb) PROVE x \in S \X (1..d)
    <3>1. PICK h \in Handlers, n \in 1..3 : x = <<h, n>> /\ Flying(jb[h]) /\ n <= Weight(jb[h])
      BY DEF Flights
    <3>2. n \in 1..d
      <4>1. Weight(jb[h]) \in 1..3 /\ Weight(jb[h]) <= d
        BY <3>1, FlyingIs DEF Metered
      <4> QED BY <3>1, <4>1
    <3>3. h \in S
      BY <1>1, <1>2, <3>1 DEF FreeOf
    <3> QED BY <3>1, <3>2, <3>3
  <2> QED BY <2>1
<1>7. Cardinality(S) * d \in Nat /\ Cardinality(Flights(jb)) <= Cardinality(S) * d
  BY <1>4, <1>6, UnitsWithin
<1> QED BY <1>5, <1>7

-----------------------------------------------------------------------------
(* The books: requests jb; Redis answers or not (on); the counts c and m, the table us with
   the upserts pe under way, what is delivered d; the limit l, the most a request uses k; and
   what may be delivered, lim. *)
InFlight(jb)   == Cardinality(Flights(jb))
Owed(jb)       == Cardinality(Debts(jb))
Free(jb, l, k) == Depth(Cardinality(FreeOf(jb)), l, k)
Wide(jb, l, k) == Width(Cardinality(FreeOf(jb)), l, k)
Whole(l, k)    == Depth(Cardinality(Handlers), l, k)
Widest(l, k)   == Width(Cardinality(Handlers), l, k)
Room(jb, on, c, m, l, k) ==
    ToCome(on, c, m, Whole(l, k), Free(jb, l, k), Wide(jb, l, k), Widest(l, k), InFlight(jb))

Entries(jb, on, c, m, l, k) ==
    /\ Metered(jb) /\ on \in BOOLEAN /\ c \in Nat \cup {-1} /\ m \in Nat \cup {-1} /\ l \in Nat /\ k \in Nat
    /\ \A h \in Handlers : Flying(jb[h]) => Weight(jb[h]) <= l /\ Weight(jb[h]) <= k
Charged(jb, c, m, us, pe, d) ==
    /\ us \in Nat /\ pe \in Nat /\ d \in Nat
    /\ c + Owed(jb) <= d /\ m + Owed(jb) <= d /\ us + pe + Owed(jb) <= d
    /\ \A h \in Handlers : jb[h].used + Owed(jb) <= d
Within(jb, on, c, m, d, l, k, lim) ==
    lim \in Nat /\ d + InFlight(jb) + Room(jb, on, c, m, l, k) <= lim + Owed(jb)
Books(jb, on, c, m, us, pe, d, l, k, lim) ==
    Entries(jb, on, c, m, l, k) /\ Charged(jb, c, m, us, pe, d) /\ Within(jb, on, c, m, d, l, k, lim)

\* The numbers behind them.
Sums(jb, on, c, m, l, k) ==
    /\ Counts(on, c, m, Whole(l, k), Free(jb, l, k), Wide(jb, l, k), Widest(l, k), InFlight(jb))
    /\ InFlight(jb) <= Free(jb, l, k) /\ Owed(jb) \in Nat /\ Owed(jb) <= InFlight(jb)
    /\ \/ Free(jb, l, k) = Whole(l, k) /\ Wide(jb, l, k) = Widest(l, k)
       \/ Free(jb, l, k) + Widest(l, k) <= Whole(l, k)
    /\ Room(jb, on, c, m, l, k) \in Nat

LEMMA SumsAre ==
    ASSUME NEW jb, NEW on, NEW c, NEW m, NEW l, NEW k, Entries(jb, on, c, m, l, k)
    PROVE  Sums(jb, on, c, m, l, k)
<1>1. /\ l \in Nat /\ k \in Nat /\ Metered(jb)
      /\ \A g \in Handlers : Flying(jb[g]) => Weight(jb[g]) <= l
  BY DEF Entries
<1>2. PICK f, v, n, j \in Nat : /\ f = InFlight(jb) /\ v = Owed(jb) /\ n = Cardinality(Handlers)
                                /\ j = Cardinality(FreeOf(jb)) /\ v <= f /\ f <= j * l /\ j <= n
  <2>1. Cardinality(Debts(jb)) \in Nat /\ Cardinality(Debts(jb)) <= Cardinality(Flights(jb))
    BY <1>1, FlightsAre
  <2> QED BY <1>1, <2>1, FlightsAre DEF InFlight, Owed
<1>3. j \in 0..n
  BY <1>2
<1>4. PICK b, h, w, x \in Nat : /\ b = Depth(n, l, k) /\ h = Depth(j, l, k)
                                /\ x = Width(n, l, k) /\ w = Width(j, l, k)
  BY <1>1, <1>2, DepthIs, WidthIs
<1>5. j * l \in Nat /\ j * l <= h /\ w <= h /\ x <= b
  BY <1>1, <1>2, <1>4, DepthIs
<1>6. w <= x
  <2>1. \A i \in 0..n : Width(i, l, k) <= Width(n, l, k)
    BY <1>1, <1>2, WidthIs
  <2> QED BY <1>3, <1>4, <2>1
<1>7. h <= b /\ (j # n => h + x <= b)
  <2>1. Depth(j, l, k) <= Depth(n, l, k) /\ (j # n => Depth(j, l, k) + Width(n, l, k) <= Depth(n, l, k))
    BY <1>1, <1>2, <1>3, DepthGrows
  <2> QED BY <1>4, <2>1
<1>8. Counts(on, c, m, b, h, w, x, f)
  BY <1>2, <1>4, <1>5, <1>6, <1>7 DEF Counts, Entries
<1>9. (h = b /\ w = x) \/ h + x <= b
  BY <1>4, <1>7
<1>10. f <= h
  BY <1>2, <1>4, <1>5
<1>11. b = Whole(l, k) /\ h = Free(jb, l, k) /\ w = Wide(jb, l, k) /\ x = Widest(l, k)
  BY <1>2, <1>4 DEF Whole, Free, Wide, Widest
<1>12. ToCome(on, c, m, b, h, w, x, f) \in Nat
  BY <1>2, <1>4, <1>8, SomeToCome
<1>13. Room(jb, on, c, m, l, k) \in Nat
  BY <1>2, <1>11, <1>12 DEF Room
<1> QED BY <1>2, <1>8, <1>9, <1>10, <1>11, <1>13 DEF Sums

\* One request changes from i to j, and with it what is in flight and what is owed.
Turns(jb, on, c, m, l, k, g, i, j, jc, y, z) ==
    /\ Entries(jb, on, c, m, l, k) /\ g \in Handlers /\ i = jb[g] /\ MeteredJob(j)
    /\ Flying(j) => Weight(j) <= l /\ Weight(j) <= k
    /\ y \in Nat \cup {-1} /\ z \in Nat \cup {-1} /\ jc = [jb EXCEPT ![g] = j]
Turned(jb, on, c, m, l, k, g, i, j, jc, y, z) ==
    /\ Entries(jc, on, y, z, l, k) /\ Sums(jb, on, c, m, l, k) /\ Sums(jc, on, y, z, l, k)
    /\ InFlight(jc) + Flown(i) = InFlight(jb) + Flown(j)
    /\ Owed(jc) + Due(i) = Owed(jb) + Due(j)
    /\ (i.reading = "NO" <=> j.reading = "NO") =>
           Free(jc, l, k) = Free(jb, l, k) /\ Wide(jc, l, k) = Wide(jb, l, k)
    /\ (i.reading # "NO" /\ j.reading = "NO") => Free(jc, l, k) = Free(jb, l, k) + Wide(jc, l, k)
    /\ MeteredJob(i) /\ jc[g] = j /\ \A q \in Handlers : q # g => jc[q] = jb[q]
LEMMA OneChanges ==
    ASSUME NEW jb, NEW on, NEW c, NEW m, NEW l, NEW k, NEW g, NEW i, NEW j, NEW jc, NEW y, NEW z,
           Turns(jb, on, c, m, l, k, g, i, j, jc, y, z)
    PROVE  Turned(jb, on, c, m, l, k, g, i, j, jc, y, z)
<1> USE DEF Turns, Turned
<1>1. Metered(jb) /\ l \in Nat /\ k \in Nat
  BY DEF Entries
<1>2. MeteredJob(i)
  BY <1>1 DEF Metered
<1>3. /\ Metered(jc) /\ jc[g] = j /\ \A q \in Handlers : q # g => jc[q] = jb[q]
      /\ Cardinality(Flights(jc)) + Flown(i) = Cardinality(Flights(jb)) + Flown(j)
      /\ Cardinality(Debts(jc)) + Due(i) = Cardinality(Debts(jb)) + Due(j)
      /\ (i.reading = "NO" <=> j.reading = "NO") => FreeOf(jc) = FreeOf(jb)
      /\ (i.reading # "NO" /\ j.reading = "NO") => Cardinality(FreeOf(jc)) = Cardinality(FreeOf(jb)) + 1
  <2>1. Changes(jb, g, i, j, jc)
    BY <1>1 DEF Changes
  <2>2. Tallied(jb, g, i, j, jc)
    BY <2>1, Tally
  <2> QED BY <2>2 DEF Tallied
<1>4. Entries(jc, on, y, z, l, k)
  BY <1>3 DEF Entries
<1>5. Sums(jb, on, c, m, l, k) /\ Sums(jc, on, y, z, l, k)
  BY <1>4, SumsAre
<1>6. (i.reading = "NO" <=> j.reading = "NO") =>
          Free(jc, l, k) = Free(jb, l, k) /\ Wide(jc, l, k) = Wide(jb, l, k)
  BY <1>3 DEF Free, Wide
<1>7. ASSUME i.reading # "NO", j.reading = "NO" PROVE Free(jc, l, k) = Free(jb, l, k) + Wide(jc, l, k)
  <2>1. PICK n \in Nat : n = Cardinality(FreeOf(jb)) /\ Cardinality(FreeOf(jc)) = n + 1
    <3>1. IsFiniteSet(FreeOf(jb))
      BY FewRequests, FS_Subset DEF FreeOf
    <3> QED BY <1>3, <1>7, <3>1, FS_CardinalityType
  <2>2. Depth(n + 1, l, k) = Depth(n, l, k) + Width(n + 1, l, k)
    BY <1>1, <2>1, DepthIs
  <2> QED BY <2>1, <2>2 DEF Free, Wide
<1>8. /\ InFlight(jc) + Flown(i) = InFlight(jb) + Flown(j)
      /\ Owed(jc) + Due(i) = Owed(jb) + Due(j)
  BY <1>3 DEF InFlight, Owed
<1> QED BY <1>2, <1>3, <1>4, <1>5, <1>6, <1>7, <1>8

\* What a request that is in flight, or owes, adds.
LEMMA FlownIs ==
    ASSUME NEW j, MeteredJob(j)
    PROVE  /\ Flown(j) \in 0..3 /\ Due(j) \in 0..3 /\ Due(j) <= Flown(j)
           /\ Flying(j) => Flown(j) = Weight(j) /\ Flown(j) \in 1..3 /\ j.reading = "NO"
           /\ ~Flying(j) => Flown(j) = 0 /\ Due(j) = 0
           /\ Owing(j) => Due(j) = Weight(j) /\ Flying(j)
           /\ ~Owing(j) => Due(j) = 0
BY FlyingIs DEF Flown, Due

\* Who owes less is still charged no more than was delivered.
LEMMA ChargedStays ==
    ASSUME NEW jb, NEW jc, NEW c \in Nat \cup {-1}, NEW m \in Nat \cup {-1}, NEW us, NEW pe, NEW d,
           Charged(jb, c, m, us, pe, d), Owed(jc) \in Nat, Owed(jb) \in Nat, Owed(jc) <= Owed(jb),
           \A q \in Handlers : /\ jc[q].used \in Nat /\ jb[q].used \in Nat
                               /\ jc[q].used <= jb[q].used \/ jc[q].used = us
    PROVE  Charged(jc, c, m, us, pe, d)
<1>1. PICK v, w \in Nat : v = Owed(jb) /\ w = Owed(jc) /\ w <= v
  OBVIOUS
<1>2. us \in Nat /\ pe \in Nat /\ d \in Nat /\ c + v <= d /\ m + v <= d /\ us + pe + v <= d
  BY <1>1 DEF Charged
<1>3. c + w <= d /\ m + w <= d /\ us + pe + w <= d
  BY <1>1, <1>2
<1>4. ASSUME NEW q \in Handlers PROVE jc[q].used + w <= d
  <2>1. jb[q].used + v <= d
    BY <1>1 DEF Charged
  <2> QED BY <1>1, <1>2, <2>1
<1> QED BY <1>1, <1>2, <1>3, <1>4 DEF Charged

(* The request ends, or gives up: what it uses is not charged. *)
LEMMA BooksEnd ==
    ASSUME NEW jb, NEW on, NEW c, NEW m, NEW us, NEW pe, NEW d, NEW l, NEW k, NEW lim,
           Books(jb, on, c, m, us, pe, d, l, k, lim), NEW g \in Handlers, NEW i, i = jb[g],
           NEW j, MeteredJob(j), ~Flying(j), j.reading = "NO", j.used \in 0..i.used,
           NEW jc, jc = [jb EXCEPT ![g] = j]
    PROVE  Books(jc, on, c, m, us, pe, d, l, k, lim + Due(i))
<1>1. Entries(jb, on, c, m, l, k) /\ Charged(jb, c, m, us, pe, d) /\ Within(jb, on, c, m, d, l, k, lim)
  BY DEF Books
<1>2. Turned(jb, on, c, m, l, k, g, i, j, jc, c, m)
  <2>1. Turns(jb, on, c, m, l, k, g, i, j, jc, c, m)
    BY <1>1 DEF Turns, Entries
  <2> QED BY <2>1, OneChanges
<1>3. /\ Entries(jc, on, c, m, l, k) /\ MeteredJob(i) /\ jc[g] = j /\ \A q \in Handlers : q # g => jc[q] = jb[q]
      /\ InFlight(jc) + Flown(i) = InFlight(jb) + Flown(j) /\ Owed(jc) + Due(i) = Owed(jb) + Due(j)
      /\ InFlight(jc) \in Nat /\ InFlight(jb) \in Nat /\ Owed(jc) \in Nat /\ Owed(jb) \in Nat
      /\ Room(jb, on, c, m, l, k) \in Nat /\ Room(jc, on, c, m, l, k) \in Nat
  BY <1>2 DEF Turned, Sums, Counts
<1>4. /\ Flown(j) = 0 /\ Due(j) = 0 /\ Flown(i) \in Nat /\ Due(i) \in Nat /\ Due(i) <= Flown(i)
      /\ i.reading # "NO" => Flown(i) = 0 /\ Due(i) = 0
  BY <1>3, FlownIs
<1>5. Room(jc, on, c, m, l, k) <= Room(jb, on, c, m, l, k) + Flown(i)
  <2>1. CASE i.reading = "NO"
    <3>1. /\ Counts(on, c, m, Whole(l, k), Free(jb, l, k), Wide(jb, l, k), Widest(l, k), InFlight(jb))
          /\ Free(jc, l, k) = Free(jb, l, k) /\ Wide(jc, l, k) = Wide(jb, l, k)
      BY <1>2, <2>1 DEF Turned, Sums
    <3>2. InFlight(jb) = InFlight(jc) + Flown(i)
      BY <1>3, <1>4
    <3> QED BY <1>3, <1>4, <3>1, <3>2, LessInFlight DEF Room
  <2>2. CASE i.reading # "NO"
    <3>1. InFlight(jc) = InFlight(jb)
      BY <1>3, <1>4, <2>2
    <3>2. /\ Counts(on, c, m, Whole(l, k), Free(jb, l, k), Wide(jb, l, k), Widest(l, k), InFlight(jb))
          /\ Counts(on, c, m, Whole(l, k), Free(jc, l, k), Wide(jc, l, k), Widest(l, k), InFlight(jb))
          /\ Free(jc, l, k) = Free(jb, l, k) + Wide(jc, l, k)
      BY <1>2, <2>2, <3>1 DEF Turned, Sums
    <3>3. Room(jc, on, c, m, l, k) <= Room(jb, on, c, m, l, k)
      BY <3>1, <3>2, OneMoreFree DEF Room
    <3> QED BY <1>3, <1>4, <2>2, <3>3
  <2> QED BY <2>1, <2>2
<1>6. Within(jc, on, c, m, d, l, k, lim + Due(i))
  BY <1>1, <1>3, <1>4, <1>5 DEF Within, Charged
<1>7. Charged(jc, c, m, us, pe, d)
  <2>1. Owed(jc) <= Owed(jb)
    BY <1>3, <1>4
  <2>2. \A q \in Handlers : jc[q].used <= jb[q].used /\ jc[q].used \in Nat /\ jb[q].used \in Nat
    BY <1>1, <1>3 DEF Entries, Metered, MeteredJob
  <2>3. c \in Nat \cup {-1} /\ m \in Nat \cup {-1}
    BY <1>1 DEF Entries
  <2> QED BY <1>1, <1>3, <2>1, <2>2, <2>3, ChargedStays
<1> QED BY <1>3, <1>6, <1>7 DEF Books

(* Neither what is in flight nor what is owed changes. *)
LEMMA BooksKeep ==
    ASSUME NEW jb, NEW on, NEW c, NEW m, NEW us, NEW pe, NEW d, NEW l, NEW k, NEW lim,
           Books(jb, on, c, m, us, pe, d, l, k, lim), NEW g \in Handlers, NEW i, i = jb[g],
           NEW j, MeteredJob(j), Flown(j) = Flown(i), Due(j) = Due(i),
           j.reading = "NO" <=> i.reading = "NO", j.used \in 0..i.used \/ j.used = us,
           NEW jc, jc = [jb EXCEPT ![g] = j]
    PROVE  Books(jc, on, c, m, us, pe, d, l, k, lim)
<1>1. Entries(jb, on, c, m, l, k) /\ Charged(jb, c, m, us, pe, d) /\ Within(jb, on, c, m, d, l, k, lim)
  BY DEF Books
<1>2. Turned(jb, on, c, m, l, k, g, i, j, jc, c, m)
  <2>1. Flying(j) => Weight(j) <= l /\ Weight(j) <= k
    <3>1. MeteredJob(i)
      BY <1>1 DEF Entries, Metered
    <3>2. Flying(j) => Flying(i) /\ Weight(j) = Weight(i)
      BY <3>1, FlownIs
    <3> QED BY <1>1, <3>2 DEF Entries
  <2>2. Turns(jb, on, c, m, l, k, g, i, j, jc, c, m)
    BY <1>1, <2>1 DEF Turns, Entries
  <2> QED BY <2>2, OneChanges
<1>3. /\ Entries(jc, on, c, m, l, k) /\ MeteredJob(i) /\ jc[g] = j /\ \A q \in Handlers : q # g => jc[q] = jb[q]
      /\ InFlight(jc) + Flown(i) = InFlight(jb) + Flown(j) /\ Owed(jc) + Due(i) = Owed(jb) + Due(j)
      /\ InFlight(jc) \in Nat /\ InFlight(jb) \in Nat /\ Owed(jc) \in Nat /\ Owed(jb) \in Nat
      /\ Free(jc, l, k) = Free(jb, l, k) /\ Wide(jc, l, k) = Wide(jb, l, k)
  BY <1>2 DEF Turned, Sums, Counts
<1>4. InFlight(jc) = InFlight(jb) /\ Owed(jc) = Owed(jb)
  BY <1>3, FlownIs
<1>5. Room(jc, on, c, m, l, k) = Room(jb, on, c, m, l, k)
  BY <1>3, <1>4 DEF Room
<1>6. Within(jc, on, c, m, d, l, k, lim)
  BY <1>1, <1>4, <1>5 DEF Within
<1>7. Charged(jc, c, m, us, pe, d)
  <2>1. \A q \in Handlers : jc[q].used \in Nat /\ jb[q].used \in Nat /\ (jc[q].used <= jb[q].used \/ jc[q].used = us)
    BY <1>1, <1>3 DEF Entries, Metered, MeteredJob
  <2>2. c \in Nat \cup {-1} /\ m \in Nat \cup {-1}
    BY <1>1 DEF Entries
  <2>3. Owed(jc) <= Owed(jb)
    BY <1>3, <1>4
  <2> QED BY <1>1, <1>3, <2>1, <2>2, <2>3, ChargedStays
<1> QED BY <1>3, <1>6, <1>7 DEF Books

(* The count is missing, and the request goes to the table. *)
LEMMA BooksMiss ==
    ASSUME NEW jb, NEW on, NEW c, NEW m, NEW us, NEW pe, NEW d, NEW l, NEW k, NEW lim,
           Books(jb, on, c, m, us, pe, d, l, k, lim), NEW g \in Handlers, NEW i, i = jb[g],
           NEW j, MeteredJob(j), ~Flying(j), ~Flying(i), j.used \in 0..i.used, (IF on THEN c ELSE m) = -1,
           NEW jc, jc = [jb EXCEPT ![g] = j]
    PROVE  Books(jc, on, c, m, us, pe, d, l, k, lim)
<1>1. Entries(jb, on, c, m, l, k) /\ Charged(jb, c, m, us, pe, d) /\ Within(jb, on, c, m, d, l, k, lim)
  BY DEF Books
<1>2. Turned(jb, on, c, m, l, k, g, i, j, jc, c, m)
  <2>1. Turns(jb, on, c, m, l, k, g, i, j, jc, c, m)
    BY <1>1 DEF Turns, Entries
  <2> QED BY <2>1, OneChanges
<1>3. /\ Entries(jc, on, c, m, l, k) /\ MeteredJob(i) /\ jc[g] = j /\ \A q \in Handlers : q # g => jc[q] = jb[q]
      /\ InFlight(jc) + Flown(i) = InFlight(jb) + Flown(j) /\ Owed(jc) + Due(i) = Owed(jb) + Due(j)
      /\ InFlight(jc) \in Nat /\ InFlight(jb) \in Nat /\ Owed(jc) \in Nat /\ Owed(jb) \in Nat
  BY <1>2 DEF Turned, Sums, Counts
<1>4. InFlight(jc) = InFlight(jb) /\ Owed(jc) = Owed(jb)
  BY <1>3, FlownIs
<1>5. Room(jc, on, c, m, l, k) = Room(jb, on, c, m, l, k)
  BY <1>4, NoneRead DEF Room
<1>6. Within(jc, on, c, m, d, l, k, lim)
  BY <1>1, <1>4, <1>5 DEF Within
<1>7. Charged(jc, c, m, us, pe, d)
  <2>1. \A q \in Handlers : jc[q].used \in Nat /\ jb[q].used \in Nat /\ jc[q].used <= jb[q].used
    BY <1>1, <1>3 DEF Entries, Metered, MeteredJob
  <2>2. c \in Nat \cup {-1} /\ m \in Nat \cup {-1}
    BY <1>1 DEF Entries
  <2>3. Owed(jc) <= Owed(jb)
    BY <1>3, <1>4
  <2> QED BY <1>1, <1>3, <2>1, <2>2, <2>3, ChargedStays
<1> QED BY <1>3, <1>6, <1>7 DEF Books

(* A request passes its last check. *)
LEMMA BooksPass ==
    ASSUME NEW jb, NEW on, NEW c, NEW m, NEW us, NEW pe, NEW d, NEW l, NEW k, NEW lim,
           Books(jb, on, c, m, us, pe, d, l, k, lim), NEW g \in Handlers, NEW i, i = jb[g],
           i.reading = "NO", ~Flying(i),
           NEW j, MeteredJob(j), Flying(j), ~Owing(j), j.used \in 0..i.used,
           NEW v \in Nat, v = (IF on THEN c ELSE m), v + Weight(j) <= l, Weight(j) <= k,
           NEW jc, jc = [jb EXCEPT ![g] = j]
    PROVE  Books(jc, on, c, m, us, pe, d, l, k, lim)
<1>1. Entries(jb, on, c, m, l, k) /\ Charged(jb, c, m, us, pe, d) /\ Within(jb, on, c, m, d, l, k, lim)
  BY DEF Books
<1>2. Turned(jb, on, c, m, l, k, g, i, j, jc, c, m)
  <2>1. l \in Nat
    BY <1>1 DEF Entries
  <2>2. Weight(j) <= l /\ Weight(j) <= k
    BY <2>1, FlyingIs
  <2>3. Turns(jb, on, c, m, l, k, g, i, j, jc, c, m)
    BY <1>1, <2>2 DEF Turns, Entries
  <2> QED BY <2>3, OneChanges
<1>3. PICK f, e, x, y \in Nat :
          /\ f = InFlight(jb) /\ e = Weight(j) /\ InFlight(jc) = f + e
          /\ x = Owed(jb) /\ Owed(jc) = x /\ y = Room(jb, on, c, m, l, k)
          /\ Room(jc, on, c, m, l, k) \in Nat
  <2>1. /\ InFlight(jc) + Flown(i) = InFlight(jb) + Flown(j) /\ Owed(jc) + Due(i) = Owed(jb) + Due(j)
        /\ InFlight(jc) \in Nat /\ InFlight(jb) \in Nat /\ Owed(jc) \in Nat /\ Owed(jb) \in Nat
        /\ Room(jb, on, c, m, l, k) \in Nat /\ Room(jc, on, c, m, l, k) \in Nat /\ MeteredJob(i)
    BY <1>2 DEF Turned, Sums, Counts
  <2>2. Flown(i) = 0 /\ Due(i) = 0 /\ Flown(j) = Weight(j) /\ Weight(j) \in 1..3 /\ Due(j) = 0
    BY <2>1, FlownIs
  <2> QED BY <2>1, <2>2
<1>4. /\ Entries(jc, on, c, m, l, k) /\ jc[g] = j /\ \A q \in Handlers : q # g => jc[q] = jb[q]
      /\ Counts(on, c, m, Whole(l, k), Free(jb, l, k), Wide(jb, l, k), Widest(l, k), f)
      /\ Free(jc, l, k) = Free(jb, l, k) /\ Wide(jc, l, k) = Wide(jb, l, k)
  <2>1. j.reading = "NO"
    BY FlyingIs
  <2> QED BY <1>2, <1>3, <2>1 DEF Turned, Sums
<1>5. v + f + e <= Wide(jb, l, k)
  <2>1. l \in Nat /\ k \in Nat /\ Metered(jb) /\ \A q \in Handlers : Flying(jb[q]) => Weight(jb[q]) <= k
    BY <1>1 DEF Entries
  <2>2. PICK n \in Nat : Cardinality(FreeOf(jb)) = n + 1 /\ n * k \in Nat /\ f <= n * k
    BY <1>3, <2>1, OthersFly DEF InFlight
  <2>3. Wide(jb, l, k) = l + n * k
    BY <2>1, <2>2, WidthIs DEF Wide
  <2>4. v + e <= l
    BY <1>3
  <2> QED BY <1>3, <2>1, <2>2, <2>3, <2>4
<1>6. Room(jc, on, c, m, l, k) + e <= y
  <2>1. ToCome(on, c, m, Whole(l, k), Free(jb, l, k), Wide(jb, l, k), Widest(l, k), f + e) + e
            <= ToCome(on, c, m, Whole(l, k), Free(jb, l, k), Wide(jb, l, k), Widest(l, k), f)
    BY <1>3, <1>4, <1>5, OnePasses
  <2> QED BY <1>3, <1>4, <2>1 DEF Room
<1>7. Within(jc, on, c, m, d, l, k, lim)
  BY <1>1, <1>3, <1>6 DEF Within, Charged
<1>8. Charged(jc, c, m, us, pe, d)
  <2>1. \A q \in Handlers : jc[q].used \in Nat /\ jb[q].used \in Nat /\ jc[q].used <= jb[q].used
    BY <1>1, <1>4 DEF Entries, Metered, MeteredJob
  <2>2. c \in Nat \cup {-1} /\ m \in Nat \cup {-1}
    BY <1>1 DEF Entries
  <2>3. Owed(jc) \in Nat /\ Owed(jb) \in Nat /\ Owed(jc) <= Owed(jb)
    BY <1>3
  <2> QED BY <1>1, <2>1, <2>2, <2>3, ChargedStays
<1> QED BY <1>4, <1>7, <1>8 DEF Books

(* A request stores the count it loaded, and may pass its last check. *)
StoreCase(jb, on, c, m, us, pe, d, l, k, lim, g, i, j, y, z) ==
    /\ Books(jb, on, c, m, us, pe, d, l, k, lim) /\ g \in Handlers /\ i = jb[g] /\ i.reading # "NO"
    /\ MeteredJob(j) /\ j.reading = "NO" /\ ~Owing(j) /\ j.used \in 0..i.used
    /\ Flying(j) => i.used + Weight(j) <= l /\ Weight(j) <= k
    /\ y = (IF on THEN i.used ELSE c) /\ z = (IF on THEN m ELSE i.used)
LEMMA BooksStore ==
    ASSUME NEW jb, NEW on, NEW c, NEW m, NEW us, NEW pe, NEW d, NEW l, NEW k, NEW lim, NEW g, NEW i, NEW j,
           NEW y, NEW z, StoreCase(jb, on, c, m, us, pe, d, l, k, lim, g, i, j, y, z),
           NEW jc, jc = [jb EXCEPT ![g] = j]
    PROVE  Books(jc, on, y, z, us, pe, d, l, k, lim)
<1> USE DEF StoreCase
<1>1. Entries(jb, on, c, m, l, k) /\ Charged(jb, c, m, us, pe, d) /\ Within(jb, on, c, m, d, l, k, lim)
  BY DEF Books
<1>2. i.used \in Nat /\ y \in Nat \cup {-1} /\ z \in Nat \cup {-1} /\ c \in Nat \cup {-1} /\ m \in Nat \cup {-1}
  BY <1>1 DEF Entries, Metered, MeteredJob
<1>3. Turned(jb, on, c, m, l, k, g, i, j, jc, y, z)
  <2>1. l \in Nat
    BY <1>1 DEF Entries
  <2>2. Flying(j) => Weight(j) <= l /\ Weight(j) <= k
    BY <1>2, <2>1, FlyingIs
  <2>3. Turns(jb, on, c, m, l, k, g, i, j, jc, y, z)
    BY <1>1, <1>2, <2>2 DEF Turns
  <2> QED BY <2>3, OneChanges
<1>4. PICK f, e, x, r \in Nat :
          /\ f = InFlight(jb) /\ e = Flown(j) /\ InFlight(jc) = f + e
          /\ x = Owed(jb) /\ Owed(jc) = x /\ r = Room(jb, on, c, m, l, k)
          /\ Room(jc, on, y, z, l, k) \in Nat
  <2>1. /\ InFlight(jc) + Flown(i) = InFlight(jb) + Flown(j) /\ Owed(jc) + Due(i) = Owed(jb) + Due(j)
        /\ InFlight(jc) \in Nat /\ InFlight(jb) \in Nat /\ Owed(jc) \in Nat /\ Owed(jb) \in Nat
        /\ Room(jb, on, c, m, l, k) \in Nat /\ Room(jc, on, y, z, l, k) \in Nat /\ MeteredJob(i)
    BY <1>3 DEF Turned, Sums, Counts
  <2>2. Flown(i) = 0 /\ Due(i) = 0 /\ Flown(j) \in Nat /\ Due(j) = 0
    BY <2>1, FlownIs
  <2> QED BY <2>1, <2>2
<1>5. /\ Entries(jc, on, y, z, l, k) /\ jc[g] = j /\ \A q \in Handlers : q # g => jc[q] = jb[q]
      /\ Counts(on, c, m, Whole(l, k), Free(jb, l, k), Wide(jb, l, k), Widest(l, k), f)
      /\ Counts(on, y, z, Whole(l, k), Free(jc, l, k), Wide(jc, l, k), Widest(l, k), f + e)
      /\ Free(jc, l, k) = Free(jb, l, k) + Wide(jc, l, k)
      /\ f <= Free(jb, l, k)
  BY <1>3, <1>4 DEF Turned, Sums
<1>6. e = 0 \/ i.used + f + e <= Wide(jc, l, k)
  <2>1. CASE ~Flying(j)
    BY <1>4, <2>1, FlownIs
  <2>2. CASE Flying(j)
    <3>1. l \in Nat /\ k \in Nat /\ Metered(jb) /\ \A q \in Handlers : Flying(jb[q]) => Weight(jb[q]) <= k
      BY <1>1 DEF Entries
    <3>2. PICK n \in Nat : Cardinality(FreeOf(jb)) = n /\ n * k \in Nat /\ f <= n * k
      BY <1>4, <3>1, FlightsAre DEF InFlight
    <3>3. Cardinality(FreeOf(jc)) = n + 1
      <4>1. Changes(jb, g, i, j, jc)
        BY <3>1 DEF Changes
      <4>2. Tallied(jb, g, i, j, jc)
        BY <4>1, Tally
      <4> QED BY <3>2, <4>2 DEF Tallied
    <3>4. Wide(jc, l, k) = l + n * k
      BY <3>1, <3>2, <3>3, WidthIs DEF Wide
    <3>5. i.used + e <= l
      BY <1>4, <2>2, FlownIs
    <3> QED BY <1>2, <1>4, <3>1, <3>2, <3>4, <3>5
  <2> QED BY <2>1, <2>2
<1>7. Room(jc, on, y, z, l, k) + e <= r
  <2>1. /\ Counts(on, c, m, Whole(l, k), Free(jc, l, k), Wide(jc, l, k), Widest(l, k), f)
        /\ f <= Free(jc, l, k)
    BY <1>4, <1>5 DEF Counts
  <2>2. IF on THEN ToCome(on, i.used, m, Whole(l, k), Free(jc, l, k), Wide(jc, l, k), Widest(l, k), f + e) + e
                       <= ToCome(on, c, m, Whole(l, k), Free(jb, l, k), Wide(jb, l, k), Widest(l, k), f)
              ELSE ToCome(on, c, i.used, Whole(l, k), Free(jc, l, k), Wide(jc, l, k), Widest(l, k), f + e) + e
                       <= ToCome(on, c, m, Whole(l, k), Free(jb, l, k), Wide(jb, l, k), Widest(l, k), f)
    BY <1>2, <1>4, <1>5, <1>6, <2>1, OneIsStored
  <2>3. CASE on
    BY <1>4, <2>2, <2>3 DEF Room
  <2>4. CASE ~on
    BY <1>4, <2>2, <2>4 DEF Room
  <2> QED BY <2>3, <2>4
<1>8. Within(jc, on, y, z, d, l, k, lim)
  BY <1>1, <1>4, <1>7 DEF Within, Charged
<1>9. Charged(jb, y, z, us, pe, d)
  <2>1. i.used + Owed(jb) <= d
    BY <1>1 DEF Charged
  <2> QED BY <1>1, <2>1 DEF Charged
<1>10. Charged(jc, y, z, us, pe, d)
  <2>1. \A q \in Handlers : jc[q].used \in Nat /\ jb[q].used \in Nat /\ jc[q].used <= jb[q].used
    BY <1>1, <1>5 DEF Entries, Metered, MeteredJob
  <2>2. Owed(jc) \in Nat /\ Owed(jb) \in Nat /\ Owed(jc) <= Owed(jb)
    BY <1>4
  <2> QED BY <1>2, <1>9, <2>1, <2>2, ChargedStays
<1> QED BY <1>5, <1>8, <1>10 DEF Books

(* A result is stored. *)
LEMMA BooksSave ==
    ASSUME NEW jb, NEW on, NEW c, NEW m, NEW us, NEW pe, NEW d, NEW l, NEW k, NEW lim,
           Books(jb, on, c, m, us, pe, d, l, k, lim), NEW g \in Handlers, NEW i, i = jb[g],
           Flying(i), ~Owing(i),
           NEW j, MeteredJob(j), Owing(j), Weight(j) = Weight(i), j.used \in 0..i.used,
           NEW jc, jc = [jb EXCEPT ![g] = j]
    PROVE  Books(jc, on, c, m, us, pe, d + Weight(i), l, k, lim)
<1>1. Entries(jb, on, c, m, l, k) /\ Charged(jb, c, m, us, pe, d) /\ Within(jb, on, c, m, d, l, k, lim)
  BY DEF Books
<1>2. MeteredJob(i)
  BY <1>1 DEF Entries, Metered
<1>3. Turned(jb, on, c, m, l, k, g, i, j, jc, c, m)
  <2>1. Weight(j) <= l /\ Weight(j) <= k
    BY <1>1 DEF Entries
  <2>2. Turns(jb, on, c, m, l, k, g, i, j, jc, c, m)
    BY <1>1, <2>1 DEF Turns, Entries
  <2> QED BY <2>2, OneChanges
<1>4. PICK f, e, x \in Nat :
          /\ f = InFlight(jb) /\ e = Weight(i) /\ InFlight(jc) = f /\ x = Owed(jb) /\ Owed(jc) = x + e
  <2>1. /\ InFlight(jc) + Flown(i) = InFlight(jb) + Flown(j) /\ Owed(jc) + Due(i) = Owed(jb) + Due(j)
        /\ InFlight(jc) \in Nat /\ InFlight(jb) \in Nat /\ Owed(jc) \in Nat /\ Owed(jb) \in Nat
    BY <1>3 DEF Turned, Sums, Counts
  <2>2. Flown(i) = Weight(i) /\ Due(i) = 0 /\ Weight(i) \in Nat
    BY <1>2, FlownIs
  <2>3. Flown(j) = Weight(i) /\ Due(j) = Weight(i)
    BY FlownIs
  <2> QED BY <2>1, <2>2, <2>3
<1>5. /\ Entries(jc, on, c, m, l, k) /\ jc[g] = j /\ \A q \in Handlers : q # g => jc[q] = jb[q]
      /\ Free(jc, l, k) = Free(jb, l, k) /\ Wide(jc, l, k) = Wide(jb, l, k)
      /\ Room(jc, on, c, m, l, k) \in Nat
  <2>1. i.reading = "NO" /\ j.reading = "NO"
    BY <1>2, FlownIs
  <2> QED BY <1>3, <2>1 DEF Turned, Sums
<1>6. Room(jc, on, c, m, l, k) = Room(jb, on, c, m, l, k)
  BY <1>4, <1>5 DEF Room
<1>7. Within(jc, on, c, m, d + e, l, k, lim)
  BY <1>1, <1>4, <1>5, <1>6 DEF Within, Charged
<1>8. Charged(jc, c, m, us, pe, d + e)
  <2>1. c \in Nat \cup {-1} /\ m \in Nat \cup {-1} /\ us \in Nat /\ pe \in Nat /\ d \in Nat
    BY <1>1 DEF Entries, Charged
  <2>2. c + x <= d /\ m + x <= d /\ us + pe + x <= d
    BY <1>1, <1>4 DEF Charged
  <2>3. c + (x + e) <= d + e /\ m + (x + e) <= d + e /\ us + pe + (x + e) <= d + e /\ d + e \in Nat
    BY <1>4, <2>1, <2>2
  <2>4. ASSUME NEW q \in Handlers PROVE jc[q].used + (x + e) <= d + e
    <3>1. jc[q].used \in Nat /\ jb[q].used \in Nat /\ jc[q].used <= jb[q].used
      BY <1>1, <1>5 DEF Entries, Metered, MeteredJob
    <3>2. jb[q].used + x <= d
      BY <1>1, <1>4 DEF Charged
    <3> QED BY <1>4, <2>1, <3>1, <3>2
  <2> QED BY <1>4, <2>1, <2>3, <2>4 DEF Charged
<1> QED BY <1>4, <1>5, <1>7, <1>8 DEF Books

(* A result is charged. *)
ChargeCase(jb, on, c, m, us, pe, d, l, k, lim, g, i, j, v, n, y, z) ==
    /\ Books(jb, on, c, m, us, pe, d, l, k, lim) /\ g \in Handlers /\ i = jb[g] /\ Owing(i)
    /\ MeteredJob(j) /\ ~Flying(j) /\ j.reading = "NO" /\ j.used \in 0..i.used
    /\ v = (IF on THEN c ELSE m) /\ n = (IF v = -1 THEN 0 ELSE v) + Weight(i)
    /\ y = (IF on THEN n ELSE c) /\ z = (IF on THEN m ELSE n)
LEMMA BooksCharge ==
    ASSUME NEW jb, NEW on, NEW c, NEW m, NEW us, NEW pe, NEW d, NEW l, NEW k, NEW lim, NEW g, NEW i, NEW j,
           NEW v, NEW n, NEW y, NEW z, ChargeCase(jb, on, c, m, us, pe, d, l, k, lim, g, i, j, v, n, y, z),
           NEW jc, jc = [jb EXCEPT ![g] = j]
    PROVE  Books(jc, on, y, z, us, pe + Weight(i), d, l, k, lim)
<1> USE DEF ChargeCase
<1>1. Entries(jb, on, c, m, l, k) /\ Charged(jb, c, m, us, pe, d) /\ Within(jb, on, c, m, d, l, k, lim)
  BY DEF Books
<1>2. MeteredJob(i)
  BY <1>1 DEF Entries, Metered
<1>3. PICK e \in Nat : e = Weight(i)
  BY <1>2, FlownIs
<1>4. /\ y \in Nat \cup {-1} /\ z \in Nat \cup {-1} /\ c \in Nat \cup {-1} /\ m \in Nat \cup {-1}
      /\ v \in Nat \cup {-1} /\ n \in Nat /\ on \in BOOLEAN
  BY <1>1, <1>3 DEF Entries
<1>5. Turned(jb, on, c, m, l, k, g, i, j, jc, y, z)
  <2>1. Turns(jb, on, c, m, l, k, g, i, j, jc, y, z)
    BY <1>1, <1>4 DEF Turns
  <2> QED BY <2>1, OneChanges
<1>6. PICK f, x, r \in Nat :
          /\ InFlight(jb) = f + e /\ InFlight(jc) = f /\ Owed(jb) = x + e /\ Owed(jc) = x
          /\ r = Room(jb, on, c, m, l, k) /\ Room(jc, on, y, z, l, k) \in Nat
  <2>1. /\ InFlight(jc) + Flown(i) = InFlight(jb) + Flown(j) /\ Owed(jc) + Due(i) = Owed(jb) + Due(j)
        /\ InFlight(jc) \in Nat /\ InFlight(jb) \in Nat /\ Owed(jc) \in Nat /\ Owed(jb) \in Nat
        /\ Room(jb, on, c, m, l, k) \in Nat /\ Room(jc, on, y, z, l, k) \in Nat
    BY <1>5 DEF Turned, Sums, Counts
  <2>2. Flown(i) = e /\ Due(i) = e
    BY <1>2, <1>3, FlownIs
  <2>3. Flown(j) = 0 /\ Due(j) = 0
    BY FlownIs
  <2> QED BY <1>3, <2>1, <2>2, <2>3
<1>7. /\ Entries(jc, on, y, z, l, k) /\ jc[g] = j /\ \A q \in Handlers : q # g => jc[q] = jb[q]
      /\ Free(jc, l, k) = Free(jb, l, k) /\ Wide(jc, l, k) = Wide(jb, l, k)
      /\ Counts(on, c, m, Whole(l, k), Free(jb, l, k), Wide(jb, l, k), Widest(l, k), f + e)
      /\ f + e <= Free(jb, l, k)
  <2>1. i.reading = "NO"
    BY <1>2, FlownIs
  <2> QED BY <1>5, <1>6, <2>1 DEF Turned, Sums
<1>8. Room(jc, on, y, z, l, k) <= r
  <2>1. IF on THEN ToCome(on, n, m, Whole(l, k), Free(jb, l, k), Wide(jb, l, k), Widest(l, k), f)
                       <= ToCome(on, c, m, Whole(l, k), Free(jb, l, k), Wide(jb, l, k), Widest(l, k), f + e)
              ELSE ToCome(on, c, n, Whole(l, k), Free(jb, l, k), Wide(jb, l, k), Widest(l, k), f)
                       <= ToCome(on, c, m, Whole(l, k), Free(jb, l, k), Wide(jb, l, k), Widest(l, k), f + e)
    BY <1>3, <1>6, <1>7, OneIsCharged
  <2>2. CASE on
    BY <1>6, <1>7, <2>1, <2>2 DEF Room
  <2>3. CASE ~on
    BY <1>6, <1>7, <2>1, <2>3 DEF Room
  <2> QED BY <2>2, <2>3
<1>9. Within(jc, on, y, z, d, l, k, lim)
  BY <1>1, <1>3, <1>6, <1>8 DEF Within, Charged
<1>10. Charged(jc, y, z, us, pe + e, d)
  <2>1. us \in Nat /\ pe \in Nat /\ d \in Nat /\ c + (x + e) <= d /\ m + (x + e) <= d /\ us + pe + (x + e) <= d
    BY <1>1, <1>6 DEF Charged
  <2>2. n + x <= d
    BY <1>3, <1>4, <1>6, <2>1
  <2>3. y + x <= d /\ z + x <= d /\ us + (pe + e) + x <= d /\ pe + e \in Nat
    BY <1>3, <1>4, <1>6, <2>1, <2>2
  <2>4. ASSUME NEW q \in Handlers PROVE jc[q].used + x <= d
    <3>1. jc[q].used \in Nat /\ jb[q].used \in Nat /\ jc[q].used <= jb[q].used
      BY <1>1, <1>7 DEF Entries, Metered, MeteredJob
    <3>2. jb[q].used + (x + e) <= d
      BY <1>1, <1>6 DEF Charged
    <3> QED BY <1>3, <1>6, <2>1, <3>1, <3>2
  <2> QED BY <1>6, <2>1, <2>3, <2>4 DEF Charged
<1> QED BY <1>3, <1>7, <1>9, <1>10 DEF Books

(* Upserts reach the table, or are lost; Redis goes, and comes back. *)
LEMMA BooksSync ==
    ASSUME NEW jb, NEW on, NEW c, NEW m, NEW us, NEW pe, NEW d, NEW l, NEW k, NEW lim,
           Books(jb, on, c, m, us, pe, d, l, k, lim), NEW n \in {us, us + pe}
    PROVE  Books(jb, on, c, m, n, 0, d, l, k, lim)
<1>1. us \in Nat /\ pe \in Nat /\ d \in Nat /\ us + pe + Owed(jb) <= d /\ Owed(jb) \in Nat
  BY SumsAre DEF Books, Charged, Sums
<1>2. n \in Nat /\ 0 \in Nat /\ n + 0 + Owed(jb) <= d
  BY <1>1
<1> QED BY <1>2 DEF Books, Charged

LEMMA BooksGrow ==
    ASSUME NEW jb, NEW on, NEW c, NEW m, NEW us, NEW pe, NEW d, NEW l, NEW k, NEW lim,
           Books(jb, on, c, m, us, pe, d, l, k, lim), NEW n \in Nat, lim <= n
    PROVE  Books(jb, on, c, m, us, pe, d, l, k, n)
<1>1. Owed(jb) \in Nat /\ InFlight(jb) \in Nat /\ Room(jb, on, c, m, l, k) \in Nat /\ d \in Nat /\ lim \in Nat
  BY SumsAre DEF Books, Charged, Sums, Counts, Within
<1> QED BY <1>1 DEF Books, Within

LEMMA BooksGoes ==
    ASSUME NEW jb, NEW yes, yes = TRUE, NEW no, no = FALSE, NEW c, NEW m,
           NEW us, NEW pe, NEW d, NEW l, NEW k, NEW lim,
           Books(jb, yes, c, m, us, pe, d, l, k, lim)
    PROVE  Books(jb, no, c, m, us, pe, d, l, k, lim + Whole(l, k))
<1>1. /\ Entries(jb, yes, c, m, l, k) /\ Charged(jb, c, m, us, pe, d) /\ Within(jb, yes, c, m, d, l, k, lim)
      /\ Entries(jb, no, c, m, l, k)
  BY DEF Books, Entries
<1>2. Sums(jb, yes, c, m, l, k) /\ Sums(jb, no, c, m, l, k)
  BY <1>1, SumsAre
<1>3. Room(jb, no, c, m, l, k) <= Room(jb, yes, c, m, l, k) + Whole(l, k)
  BY <1>2, RedisGoes DEF Room, Sums
<1>4. /\ Room(jb, no, c, m, l, k) \in Nat /\ Room(jb, yes, c, m, l, k) \in Nat /\ Whole(l, k) \in Nat
      /\ InFlight(jb) \in Nat /\ Owed(jb) \in Nat
  BY <1>2 DEF Sums, Counts
<1>5. PICK p, r, w, f, v \in Nat : /\ p = Room(jb, no, c, m, l, k) /\ r = Room(jb, yes, c, m, l, k)
                                  /\ w = Whole(l, k) /\ f = InFlight(jb) /\ v = Owed(jb)
  BY <1>4
<1>6. d \in Nat /\ lim \in Nat /\ d + f + r <= lim + v
  BY <1>1, <1>5 DEF Within, Charged
<1>7. d + f + p <= (lim + w) + v /\ lim + w \in Nat
  BY ONLY <1>3, <1>5, <1>6
<1>8. Within(jb, no, c, m, d, l, k, lim + Whole(l, k))
  BY <1>5, <1>7 DEF Within
<1> QED BY <1>1, <1>8 DEF Books

LEMMA BooksComes ==
    ASSUME NEW jb, NEW yes, yes = TRUE, NEW no, no = FALSE, NEW c, NEW m,
           NEW us, NEW pe, NEW d, NEW l, NEW k, NEW lim,
           Books(jb, no, c, m, us, pe, d, l, k, lim)
    PROVE  Books(jb, yes, c, m, us, pe, d, l, k, lim)
<1>1. /\ Entries(jb, no, c, m, l, k) /\ Charged(jb, c, m, us, pe, d) /\ Within(jb, no, c, m, d, l, k, lim)
      /\ Entries(jb, yes, c, m, l, k)
  BY DEF Books, Entries
<1>2. Sums(jb, yes, c, m, l, k) /\ Sums(jb, no, c, m, l, k)
  BY <1>1, SumsAre
<1>3. Room(jb, yes, c, m, l, k) <= Room(jb, no, c, m, l, k)
  BY <1>2, RedisComes DEF Room, Sums
<1>4. /\ Room(jb, no, c, m, l, k) \in Nat /\ Room(jb, yes, c, m, l, k) \in Nat
      /\ InFlight(jb) \in Nat /\ Owed(jb) \in Nat
  BY <1>2 DEF Sums, Counts
<1>5. PICK p, r, f, v \in Nat : /\ p = Room(jb, no, c, m, l, k) /\ r = Room(jb, yes, c, m, l, k)
                               /\ f = InFlight(jb) /\ v = Owed(jb)
  BY <1>4
<1>6. d \in Nat /\ lim \in Nat /\ d + f + p <= lim + v
  BY <1>1, <1>5 DEF Within, Charged
<1>7. d + f + r <= lim + v
  BY ONLY <1>3, <1>5, <1>6
<1>8. Within(jb, yes, c, m, d, l, k, lim)
  BY <1>5, <1>6, <1>7 DEF Within
<1> QED BY <1>1, <1>8 DEF Books

\* What the books say of what is delivered and what is charged.
LEMMA BooksSay ==
    ASSUME NEW jb, NEW on, NEW c, NEW m, NEW us, NEW pe, NEW d, NEW l, NEW k, NEW lim,
           Books(jb, on, c, m, us, pe, d, l, k, lim)
    PROVE  d <= lim /\ c <= d /\ m <= d /\ us + pe <= d
<1>1. /\ Room(jb, on, c, m, l, k) \in Nat /\ InFlight(jb) \in Nat /\ Owed(jb) \in Nat /\ Owed(jb) <= InFlight(jb)
  BY SumsAre DEF Books, Sums, Counts
<1>2. /\ c \in Nat \cup {-1} /\ m \in Nat \cup {-1} /\ us \in Nat /\ pe \in Nat /\ d \in Nat /\ lim \in Nat
      /\ c + Owed(jb) <= d /\ m + Owed(jb) <= d /\ us + pe + Owed(jb) <= d
      /\ d + InFlight(jb) + Room(jb, on, c, m, l, k) <= lim + Owed(jb)
  BY DEF Books, Entries, Charged, Within
<1> QED BY <1>1, <1>2

-----------------------------------------------------------------------------
(* The steps of a request, by its kind. *)
FlowSays(q, k) ==
    /\ Len(q) = EndAt(k) /\ DOMAIN q = 1..EndAt(k)
    /\ \A s \in 1..EndAt(k) :
          /\ q[s] = "GUARD" <=> s = 1
          /\ q[s] = "QUOTA" <=> (k = "TRY_ON" /\ s = 4)
          /\ q[s] = "SAVE" <=> s = SaveAt(k)
          /\ q[s] = "CONSUME" <=> s = SaveAt(k) + 1
          /\ q[s] = "RELEASE" <=> s = FreedAt(k)

LEMMA FiveSteps ==
    ASSUME NEW q, NEW a, NEW b, NEW c, NEW d, NEW e, q = <<a, b, c, d, e>>
    PROVE  /\ Len(q) = 5 /\ DOMAIN q = 1..5
           /\ q[1] = a /\ q[2] = b /\ q[3] = c /\ q[4] = d /\ q[5] = e
OBVIOUS

LEMMA SevenSteps ==
    ASSUME NEW q, NEW a, NEW b, NEW c, NEW d, NEW e, NEW f, NEW g, q = <<a, b, c, d, e, f, g>>
    PROVE  /\ Len(q) = 7 /\ DOMAIN q = 1..7
           /\ q[1] = a /\ q[2] = b /\ q[3] = c /\ q[4] = d /\ q[5] = e /\ q[6] = f /\ q[7] = g
OBVIOUS

LEMMA FlowIs == ASSUME NEW k \in Kinds PROVE FlowSays(AiStudio!Flow(k), k)
<1>1. PICK q : q = AiStudio!Flow(k)
  OBVIOUS
<1>2. \A s \in 1..5 : s \in {1, 2, 3, 4, 5}
  OBVIOUS
<1>3. \A s \in 1..7 : s \in {1, 2, 3, 4, 5, 6, 7}
  OBVIOUS
<1>4. \A s \in 1..8 : s \in {1, 2, 3, 4, 5, 6, 7, 8}
  OBVIOUS
<1>5. CASE k = "STYLIST"
  <2>1. q = <<"GUARD", "CACHE", "PROVIDER", "SAVE", "CONSUME">>
    BY <1>1, <1>5 DEF AiStudio!Flow, AiStudio!StylistSteps
  <2>2. /\ Len(q) = 5 /\ DOMAIN q = 1..5 /\ q[1] = "GUARD" /\ q[2] = "CACHE" /\ q[3] = "PROVIDER"
        /\ q[4] = "SAVE" /\ q[5] = "CONSUME"
    BY <2>1, FiveSteps
  <2> QED BY <1>1, <1>2, <1>5, <2>2 DEF FlowSays, EndAt, SaveAt, FreedAt
<1>6. CASE k = "CHAT_SSE"
  <2>1. q = <<"GUARD", "ASK", "PROVIDER", "SAVE", "CONSUME">>
    BY <1>1, <1>6 DEF AiStudio!Flow, AiStudio!ChatSteps
  <2>2. /\ Len(q) = 5 /\ DOMAIN q = 1..5 /\ q[1] = "GUARD" /\ q[2] = "ASK" /\ q[3] = "PROVIDER"
        /\ q[4] = "SAVE" /\ q[5] = "CONSUME"
    BY <2>1, FiveSteps
  <2> QED BY <1>1, <1>2, <1>6, <2>2 DEF FlowSays, EndAt, SaveAt, FreedAt
<1>7. CASE k = "CHAT_SOCKET"
  <2>1. q = <<"GUARD", "LOCK", "ASK", "PROVIDER", "SAVE", "CONSUME", "RELEASE">>
    BY <1>1, <1>7 DEF AiStudio!Flow, AiStudio!SocketSteps
  <2>2. /\ Len(q) = 7 /\ DOMAIN q = 1..7 /\ q[1] = "GUARD" /\ q[2] = "LOCK" /\ q[3] = "ASK"
        /\ q[4] = "PROVIDER" /\ q[5] = "SAVE" /\ q[6] = "CONSUME" /\ q[7] = "RELEASE"
    BY <2>1, SevenSteps
  <2> QED BY <1>1, <1>3, <1>7, <2>2 DEF FlowSays, EndAt, SaveAt, FreedAt
<1>8. CASE k = "TRY_ON" /\ Mock
  <2>1. q = <<"GUARD", "LOCK", "CACHE", "QUOTA", "RELEASE", "SAVE", "CONSUME">>
    BY <1>1, <1>8 DEF AiStudio!Flow, AiStudio!MockSteps
  <2>2. /\ Len(q) = 7 /\ DOMAIN q = 1..7 /\ q[1] = "GUARD" /\ q[2] = "LOCK" /\ q[3] = "CACHE"
        /\ q[4] = "QUOTA" /\ q[5] = "RELEASE" /\ q[6] = "SAVE" /\ q[7] = "CONSUME"
    BY <2>1, SevenSteps
  <2> QED BY <1>1, <1>3, <1>8, <2>2 DEF FlowSays, EndAt, SaveAt, FreedAt
<1>9. CASE k = "TRY_ON" /\ ~Mock
  <2>1. q = <<"GUARD", "LOCK", "CACHE", "QUOTA", "PROVIDER", "SAVE", "CONSUME", "RELEASE">>
    BY <1>1, <1>9 DEF AiStudio!Flow, AiStudio!TryOnSteps
  <2>2. /\ Len(q) = 8 /\ DOMAIN q = 1..8 /\ q[1] = "GUARD" /\ q[2] = "LOCK" /\ q[3] = "CACHE"
        /\ q[4] = "QUOTA" /\ q[5] = "PROVIDER" /\ q[6] = "SAVE" /\ q[7] = "CONSUME" /\ q[8] = "RELEASE"
    BY <2>1, EightSteps
  <2> QED BY <1>1, <1>4, <1>9, <2>2 DEF FlowSays, EndAt, SaveAt, FreedAt
<1> QED BY <1>5, <1>6, <1>7, <1>8, <1>9 DEF Kinds

\* The numbers of the steps.
LEMMA StepsAre ==
    ASSUME NEW k \in Kinds
    PROVE  /\ CheckAt(k) \in Nat /\ SaveAt(k) \in Nat /\ EndAt(k) \in Nat /\ FreedAt(k) \in Nat
           /\ 1 <= CheckAt(k) /\ CheckAt(k) + 2 <= SaveAt(k) /\ SaveAt(k) + 1 <= EndAt(k)
           /\ FreedAt(k) \in {0, EndAt(k), CheckAt(k) + 1} /\ FreedAt(k) # SaveAt(k) + 1
           /\ FreedAt(k) # SaveAt(k) /\ FreedAt(k) # 1 /\ CheckAt(k) \in {1, 4} /\ (CheckAt(k) = 4 <=> k = "TRY_ON")
BY DEF Kinds, CheckAt, SaveAt, EndAt, FreedAt

\* Where a request is.
LEMMA FlowAt ==
    ASSUME NEW h \in Handlers, MeteredJob(job[h]), job[h].kind # "NONE"
    PROVE  /\ job[h].kind \in Kinds /\ job[h].step \in 1..EndAt(job[h].kind) /\ AiStudio!Active(h)
           /\ AiStudio!At(h, "GUARD") <=> job[h].step = 1
           /\ AiStudio!At(h, "QUOTA") <=> (job[h].kind = "TRY_ON" /\ job[h].step = 4)
           /\ AiStudio!At(h, "SAVE") <=> job[h].step = SaveAt(job[h].kind)
           /\ AiStudio!At(h, "CONSUME") <=> job[h].step = SaveAt(job[h].kind) + 1
           /\ AiStudio!At(h, "RELEASE") <=> job[h].step = FreedAt(job[h].kind)
           /\ \A x \in {"LOCK", "CACHE", "ASK", "PROVIDER"} : AiStudio!At(h, x) =>
                 /\ job[h].step \notin {1, CheckAt(job[h].kind), SaveAt(job[h].kind), SaveAt(job[h].kind) + 1}
                 /\ job[h].step # FreedAt(job[h].kind)
           /\ AiStudio!AtEnd(h) <=> job[h].step = EndAt(job[h].kind)
           /\ AiStudio!Holding(h) => /\ FreedAt(job[h].kind) \in 1..EndAt(job[h].kind)
                                     /\ AiStudio!Max(AiStudio!ReleaseStep(h)) = FreedAt(job[h].kind)
<1>1. PICK k, s : k = job[h].kind /\ s = job[h].step
  OBVIOUS
<1>2. k \in Kinds /\ s \in 1..EndAt(k)
  BY <1>1 DEF MeteredJob
<1>3. PICK q : q = AiStudio!Steps(h)
  OBVIOUS
<1>4. FlowSays(q, k)
  BY <1>1, <1>2, <1>3, FlowIs DEF AiStudio!Steps
<1>5. AiStudio!Active(h)
  BY DEF AiStudio!Active
<1>6. \A x : AiStudio!At(h, x) <=> q[s] = x
  BY <1>1, <1>3, <1>5 DEF AiStudio!At
<1>7. /\ q[s] = "GUARD" <=> s = 1
      /\ q[s] = "QUOTA" <=> (k = "TRY_ON" /\ s = 4)
      /\ q[s] = "SAVE" <=> s = SaveAt(k)
      /\ q[s] = "CONSUME" <=> s = SaveAt(k) + 1
      /\ q[s] = "RELEASE" <=> s = FreedAt(k)
  BY <1>2, <1>4 DEF FlowSays
<1>8. ASSUME NEW x \in {"LOCK", "CACHE", "ASK", "PROVIDER"}, AiStudio!At(h, x)
      PROVE  s \notin {1, CheckAt(k), SaveAt(k), SaveAt(k) + 1} /\ s # FreedAt(k)
  <2>1. q[s] = x
    BY <1>6, <1>8
  <2>2. q[s] \notin {"GUARD", "QUOTA", "SAVE", "CONSUME", "RELEASE"}
    BY <2>1
  <2> QED BY <1>7, <2>2, <1>2, StepsAre
<1>9. AiStudio!AtEnd(h) <=> s = EndAt(k)
  BY <1>1, <1>3, <1>4 DEF AiStudio!AtEnd, FlowSays
<1>10. ASSUME AiStudio!Holding(h)
       PROVE  FreedAt(k) \in 1..EndAt(k) /\ AiStudio!Max(AiStudio!ReleaseStep(h)) = FreedAt(k)
  <2>1. PICK r \in 1..EndAt(k) : q[r] = "RELEASE"
    BY <1>3, <1>4, <1>10 DEF AiStudio!Holding, FlowSays
  <2>2. r = FreedAt(k)
    BY <1>4, <2>1 DEF FlowSays
  <2>3. AiStudio!ReleaseStep(h) = {r}
    BY <1>3, <1>4, <2>1, <2>2 DEF AiStudio!ReleaseStep, FlowSays
  <2>4. r \in Int
    BY <1>2, <2>1, StepsAre
  <2>5. AiStudio!Max({r}) = r
    BY <2>4 DEF AiStudio!Max
  <2> QED BY <2>1, <2>2, <2>3, <2>5
<1> QED BY <1>1, <1>2, <1>5, <1>6, <1>7, <1>8, <1>9, <1>10

-----------------------------------------------------------------------------
\* The most one request uses, and a request of the feature that uses no more.
Most(a) == IF a = "TRY_ON" THEN AiStudio!Max({1} \cup {AiStudio!Cardinality(DOMAIN o) : o \in AiStudio!Wearable}) ELSE 1
Fits(j, a, k) ==
    /\ j.kind \in AiStudio!KindsOf[a] \cup {"NONE"}
    /\ j.kind # "NONE" => Weight(j) <= k

LEMMA MostIs ==
    ASSUME NEW a
    PROVE  /\ Most(a) \in Nat /\ 1 <= Most(a)
           /\ a = "TRY_ON" => \A o \in AiStudio!Wearable : /\ Cardinality(DOMAIN o) \in 1..3
                                                          /\ Cardinality(DOMAIN o) <= Most(a)
<1>1. PICK S : S = {1} \cup {AiStudio!Cardinality(DOMAIN o) : o \in AiStudio!Wearable}
  OBVIOUS
<1>2. \A o \in AiStudio!Wearable : Cardinality(DOMAIN o) \in 1..3 /\ Cardinality(DOMAIN o) \in S
  <2>1. ASSUME NEW o \in AiStudio!Wearable PROVE AiStudio!Cardinality(DOMAIN o) \in 1..3
    BY DEF AiStudio!Wearable, AiStudio!layerCombinationAllowed, AiStudio!MAX_TRY_ON_LAYERS
  <2> QED BY <1>1, <2>1, StudioCardinality
<1>3. S \in SUBSET {1, 2, 3} /\ 1 \in S
  <2>1. \A o \in AiStudio!Wearable : AiStudio!Cardinality(DOMAIN o) \in {1, 2, 3}
    BY <1>2, StudioCardinality
  <2> QED BY <1>1, <2>1
<1>4. PICK x \in S : \A y \in S : x >= y
  <2>1. CASE 3 \in S
    BY <1>3, <2>1
  <2>2. CASE 3 \notin S /\ 2 \in S
    BY <1>3, <2>2
  <2>3. CASE 3 \notin S /\ 2 \notin S
    BY <1>3, <2>3
  <2> QED BY <2>1, <2>2, <2>3
<1>5. AiStudio!Max(S) \in S /\ \A y \in S : AiStudio!Max(S) >= y
  BY <1>4 DEF AiStudio!Max
<1>6. CASE a = "TRY_ON"
  <2>1. Most(a) = AiStudio!Max(S)
    BY <1>1, <1>6 DEF Most
  <2>2. Most(a) \in {1, 2, 3}
    BY <1>3, <1>5, <2>1
  <2> QED BY <1>2, <1>5, <2>1, <2>2
<1>7. CASE a # "TRY_ON"
  BY <1>7 DEF Most
<1> QED BY <1>6, <1>7

(* The accounts of the feature, within lim. *)
Ledger(a, l, k, lim) ==
    /\ action = a /\ a \in AiStudio!Actions /\ l = Limit[a] /\ k = Most(a)
    /\ outages \in Nat /\ errors \in Nat
    /\ \A h \in Handlers : Fits(job[h], a, k)
    /\ Books(job, up, counter, memory, usage, pending, delivered, l, k, lim)

\* One request turns into j.
LEMMA LedgerOn ==
    ASSUME NEW a, NEW l, NEW k, NEW lim, Ledger(a, l, k, lim), NEW h \in Handlers, NEW j, Fits(j, a, k),
           job' = [job EXCEPT ![h] = j], NEW n,
           Books(job', up', counter', memory', usage', pending', delivered', l, k, n),
           action' = action, outages' \in Nat, errors' \in Nat
    PROVE  Ledger(a, l, k, n)'
<1>1. \A g \in Handlers : job'[g] = IF g = h THEN j ELSE job[g]
  BY DEF Ledger, Books, Entries, Metered
<1>2. \A g \in Handlers : Fits(job'[g], a, k)
  BY <1>1 DEF Ledger
<1>3. /\ action' = a /\ a \in AiStudio!Actions /\ l = Limit[a] /\ k = Most(a)
  BY DEF Ledger
<1> QED BY <1>2, <1>3 DEF Ledger

LEMMA LedgerIs ==
    ASSUME NEW a, NEW l, NEW k, NEW lim, Ledger(a, l, k, lim), NEW h \in Handlers
    PROVE  /\ MeteredJob(job[h]) /\ Fits(job[h], a, k) /\ k \in Nat /\ 1 <= k
           /\ Books(job, up, counter, memory, usage, pending, delivered, l, k, lim)
           /\ outages \in Nat /\ errors \in Nat /\ action = a /\ l \in Nat
           /\ counter \in Nat \cup {-1} /\ memory \in Nat \cup {-1} /\ up \in BOOLEAN
           /\ usage \in Nat /\ pending \in Nat /\ delivered \in Nat
           /\ Flown(job[h]) <= k
<1>1. MeteredJob(job[h]) /\ Fits(job[h], a, k)
  BY DEF Ledger, Books, Entries, Metered
<1>2. k \in Nat /\ 1 <= k
  BY MostIs DEF Ledger
<1>3. Flown(job[h]) <= k
  BY <1>2 DEF Ledger, Books, Entries, Flown
<1> QED BY <1>1, <1>2, <1>3 DEF Ledger, Books, Entries, Charged

(* The next step of a request: what Advance and Fail make of it. *)
Onward(i, j) ==
    /\ j.kind = i.kind /\ j.outfit = i.outfit /\ j.step = i.step + 1
    /\ j.reading = "NO" /\ j.used = 0 /\ j.failed = i.failed

LEMMA NoJobIs ==
    ASSUME NEW a, NEW k
    PROVE  /\ MeteredJob(AiStudio!NoJob) /\ Fits(AiStudio!NoJob, a, k) /\ ~Flying(AiStudio!NoJob)
           /\ AiStudio!NoJob.reading = "NO" /\ AiStudio!NoJob.used = 0
BY StudioIdle DEF MeteredJob, Fits, Flying, AiStudio!NoJob

LEMMA WeightKept ==
    ASSUME NEW i, NEW j, j.kind = i.kind, j.outfit = i.outfit
    PROVE  Weight(j) = Weight(i)
BY DEF Weight, Worn

LEMMA AdvanceMakes ==
    ASSUME NEW h \in Handlers, MeteredJob(job[h]), job[h].kind # "NONE", ~job[h].failed,
           AiStudio!Advance(h), NEW a, NEW k, Fits(job[h], a, k)
    PROVE  \E j : /\ MeteredJob(j) /\ Fits(j, a, k) /\ job' = [job EXCEPT ![h] = j]
                  /\ IF job[h].step = EndAt(job[h].kind) THEN j = AiStudio!NoJob ELSE Onward(job[h], j)
<1>1. PICK i : i = job[h] /\ MeteredJob(i) /\ i.kind # "NONE" /\ ~i.failed /\ Fits(i, a, k)
  OBVIOUS
<1>2. AiStudio!AtEnd(h) <=> i.step = EndAt(i.kind)
  BY <1>1, FlowAt
<1>3. CASE i.step = EndAt(i.kind)
  BY <1>1, <1>2, <1>3, NoJobIs DEF AiStudio!Advance, AiStudio!Go
<1>4. CASE i.step # EndAt(i.kind)
  <2>1. PICK j : j = [i EXCEPT !.step = i.step + 1, !.reading = "NO", !.used = 0]
    OBVIOUS
  <2>2. i = [x \in StudioFields |-> i[x]]
    BY <1>1 DEF MeteredJob, StudioJob
  <2>3. StudioJob(j) /\ Onward(i, j)
    BY <2>1, <2>2 DEF StudioJob, Onward, StudioFields
  <2>4. Weight(j) = Weight(i)
    BY <2>3, WeightKept DEF Onward
  <2>5. j.step \in 1..EndAt(j.kind)
    <3>1. i.kind \in Kinds /\ i.step \in 1..EndAt(i.kind) /\ EndAt(i.kind) \in Nat
      BY <1>1, StepsAre DEF MeteredJob
    <3> QED BY <1>4, <2>3, <3>1 DEF Onward
  <2>6. MeteredJob(j)
    BY <1>1, <2>3, <2>4, <2>5 DEF MeteredJob, Onward
  <2>7. Fits(j, a, k)
    BY <1>1, <2>3, <2>4 DEF Fits, Onward
  <2>8. job' = [job EXCEPT ![h] = j]
    BY <1>1, <1>2, <1>4, <2>1 DEF AiStudio!Advance, AiStudio!Go
  <2> QED BY <1>1, <1>4, <2>3, <2>6, <2>7, <2>8
<1> QED BY <1>3, <1>4

LEMMA FailMakes ==
    ASSUME NEW h \in Handlers, MeteredJob(job[h]), job[h].kind # "NONE",
           AiStudio!Fail(h), NEW a, NEW k, Fits(job[h], a, k)
    PROVE  \E j : /\ MeteredJob(j) /\ Fits(j, a, k) /\ job' = [job EXCEPT ![h] = j]
                  /\ ~Flying(j) /\ j.reading = "NO" /\ j.used \in 0..job[h].used
<1>1. PICK i : i = job[h] /\ MeteredJob(i) /\ i.kind # "NONE" /\ Fits(i, a, k) /\ i.used \in Nat
  BY DEF MeteredJob
<1>2. CASE ~AiStudio!Holding(h)
  <2>1. 0 \in 0..i.used
    BY <1>1
  <2> QED BY <1>1, <1>2, <2>1, NoJobIs DEF AiStudio!Fail, AiStudio!Go
<1>3. CASE AiStudio!Holding(h)
  <2>1. PICK s \in 1..EndAt(i.kind) : s = AiStudio!Max(AiStudio!ReleaseStep(h)) /\ s = FreedAt(i.kind)
    BY <1>1, <1>3, FlowAt
  <2>2. PICK j : j = [i EXCEPT !.step = s, !.reading = "NO", !.failed = TRUE]
    OBVIOUS
  <2>3. i = [x \in StudioFields |-> i[x]]
    BY <1>1 DEF MeteredJob, StudioJob
  <2>4. /\ StudioJob(j) /\ j.kind = i.kind /\ j.outfit = i.outfit /\ j.step = s /\ j.reading = "NO"
        /\ j.failed = TRUE /\ j.used = i.used
    BY <2>2, <2>3 DEF StudioJob, StudioFields
  <2>5. Weight(j) = Weight(i)
    BY <2>4, WeightKept
  <2>6. MeteredJob(j)
    BY <1>1, <2>1, <2>4, <2>5 DEF MeteredJob
  <2>7. Fits(j, a, k) /\ ~Flying(j)
    BY <1>1, <2>4, <2>5 DEF Fits, Flying
  <2>8. job' = [job EXCEPT ![h] = j]
    BY <1>1, <1>3, <2>1, <2>2 DEF AiStudio!Fail, AiStudio!Go
  <2>9. j.used \in 0..i.used
    BY <1>1, <2>4
  <2> QED BY <1>1, <2>4, <2>6, <2>7, <2>8, <2>9
<1> QED BY <1>2, <1>3

\* Where a request that goes on is in flight, and owes.
LEMMA OnwardFlies ==
    ASSUME NEW i, MeteredJob(i), i.kind # "NONE", ~i.failed, NEW j, Onward(i, j)
    PROVE  /\ i.kind \in Kinds /\ i.step \in Nat /\ i.used \in Nat /\ j.used \in 0..i.used
           /\ Flying(i) <=> i.step \in (CheckAt(i.kind) + 1)..(SaveAt(i.kind) + 1)
           /\ Flying(j) <=> i.step \in CheckAt(i.kind)..SaveAt(i.kind)
           /\ Owing(i) <=> i.step = SaveAt(i.kind) + 1
           /\ Owing(j) <=> i.step = SaveAt(i.kind)
           /\ Weight(j) = Weight(i) /\ Weight(i) \in 1..3 /\ j.reading = "NO"
<1>1. i.kind \in Kinds /\ i.step \in 1..EndAt(i.kind) /\ i.used \in Nat /\ Weight(i) \in 1..3
  BY DEF MeteredJob
<1>2. /\ CheckAt(i.kind) \in Nat /\ SaveAt(i.kind) \in Nat /\ EndAt(i.kind) \in Nat
      /\ 1 <= CheckAt(i.kind) /\ CheckAt(i.kind) + 2 <= SaveAt(i.kind)
  BY <1>1, StepsAre
<1>3. Weight(j) = Weight(i)
  BY WeightKept DEF Onward
<1> QED BY <1>1, <1>2, <1>3 DEF Onward, Flying, Owing

(* A step that is neither the last check, nor the storing of a result, nor the charge. *)
LEMMA QuietStep ==
    ASSUME NEW a, NEW l, NEW k, NEW lim, Ledger(a, l, k, lim), NEW h \in Handlers,
           job[h].kind # "NONE", ~job[h].failed, job[h].reading = "NO",
           job[h].step \notin {CheckAt(job[h].kind), SaveAt(job[h].kind), SaveAt(job[h].kind) + 1},
           AiStudio!Advance(h), UNCHANGED <<action, up, counter, memory, usage, pending, delivered, errors, outages>>
    PROVE  Ledger(a, l, k, lim)'
<1>1. /\ MeteredJob(job[h]) /\ Fits(job[h], a, k) /\ outages \in Nat /\ errors \in Nat
      /\ Books(job, up, counter, memory, usage, pending, delivered, l, k, lim)
  BY LedgerIs
<1>2. PICK j : /\ MeteredJob(j) /\ Fits(j, a, k) /\ job' = [job EXCEPT ![h] = j]
               /\ IF job[h].step = EndAt(job[h].kind) THEN j = AiStudio!NoJob ELSE Onward(job[h], j)
  BY <1>1, AdvanceMakes
<1>3. PICK i, b : i = job[h] /\ b = [job EXCEPT ![h] = j]
  OBVIOUS
<1>4. Books(b, up, counter, memory, usage, pending, delivered, l, k, lim)
  <2>1. CASE i.step = EndAt(i.kind)
    <3>1. j = AiStudio!NoJob
      BY <1>2, <1>3, <2>1
    <3>2. i.used \in Nat /\ 0 \in 0..i.used
      BY <1>1, <1>3 DEF MeteredJob
    <3>3. ~Owing(i) /\ Due(i) = 0
      BY <1>3 DEF Owing, Due
    <3>4. MeteredJob(j) /\ ~Flying(j) /\ j.reading = "NO" /\ j.used \in 0..i.used
      BY <3>1, <3>2, NoJobIs
    <3>5. Books(b, up, counter, memory, usage, pending, delivered, l, k, lim + Due(i))
      BY <1>1, <1>3, <3>4, BooksEnd
    <3>6. lim + Due(i) = lim
      BY <1>1, <3>3 DEF Books, Within
    <3> QED BY <3>5, <3>6
  <2>2. CASE i.step # EndAt(i.kind)
    <3>1. Onward(i, j)
      BY <1>2, <1>3, <2>2
    <3>2. MeteredJob(i) /\ i.kind # "NONE" /\ ~i.failed
      BY <1>1, <1>3
    <3>3. /\ i.kind \in Kinds /\ i.step \in Nat /\ i.used \in Nat /\ j.used \in 0..i.used
          /\ Flying(i) <=> i.step \in (CheckAt(i.kind) + 1)..(SaveAt(i.kind) + 1)
          /\ Flying(j) <=> i.step \in CheckAt(i.kind)..SaveAt(i.kind)
          /\ Owing(i) <=> i.step = SaveAt(i.kind) + 1
          /\ Owing(j) <=> i.step = SaveAt(i.kind)
          /\ Weight(j) = Weight(i) /\ j.reading = "NO"
      BY <3>1, <3>2, OnwardFlies
    <3>4. CheckAt(i.kind) \in Nat /\ SaveAt(i.kind) \in Nat
      BY <3>3, StepsAre
    <3>5. (Flying(i) <=> Flying(j)) /\ (Owing(i) <=> Owing(j))
      BY <1>3, <3>3, <3>4
    <3>6. Flown(j) = Flown(i) /\ Due(j) = Due(i)
      BY <3>3, <3>5 DEF Flown, Due
    <3>7. j.reading = "NO" <=> i.reading = "NO"
      BY <1>3, <3>3
    <3> QED BY <1>1, <1>2, <1>3, <3>3, <3>6, <3>7, BooksKeep
  <2> QED BY <2>1, <2>2
<1>5. Books(job', up', counter', memory', usage', pending', delivered', l, k, lim)
  BY <1>2, <1>3, <1>4
<1>6. action' = action /\ outages' \in Nat /\ errors' \in Nat
  BY <1>1
<1> QED BY <1>2, <1>5, <1>6, LedgerOn

(* A request gives up that owes nothing. *)
LEMMA FailedStep ==
    ASSUME NEW a, NEW l, NEW k, NEW lim, Ledger(a, l, k, lim), NEW h \in Handlers,
           job[h].kind # "NONE", job[h].step # SaveAt(job[h].kind) + 1,
           AiStudio!Fail(h), UNCHANGED <<action, up, counter, memory, usage, pending, delivered, errors, outages>>
    PROVE  Ledger(a, l, k, lim)'
<1>1. /\ MeteredJob(job[h]) /\ Fits(job[h], a, k) /\ outages \in Nat /\ errors \in Nat
      /\ Books(job, up, counter, memory, usage, pending, delivered, l, k, lim)
  BY LedgerIs
<1>2. PICK j : /\ MeteredJob(j) /\ Fits(j, a, k) /\ job' = [job EXCEPT ![h] = j]
               /\ ~Flying(j) /\ j.reading = "NO" /\ j.used \in 0..job[h].used
  BY <1>1, FailMakes
<1>3. PICK i, b : i = job[h] /\ b = [job EXCEPT ![h] = j]
  OBVIOUS
<1>4. Due(i) = 0
  BY <1>3 DEF Owing, Due
<1>5. Books(b, up, counter, memory, usage, pending, delivered, l, k, lim + Due(i))
  BY <1>1, <1>2, <1>3, BooksEnd
<1>6. lim + Due(i) = lim
  BY <1>1, <1>4 DEF Books, Within
<1>7. Books(job', up', counter', memory', usage', pending', delivered', l, k, lim)
  BY <1>2, <1>3, <1>5, <1>6
<1>8. action' = action /\ outages' \in Nat /\ errors' \in Nat
  BY <1>1
<1> QED BY <1>2, <1>7, <1>8, LedgerOn

(* A request is over: it ended, its lock was taken, or it died. *)
LEMMA GoneStep ==
    ASSUME NEW a, NEW l, NEW k, NEW lim, Ledger(a, l, k, lim), NEW h \in Handlers,
           job' = [job EXCEPT ![h] = AiStudio!NoJob],
           UNCHANGED <<action, up, counter, memory, usage, pending, delivered, outages>>, errors' \in Nat,
           NEW n \in Nat, lim + Due(job[h]) <= n
    PROVE  Ledger(a, l, k, n)'
<1>1. /\ MeteredJob(job[h]) /\ Fits(job[h], a, k) /\ outages \in Nat
      /\ Books(job, up, counter, memory, usage, pending, delivered, l, k, lim)
  BY LedgerIs
<1>2. PICK j : j = AiStudio!NoJob
  OBVIOUS
<1>3. PICK i, b : i = job[h] /\ b = [job EXCEPT ![h] = j]
  OBVIOUS
<1>4. MeteredJob(j) /\ Fits(j, a, k) /\ ~Flying(j) /\ j.reading = "NO" /\ j.used \in 0..i.used
  <2>1. 0 \in 0..i.used
    BY <1>1, <1>3 DEF MeteredJob
  <2> QED BY <1>2, <2>1, NoJobIs
<1>5. Books(b, up, counter, memory, usage, pending, delivered, l, k, lim + Due(i))
  BY <1>1, <1>3, <1>4, BooksEnd
<1>6. Books(b, up, counter, memory, usage, pending, delivered, l, k, n)
  BY <1>3, <1>5, BooksGrow
<1>7. Books(job', up', counter', memory', usage', pending', delivered', l, k, n)
  BY <1>2, <1>3, <1>6
<1>8. action' = action /\ outages' \in Nat /\ job' = [job EXCEPT ![h] = j]
  BY <1>1, <1>2
<1> QED BY <1>4, <1>7, <1>8, LedgerOn

(* QuotaService.assertQuota decides: i.used, or the count in use, is v. *)
LEMMA DecideIs ==
    ASSUME NEW a, NEW l, NEW k, NEW lim, Ledger(a, l, k, lim), NEW h \in Handlers,
           job[h].kind # "NONE", AiStudio!Asserting(h), NEW v, AiStudio!Decide(h, v)
    PROVE  /\ job[h].kind \in Kinds /\ job[h].step \in {1, CheckAt(job[h].kind)} /\ ~job[h].failed
           /\ ~Flying(job[h])
           /\ \/ AiStudio!Fail(h)
              \/ /\ AiStudio!Advance(h)
                 /\ job[h].step = CheckAt(job[h].kind) => ~(v + Weight(job[h]) > l)
<1>1. PICK i : i = job[h] /\ MeteredJob(i) /\ i.kind # "NONE" /\ action = a /\ l = Limit[a] /\ a \in AiStudio!Actions
  BY LedgerIs DEF Ledger
<1>2. /\ i.kind \in Kinds /\ i.step \in 1..EndAt(i.kind) /\ AiStudio!Active(h)
      /\ AiStudio!At(h, "GUARD") <=> i.step = 1
      /\ AiStudio!At(h, "QUOTA") <=> (i.kind = "TRY_ON" /\ i.step = 4)
  BY <1>1, FlowAt
<1>3. /\ CheckAt(i.kind) \in Nat /\ SaveAt(i.kind) \in Nat /\ FreedAt(i.kind) \in Nat
      /\ FreedAt(i.kind) \notin {1, CheckAt(i.kind)} /\ CheckAt(i.kind) \in {1, 4} /\ (CheckAt(i.kind) = 4 <=> i.kind = "TRY_ON")
      /\ 1 <= CheckAt(i.kind)
  BY <1>2, StepsAre DEF CheckAt, FreedAt, Kinds
<1>4. i.step \in {1, CheckAt(i.kind)}
  BY <1>2, <1>3 DEF AiStudio!Asserting
<1>5. ~i.failed
  BY <1>1, <1>3, <1>4 DEF MeteredJob
<1>6. ~Flying(i)
  BY <1>3, <1>4 DEF Flying
<1>7. CASE v + AiStudio!Asked(h) > Limit[action]
  BY <1>1, <1>2, <1>4, <1>5, <1>6, <1>7 DEF AiStudio!Decide
<1>8. CASE ~(v + AiStudio!Asked(h) > Limit[action])
  <2>1. AiStudio!Advance(h)
    BY <1>8 DEF AiStudio!Decide
  <2>2. ASSUME i.step = CheckAt(i.kind) PROVE AiStudio!Asked(h) = Weight(i)
    <3>1. CASE i.kind = "TRY_ON"
      <4>1. AiStudio!At(h, "QUOTA")
        BY <1>2, <1>3, <2>2, <3>1
      <4>2. AiStudio!Outfit(h) = Worn(i)
        BY <1>1 DEF AiStudio!Outfit, Worn
      <4>3. AiStudio!Count(h) = Cardinality(DOMAIN Worn(i))
        BY <1>1, <3>1, <4>2, StudioCardinality DEF AiStudio!Count
      <4> QED BY <3>1, <4>1, <4>3 DEF AiStudio!Asked, Weight
    <3>2. CASE i.kind # "TRY_ON"
      BY <1>2, <3>2 DEF AiStudio!Asked, Weight
    <3> QED BY <3>1, <3>2
  <2>3. i.step = CheckAt(i.kind) => ~(v + Weight(i) > l)
    BY <1>1, <1>8, <2>2
  <2> QED BY <1>1, <1>2, <1>4, <1>5, <1>6, <2>1, <2>3
<1> QED BY <1>7, <1>8

LEMMA GetStep ==
    ASSUME NEW a, NEW l, NEW k, NEW lim, Ledger(a, l, k, lim), NEW h \in Handlers, AiStudio!AssertGet(h)
    PROVE  Ledger(a, l, k, lim)'
<1>1. /\ MeteredJob(job[h]) /\ Fits(job[h], a, k) /\ outages \in Nat /\ errors \in Nat
      /\ Books(job, up, counter, memory, usage, pending, delivered, l, k, lim)
      /\ counter \in Nat \cup {-1} /\ memory \in Nat \cup {-1} /\ up \in BOOLEAN /\ l \in Nat
  BY LedgerIs
<1>2. PICK i, v : i = job[h] /\ v = AiStudio!Read
  OBVIOUS
<1>3. v \in Nat \cup {-1} /\ v = IF up THEN counter ELSE memory
  BY <1>1, <1>2 DEF AiStudio!Read
<1>4. /\ job[h].kind # "NONE" /\ AiStudio!Asserting(h) /\ job[h].reading = "NO"
      /\ IF v # -1 THEN AiStudio!Decide(h, v) ELSE AiStudio!Go(h, [i EXCEPT !.reading = "USAGE"])
      /\ UNCHANGED <<action, up, counter, memory, usage, pending, delivered, errors, outages>>
  BY <1>2 DEF AiStudio!AssertGet, AiStudio!Asserting, AiStudio!At, AiStudio!Active, AiStudio!Env, AiStudio!quotas
<1>5. CASE v = -1
  <2>1. PICK j, b : j = [i EXCEPT !.reading = "USAGE"] /\ b = [job EXCEPT ![h] = j]
    OBVIOUS
  <2>2. i = [x \in StudioFields |-> i[x]] /\ MeteredJob(i)
    BY <1>1, <1>2 DEF MeteredJob, StudioJob
  <2>3. /\ StudioJob(j) /\ j.kind = i.kind /\ j.outfit = i.outfit /\ j.step = i.step /\ j.reading = "USAGE"
        /\ j.failed = i.failed /\ j.used = i.used
    BY <2>1, <2>2 DEF StudioJob, StudioFields
  <2>4. Weight(j) = Weight(i)
    BY <2>3, WeightKept
  <2>5. i.kind \in Kinds /\ i.step \in {1, CheckAt(i.kind)} /\ FreedAt(i.kind) \notin {1, CheckAt(i.kind)} /\ CheckAt(i.kind) \in 1..4
    <3>1. /\ i.kind \in Kinds
          /\ AiStudio!At(h, "GUARD") <=> i.step = 1
          /\ AiStudio!At(h, "QUOTA") <=> (i.kind = "TRY_ON" /\ i.step = 4)
      BY <1>1, <1>2, <1>4, FlowAt
    <3>2. /\ CheckAt(i.kind) \in Nat /\ SaveAt(i.kind) \in Nat /\ EndAt(i.kind) \in Nat /\ 1 <= CheckAt(i.kind)
          /\ CheckAt(i.kind) + 2 <= SaveAt(i.kind) /\ SaveAt(i.kind) + 1 <= EndAt(i.kind)
          /\ FreedAt(i.kind) \in {0, EndAt(i.kind), CheckAt(i.kind) + 1} /\ FreedAt(i.kind) # 1
          /\ CheckAt(i.kind) \in {1, 4} /\ (CheckAt(i.kind) = 4 <=> i.kind = "TRY_ON")
      BY <3>1, StepsAre
    <3>3. i.step \in {1, CheckAt(i.kind)}
      BY <1>4, <3>1, <3>2 DEF AiStudio!Asserting
    <3> QED BY <3>1, <3>2, <3>3
  <2>6. MeteredJob(j)
    BY <1>2, <1>4, <2>2, <2>3, <2>4, <2>5 DEF MeteredJob
  <2>7. ~Flying(i) /\ ~Flying(j)
    BY <2>3, <2>5 DEF Flying
  <2>8. j.used \in 0..i.used /\ Fits(j, a, k)
    BY <1>1, <1>2, <2>2, <2>3, <2>4 DEF MeteredJob, Fits
  <2>9. Books(b, up, counter, memory, usage, pending, delivered, l, k, lim)
    BY <1>1, <1>2, <1>3, <1>5, <2>1, <2>6, <2>7, <2>8, BooksMiss
  <2>10. job' = b
    BY <1>4, <1>5, <2>1 DEF AiStudio!Go
  <2>11. Books(job', up', counter', memory', usage', pending', delivered', l, k, lim)
    BY <1>4, <2>9, <2>10
  <2>12. action' = action /\ outages' \in Nat /\ errors' \in Nat /\ job' = [job EXCEPT ![h] = j]
    BY <1>1, <1>4, <2>1, <2>10
  <2> QED BY <2>8, <2>11, <2>12, LedgerOn
<1>6. CASE v # -1
  <2>1. AiStudio!Decide(h, v) /\ v \in Nat
    BY <1>3, <1>4, <1>6
  <2>2. /\ i.kind \in Kinds /\ i.step \in {1, CheckAt(i.kind)} /\ ~i.failed /\ ~Flying(i)
        /\ \/ AiStudio!Fail(h)
           \/ AiStudio!Advance(h) /\ (i.step = CheckAt(i.kind) => ~(v + Weight(i) > l))
    BY <1>2, <1>4, <2>1, DecideIs
  <2>3. /\ CheckAt(i.kind) \in Nat /\ SaveAt(i.kind) \in Nat /\ EndAt(i.kind) \in Nat /\ 1 <= CheckAt(i.kind)
        /\ CheckAt(i.kind) + 2 <= SaveAt(i.kind) /\ SaveAt(i.kind) + 1 <= EndAt(i.kind)
    BY <2>2, StepsAre
  <2>4. CASE AiStudio!Fail(h)
    <3>1. job[h].step # SaveAt(job[h].kind) + 1
      BY <1>2, <2>2, <2>3
    <3> QED BY <1>4, <2>4, <3>1, FailedStep
  <2>5. CASE AiStudio!Advance(h) /\ i.step # CheckAt(i.kind)
    <3>1. job[h].step \notin {CheckAt(job[h].kind), SaveAt(job[h].kind), SaveAt(job[h].kind) + 1}
      BY <1>2, <2>2, <2>3, <2>5
    <3> QED BY <1>2, <1>4, <2>2, <2>5, <3>1, QuietStep
  <2>6. CASE AiStudio!Advance(h) /\ i.step = CheckAt(i.kind) /\ ~(v + Weight(i) > l)
    <3>1. PICK j : /\ MeteredJob(j) /\ Fits(j, a, k) /\ job' = [job EXCEPT ![h] = j]
                   /\ IF job[h].step = EndAt(job[h].kind) THEN j = AiStudio!NoJob ELSE Onward(job[h], j)
      <4>1. ~job[h].failed
        BY <1>2, <2>2
      <4> QED BY <1>1, <1>4, <2>6, <4>1, AdvanceMakes
    <3>2. Onward(i, j)
      BY <1>2, <2>3, <2>6, <3>1
    <3>3. /\ j.used \in 0..i.used /\ Weight(j) = Weight(i) /\ Weight(i) \in 1..3
          /\ Flying(j) <=> i.step \in CheckAt(i.kind)..SaveAt(i.kind)
          /\ Owing(j) <=> i.step = SaveAt(i.kind)
      BY <1>1, <1>2, <1>4, <2>2, <3>2, OnwardFlies
    <3>4. Flying(j) /\ ~Owing(j)
      BY <2>3, <2>6, <3>3
    <3>5. v + Weight(j) <= l /\ Weight(j) <= k
      <4>1. v + Weight(j) <= l
        BY <1>1, <2>1, <2>6, <3>3
      <4>2. j.kind # "NONE"
        BY <1>2, <1>4, <3>2 DEF Onward
      <4> QED BY <3>1, <4>1, <4>2 DEF Fits
    <3>6. PICK b : b = [job EXCEPT ![h] = j]
      OBVIOUS
    <3>7. Books(b, up, counter, memory, usage, pending, delivered, l, k, lim)
      BY <1>1, <1>2, <1>3, <1>4, <2>1, <2>2, <3>1, <3>3, <3>4, <3>5, <3>6, BooksPass
    <3>8. Books(job', up', counter', memory', usage', pending', delivered', l, k, lim)
      BY <1>4, <3>1, <3>6, <3>7
    <3>9. action' = action /\ outages' \in Nat /\ errors' \in Nat
      BY <1>1, <1>4
    <3> QED BY <3>1, <3>8, <3>9, LedgerOn
  <2> QED BY <2>2, <2>4, <2>5, <2>6
<1> QED BY <1>5, <1>6

LEMMA LoadStep ==
    ASSUME NEW a, NEW l, NEW k, NEW lim, Ledger(a, l, k, lim), NEW h \in Handlers, AiStudio!AssertLoad(h)
    PROVE  Ledger(a, l, k, lim)'
<1>1. /\ MeteredJob(job[h]) /\ Fits(job[h], a, k) /\ outages \in Nat /\ errors \in Nat /\ usage \in Nat
      /\ Books(job, up, counter, memory, usage, pending, delivered, l, k, lim)
  BY LedgerIs
<1>2. PICK i, us : i = job[h] /\ us = usage
  OBVIOUS
<1>3. /\ i.kind # "NONE" /\ i.reading = "USAGE"
      /\ AiStudio!Go(h, [i EXCEPT !.reading = "LOADED", !.used = us])
      /\ UNCHANGED <<action, up, counter, memory, usage, pending, delivered, errors, outages>>
  BY <1>2 DEF AiStudio!AssertLoad, AiStudio!Asserting, AiStudio!At, AiStudio!Active, AiStudio!Env, AiStudio!quotas
<1>4. PICK j, b : j = [i EXCEPT !.reading = "LOADED", !.used = us] /\ b = [job EXCEPT ![h] = j]
  OBVIOUS
<1>5. i = [x \in StudioFields |-> i[x]] /\ MeteredJob(i)
  BY <1>1, <1>2 DEF MeteredJob, StudioJob
<1>6. /\ StudioJob(j) /\ j.kind = i.kind /\ j.outfit = i.outfit /\ j.step = i.step /\ j.reading = "LOADED"
      /\ j.failed = i.failed /\ j.used = us
  BY <1>4, <1>5 DEF StudioJob, StudioFields
<1>7. Weight(j) = Weight(i)
  BY <1>6, WeightKept
<1>8. MeteredJob(j)
  BY <1>1, <1>2, <1>3, <1>5, <1>6, <1>7 DEF MeteredJob
<1>9. Flown(j) = Flown(i) /\ Due(j) = Due(i)
  BY <1>6, <1>7 DEF Flown, Due, Flying, Owing
<1>10. Fits(j, a, k)
  BY <1>1, <1>2, <1>6, <1>7 DEF Fits
<1>11. j.reading = "NO" <=> i.reading = "NO"
  BY <1>3, <1>6
<1>12. Books(b, up, counter, memory, usage, pending, delivered, l, k, lim)
  BY <1>1, <1>2, <1>4, <1>6, <1>8, <1>9, <1>11, BooksKeep
<1>13. Books(job', up', counter', memory', usage', pending', delivered', l, k, lim)
  BY <1>3, <1>4, <1>12 DEF AiStudio!Go
<1>14. action' = action /\ outages' \in Nat /\ errors' \in Nat /\ job' = [job EXCEPT ![h] = j]
  BY <1>1, <1>3, <1>4 DEF AiStudio!Go
<1> QED BY <1>10, <1>13, <1>14, LedgerOn

LEMMA StoreStep ==
    ASSUME NEW a, NEW l, NEW k, NEW lim, Ledger(a, l, k, lim), NEW h \in Handlers, AiStudio!AssertStore(h)
    PROVE  Ledger(a, l, k, lim)'
<1>1. /\ MeteredJob(job[h]) /\ Fits(job[h], a, k) /\ outages \in Nat /\ errors \in Nat
      /\ Books(job, up, counter, memory, usage, pending, delivered, l, k, lim)
      /\ counter \in Nat \cup {-1} /\ memory \in Nat \cup {-1} /\ up \in BOOLEAN /\ l \in Nat
  BY LedgerIs
<1>2. PICK i, y, z : /\ i = job[h] /\ y = (IF up THEN i.used ELSE counter)
                     /\ z = (IF up THEN memory ELSE i.used)
  OBVIOUS
<1>3. /\ i.kind # "NONE" /\ AiStudio!Asserting(h) /\ i.reading = "LOADED" /\ AiStudio!Decide(h, i.used)
      /\ counter' = y /\ memory' = z
      /\ UNCHANGED <<action, up, usage, pending, delivered, errors, outages>>
  BY <1>1, <1>2 DEF AiStudio!AssertStore, AiStudio!Asserting, AiStudio!At, AiStudio!Active, AiStudio!Env, AiStudio!Write
<1>4. /\ i.kind \in Kinds /\ i.step \in {1, CheckAt(i.kind)} /\ ~i.failed /\ ~Flying(i)
      /\ \/ AiStudio!Fail(h)
         \/ AiStudio!Advance(h) /\ (i.step = CheckAt(i.kind) => ~(i.used + Weight(i) > l))
  BY <1>2, <1>3, DecideIs
<1>5. /\ CheckAt(i.kind) \in Nat /\ SaveAt(i.kind) \in Nat /\ EndAt(i.kind) \in Nat /\ 1 <= CheckAt(i.kind)
      /\ CheckAt(i.kind) + 2 <= SaveAt(i.kind) /\ SaveAt(i.kind) + 1 <= EndAt(i.kind)
  BY <1>4, StepsAre
<1>6. PICK j : /\ MeteredJob(j) /\ Fits(j, a, k) /\ job' = [job EXCEPT ![h] = j] /\ j.reading = "NO"
               /\ ~Owing(j) /\ j.used \in 0..i.used /\ (Flying(j) => i.used + Weight(j) <= l /\ Weight(j) <= k)
  <2>1. CASE AiStudio!Fail(h)
    <3>1. PICK j : /\ MeteredJob(j) /\ Fits(j, a, k) /\ job' = [job EXCEPT ![h] = j]
                   /\ ~Flying(j) /\ j.reading = "NO" /\ j.used \in 0..job[h].used
      BY <1>1, <1>2, <1>3, <2>1, FailMakes
    <3>2. ~Owing(j)
      BY <3>1, FlyingIs
    <3> QED BY <1>2, <3>1, <3>2
  <2>2. CASE AiStudio!Advance(h) /\ (i.step = CheckAt(i.kind) => ~(i.used + Weight(i) > l))
    <3>1. PICK j : /\ MeteredJob(j) /\ Fits(j, a, k) /\ job' = [job EXCEPT ![h] = j]
                   /\ IF job[h].step = EndAt(job[h].kind) THEN j = AiStudio!NoJob ELSE Onward(job[h], j)
      <4>1. ~job[h].failed /\ job[h].kind # "NONE"
        BY <1>2, <1>3, <1>4
      <4> QED BY <1>1, <2>2, <4>1, AdvanceMakes
    <3>2. Onward(i, j)
      BY <1>2, <1>4, <1>5, <3>1
    <3>3. /\ j.used \in 0..i.used /\ i.used \in Nat /\ Weight(j) = Weight(i) /\ Weight(i) \in 1..3 /\ j.reading = "NO"
          /\ Flying(j) <=> i.step \in CheckAt(i.kind)..SaveAt(i.kind)
          /\ Owing(j) <=> i.step = SaveAt(i.kind)
      BY <1>1, <1>2, <1>3, <1>4, <3>2, OnwardFlies
    <3>4. ~Owing(j)
      BY <1>4, <1>5, <3>3
    <3>5. ASSUME Flying(j) PROVE i.used + Weight(j) <= l /\ Weight(j) <= k
      <4>1. i.step = CheckAt(i.kind)
        BY <1>4, <1>5, <3>3, <3>5
      <4>2. i.used + Weight(j) <= l
        BY <1>1, <2>2, <3>3, <4>1
      <4>3. j.kind # "NONE"
        BY <3>5 DEF Flying
      <4> QED BY <3>1, <4>2, <4>3 DEF Fits
    <3> QED BY <3>1, <3>3, <3>4, <3>5
  <2> QED BY <1>4, <2>1, <2>2
<1>7. PICK b : b = [job EXCEPT ![h] = j]
  OBVIOUS
<1>8. Books(b, up, y, z, usage, pending, delivered, l, k, lim)
  <2>1. StoreCase(job, up, counter, memory, usage, pending, delivered, l, k, lim, h, i, j, y, z)
    BY <1>1, <1>2, <1>3, <1>6 DEF StoreCase
  <2> QED BY <1>7, <2>1, BooksStore
<1>9. Books(job', up', counter', memory', usage', pending', delivered', l, k, lim)
  BY <1>3, <1>6, <1>7, <1>8
<1>10. action' = action /\ outages' \in Nat /\ errors' \in Nat
  BY <1>1, <1>3
<1> QED BY <1>6, <1>9, <1>10, LedgerOn

\* How much a request is charged.
LEMMA CountIs ==
    ASSUME NEW h \in Handlers
    PROVE  AiStudio!Count(h) = Weight(job[h])
<1>1. PICK i : i = job[h]
  OBVIOUS
<1>2. AiStudio!Outfit(h) = Worn(i)
  BY <1>1 DEF AiStudio!Outfit, Worn
<1>3. AiStudio!Cardinality(DOMAIN AiStudio!Outfit(h)) = Cardinality(DOMAIN Worn(i))
  BY <1>2, StudioCardinality
<1> QED BY <1>1, <1>3 DEF AiStudio!Count, Weight

LEMMA ConsumeStep ==
    ASSUME NEW a, NEW l, NEW k, NEW lim, Ledger(a, l, k, lim), NEW h \in Handlers, AiStudio!consumeQuota(h)
    PROVE  Ledger(a, l, k, lim)'
<1>1. /\ MeteredJob(job[h]) /\ Fits(job[h], a, k) /\ outages \in Nat /\ errors \in Nat
      /\ Books(job, up, counter, memory, usage, pending, delivered, l, k, lim)
      /\ counter \in Nat \cup {-1} /\ memory \in Nat \cup {-1} /\ up \in BOOLEAN
  BY LedgerIs
<1>2. PICK i : i = job[h]
  OBVIOUS
<1>3. PICK v : v = (IF up THEN counter ELSE memory)
  OBVIOUS
<1>4. PICK n : n = (IF v = -1 THEN 0 ELSE v) + Weight(i)
  OBVIOUS
<1>5. PICK y, z : y = (IF up THEN n ELSE counter) /\ z = (IF up THEN memory ELSE n)
  OBVIOUS
<1>6. AiStudio!Used + AiStudio!Count(h) = n
  BY <1>2, <1>3, <1>4, CountIs DEF AiStudio!Used, AiStudio!Read
<1>7. /\ AiStudio!At(h, "CONSUME") /\ i.kind # "NONE" /\ AiStudio!Advance(h)
      /\ counter' = y /\ memory' = z /\ pending' = pending + Weight(i)
      /\ UNCHANGED <<action, up, usage, delivered, errors, outages>>
  BY <1>1, <1>2, <1>5, <1>6, CountIs DEF AiStudio!consumeQuota, AiStudio!At, AiStudio!Active, AiStudio!Env, AiStudio!Write
<1>8. /\ i.kind \in Kinds /\ i.step \in 1..EndAt(i.kind) /\ i.step = SaveAt(i.kind) + 1
      /\ AiStudio!AtEnd(h) <=> i.step = EndAt(i.kind)
  BY <1>1, <1>2, <1>7, FlowAt
<1>9. /\ CheckAt(i.kind) \in Nat /\ SaveAt(i.kind) \in Nat /\ EndAt(i.kind) \in Nat
      /\ FreedAt(i.kind) # SaveAt(i.kind) + 1
  BY <1>8, StepsAre
<1>10. ~i.failed /\ Owing(i)
  BY <1>1, <1>2, <1>7, <1>8, <1>9 DEF MeteredJob, Owing
<1>11. PICK j : /\ MeteredJob(j) /\ Fits(j, a, k) /\ job' = [job EXCEPT ![h] = j]
                /\ IF job[h].step = EndAt(job[h].kind) THEN j = AiStudio!NoJob ELSE Onward(job[h], j)
  <2>1. ~job[h].failed /\ job[h].kind # "NONE"
    BY <1>2, <1>7, <1>10
  <2> QED BY <1>1, <1>7, <2>1, AdvanceMakes
<1>12. ~Flying(j) /\ j.reading = "NO" /\ j.used \in 0..i.used
  <2>1. CASE j = AiStudio!NoJob
    <3>1. 0 \in 0..i.used
      BY <1>1, <1>2 DEF MeteredJob
    <3> QED BY <2>1, <3>1, NoJobIs
  <2>2. CASE Onward(i, j)
    <3>1. /\ j.used \in 0..i.used /\ j.reading = "NO"
          /\ Flying(j) <=> i.step \in CheckAt(i.kind)..SaveAt(i.kind)
      BY <1>1, <1>2, <1>7, <1>10, <2>2, OnwardFlies
    <3>2. i.step \notin CheckAt(i.kind)..SaveAt(i.kind)
      BY <1>8, <1>9
    <3> QED BY <3>1, <3>2
  <2> QED BY <1>2, <1>11, <2>1, <2>2
<1>13. PICK b : b = [job EXCEPT ![h] = j]
  OBVIOUS
<1>14. Books(b, up, y, z, usage, pending + Weight(i), delivered, l, k, lim)
  <2>1. ChargeCase(job, up, counter, memory, usage, pending, delivered, l, k, lim, h, i, j, v, n, y, z)
    BY <1>1, <1>2, <1>3, <1>4, <1>5, <1>10, <1>11, <1>12 DEF ChargeCase
  <2> QED BY <1>13, <2>1, BooksCharge
<1>15. Books(job', up', counter', memory', usage', pending', delivered', l, k, lim)
  BY <1>7, <1>11, <1>13, <1>14
<1>16. action' = action /\ outages' \in Nat /\ errors' \in Nat
  BY <1>1, <1>7
<1> QED BY <1>11, <1>15, <1>16, LedgerOn

LEMMA SaveStep ==
    ASSUME NEW a, NEW l, NEW k, NEW lim, Ledger(a, l, k, lim), NEW h \in Handlers, AiStudio!Save(h)
    PROVE  Ledger(a, l, k, lim)'
<1>1. /\ MeteredJob(job[h]) /\ Fits(job[h], a, k) /\ outages \in Nat /\ errors \in Nat
      /\ Books(job, up, counter, memory, usage, pending, delivered, l, k, lim)
  BY LedgerIs
<1>2. PICK i : i = job[h]
  OBVIOUS
<1>3. /\ AiStudio!At(h, "SAVE") /\ i.kind # "NONE"
      /\ \/ AiStudio!Fail(h) /\ delivered' = delivered
         \/ AiStudio!Advance(h) /\ delivered' = delivered + Weight(i)
      /\ UNCHANGED <<action, up, counter, memory, usage, pending, errors, outages>>
  BY <1>2, CountIs DEF AiStudio!Save, AiStudio!At, AiStudio!Active, AiStudio!Env
<1>4. i.kind \in Kinds /\ i.step = SaveAt(i.kind)
  BY <1>1, <1>2, <1>3, FlowAt
<1>5. /\ CheckAt(i.kind) \in Nat /\ SaveAt(i.kind) \in Nat /\ EndAt(i.kind) \in Nat
      /\ FreedAt(i.kind) # SaveAt(i.kind) /\ CheckAt(i.kind) + 2 <= SaveAt(i.kind) /\ SaveAt(i.kind) + 1 <= EndAt(i.kind)
  BY <1>4, StepsAre
<1>6. CASE AiStudio!Fail(h) /\ delivered' = delivered
  <2>1. job[h].step # SaveAt(job[h].kind) + 1 /\ job[h].kind # "NONE"
    BY <1>2, <1>3, <1>4, <1>5
  <2> QED BY <1>3, <1>6, <2>1, FailedStep
<1>7. CASE AiStudio!Advance(h) /\ delivered' = delivered + Weight(i)
  <2>1. ~i.failed
    BY <1>1, <1>2, <1>3, <1>4, <1>5 DEF MeteredJob
  <2>2. PICK j : /\ MeteredJob(j) /\ Fits(j, a, k) /\ job' = [job EXCEPT ![h] = j]
                 /\ IF job[h].step = EndAt(job[h].kind) THEN j = AiStudio!NoJob ELSE Onward(job[h], j)
    <3>1. ~job[h].failed /\ job[h].kind # "NONE"
      BY <1>2, <1>3, <2>1
    <3> QED BY <1>1, <1>7, <3>1, AdvanceMakes
  <2>3. Onward(i, j)
    BY <1>2, <1>4, <1>5, <2>2
  <2>4. /\ j.used \in 0..i.used
        /\ Flying(i) <=> i.step \in (CheckAt(i.kind) + 1)..(SaveAt(i.kind) + 1)
        /\ Owing(i) <=> i.step = SaveAt(i.kind) + 1
        /\ Owing(j) <=> i.step = SaveAt(i.kind)
        /\ Weight(j) = Weight(i)
    BY <1>1, <1>2, <1>3, <2>1, <2>3, OnwardFlies
  <2>5. Flying(i) /\ ~Owing(i) /\ Owing(j)
    BY <1>4, <1>5, <2>4
  <2>6. PICK b : b = [job EXCEPT ![h] = j]
    OBVIOUS
  <2>7. Books(b, up, counter, memory, usage, pending, delivered + Weight(i), l, k, lim)
    BY <1>1, <1>2, <2>2, <2>4, <2>5, <2>6, BooksSave
  <2>8. Books(job', up', counter', memory', usage', pending', delivered', l, k, lim)
    BY <1>3, <1>7, <2>2, <2>6, <2>7
  <2>9. action' = action /\ outages' \in Nat /\ errors' \in Nat
    BY <1>1, <1>3
  <2> QED BY <2>2, <2>8, <2>9, LedgerOn
<1> QED BY <1>3, <1>6, <1>7

\* A request is made.
LEMMA AskedStep ==
    ASSUME NEW a, NEW l, NEW k, NEW lim, Ledger(a, l, k, lim), NEW h \in Handlers, AiStudio!FreshRequest(h)
    PROVE  Ledger(a, l, k, lim)'
<1>1. /\ MeteredJob(job[h]) /\ outages \in Nat /\ errors \in Nat /\ k = Most(a) /\ action = a /\ a \in AiStudio!Actions
      /\ Books(job, up, counter, memory, usage, pending, delivered, l, k, lim)
  BY LedgerIs DEF Ledger
<1>2. PICK x \in AiStudio!KindsOf[a] : /\ ~AiStudio!Active(h)
          /\ \E p \in (IF x = "TRY_ON" THEN {{o} : o \in AiStudio!Wearable} ELSE {{}}) : AiStudio!Request(h, x, p)
  BY <1>1 DEF AiStudio!FreshRequest
<1>3. PICK outfit \in (IF x = "TRY_ON" THEN {{o} : o \in AiStudio!Wearable} ELSE {{}}) : AiStudio!Request(h, x, outfit)
  BY <1>2
<1>4. PICK i, j, b : /\ i = job[h] /\ j = [AiStudio!NoJob EXCEPT !.kind = x, !.step = 1, !.outfit = outfit]
                     /\ b = [job EXCEPT ![h] = j]
  OBVIOUS
<1>5. /\ i.kind = "NONE" /\ job' = b
      /\ UNCHANGED <<action, up, counter, memory, usage, pending, delivered, errors, outages>>
  BY <1>2, <1>3, <1>4 DEF AiStudio!Request, AiStudio!Go, AiStudio!Active, AiStudio!Env, AiStudio!quotas
<1>6. /\ StudioJob(j) /\ j.kind = x /\ j.step = 1 /\ j.outfit = outfit /\ j.reading = "NO" /\ j.used = 0 /\ j.failed = FALSE
  BY <1>4 DEF StudioJob, StudioFields, AiStudio!NoJob
<1>7. x \in Kinds /\ (x = "TRY_ON" => a = "TRY_ON")
  BY <1>1 DEF AiStudio!KindsOf, AiStudio!Actions, Kinds
<1>8. 1 <= Most(a) /\ Most(a) \in Nat
      /\ (a = "TRY_ON" => \A o \in AiStudio!Wearable : /\ Cardinality(DOMAIN o) \in 1..3
                                                      /\ Cardinality(DOMAIN o) <= Most(a))
  BY MostIs
<1>9. Weight(j) \in 1..3 /\ Weight(j) <= k
  <2>1. CASE x = "TRY_ON"
    <3>1. PICK o \in AiStudio!Wearable : outfit = {o}
      BY <1>3, <2>1
    <3>2. Worn(j) = o
      BY <1>6, <3>1 DEF Worn
    <3>3. Weight(j) = Cardinality(DOMAIN o)
      BY <1>6, <2>1, <3>2 DEF Weight
    <3> QED BY <1>1, <1>7, <1>8, <2>1, <3>3
  <2>2. CASE x # "TRY_ON"
    BY <1>1, <1>6, <1>8, <2>2 DEF Weight
  <2> QED BY <2>1, <2>2
<1>10. /\ CheckAt(x) \in Nat /\ SaveAt(x) \in Nat /\ EndAt(x) \in Nat /\ 1 <= CheckAt(x)
      /\ CheckAt(x) + 2 <= SaveAt(x) /\ SaveAt(x) + 1 <= EndAt(x)
  BY <1>7, StepsAre
<1>11. MeteredJob(j)
  <2>1. 1 \in 1..EndAt(x)
    BY <1>10
  <2>2. j.step \in 1..EndAt(j.kind) /\ j.kind \in Kinds \cup {"NONE"} /\ j.kind # "NONE"
    BY <1>6, <1>7, <2>1 DEF Kinds
  <2>3. j.used \in Nat
    BY <1>6
  <2>4. j.failed \in BOOLEAN /\ ~j.failed
    BY ONLY <1>6, Zenon
  <2>5. j.reading = "NO"
    BY <1>6
  <2> QED BY <1>6, <1>9, <2>2, <2>3, <2>4, <2>5 DEF MeteredJob
<1>12. ~Flying(j) /\ ~Owing(j) /\ ~Flying(i) /\ ~Owing(i)
  BY <1>5, <1>6, <1>10 DEF Flying, Owing
<1>13. Flown(j) = Flown(i) /\ Due(j) = Due(i)
  BY <1>12 DEF Flown, Due
<1>14. Fits(j, a, k)
  BY <1>6, <1>9 DEF Fits
<1>15. i.reading = "NO" /\ j.used \in 0..i.used
  BY <1>1, <1>4, <1>5, <1>6 DEF MeteredJob
<1>16. Books(b, up, counter, memory, usage, pending, delivered, l, k, lim)
  BY <1>1, <1>4, <1>6, <1>11, <1>13, <1>15, BooksKeep
<1>17. Books(job', up', counter', memory', usage', pending', delivered', l, k, lim)
  BY <1>5, <1>16
<1>18. action' = action /\ outages' \in Nat /\ errors' \in Nat /\ job' = [job EXCEPT ![h] = j]
  BY <1>1, <1>4, <1>5
<1> QED BY <1>14, <1>17, <1>18, LedgerOn

\* The steps that neither check nor store nor charge.
Aside == UNCHANGED <<action, up, counter, memory, usage, pending, delivered, errors, outages>>
LEMMA AsideStep ==
    ASSUME NEW a, NEW l, NEW k, NEW lim, Ledger(a, l, k, lim), NEW h \in Handlers, Aside,
           NEW x \in {"LOCK", "CACHE", "ASK", "PROVIDER"}, AiStudio!At(h, x),
           \/ AiStudio!Advance(h) \/ AiStudio!Fail(h) \/ job' = [job EXCEPT ![h] = AiStudio!NoJob]
    PROVE  Ledger(a, l, k, lim)'
<1>1. /\ MeteredJob(job[h]) /\ errors \in Nat
      /\ Books(job, up, counter, memory, usage, pending, delivered, l, k, lim)
  BY LedgerIs
<1>2. job[h].kind # "NONE"
  BY DEF AiStudio!At, AiStudio!Active
<1>3. /\ job[h].step \notin {1, CheckAt(job[h].kind), SaveAt(job[h].kind), SaveAt(job[h].kind) + 1}
      /\ job[h].step # FreedAt(job[h].kind)
  BY <1>1, <1>2, FlowAt
<1>4. ~job[h].failed /\ job[h].reading = "NO"
  BY <1>1, <1>2, <1>3 DEF MeteredJob
<1>5. CASE AiStudio!Advance(h)
  BY <1>2, <1>3, <1>4, <1>5, QuietStep DEF Aside
<1>6. CASE AiStudio!Fail(h)
  BY <1>2, <1>3, <1>6, FailedStep DEF Aside
<1>7. CASE job' = [job EXCEPT ![h] = AiStudio!NoJob]
  <2>1. Due(job[h]) = 0
    BY <1>3 DEF Due, Owing
  <2>2. lim \in Nat
    BY <1>1 DEF Books, Within
  <2>3. errors' \in Nat /\ lim + Due(job[h]) <= lim
    BY <1>1, <2>1, <2>2 DEF Aside
  <2> QED BY <1>7, <2>2, <2>3, GoneStep DEF Aside
<1> QED BY <1>5, <1>6, <1>7

LEMMA ReleaseStep ==
    ASSUME NEW a, NEW l, NEW k, NEW lim, Ledger(a, l, k, lim), NEW h \in Handlers, AiStudio!releaseLock(h)
    PROVE  Ledger(a, l, k, lim)'
<1>1. /\ MeteredJob(job[h]) /\ errors \in Nat
      /\ Books(job, up, counter, memory, usage, pending, delivered, l, k, lim)
  BY LedgerIs
<1>2. /\ AiStudio!At(h, "RELEASE") /\ job[h].kind # "NONE" /\ Aside
      /\ IF job[h].failed THEN job' = [job EXCEPT ![h] = AiStudio!NoJob] ELSE AiStudio!Advance(h)
  BY DEF AiStudio!releaseLock, AiStudio!At, AiStudio!Active, AiStudio!Go, AiStudio!Env, AiStudio!quotas, Aside
<1>3. job[h].kind \in Kinds /\ job[h].step = FreedAt(job[h].kind) /\ job[h].step \in 1..EndAt(job[h].kind)
  BY <1>1, <1>2, FlowAt
<1>4. /\ FreedAt(job[h].kind) \notin {1, CheckAt(job[h].kind), SaveAt(job[h].kind), SaveAt(job[h].kind) + 1}
  BY <1>3 DEF Kinds, CheckAt, SaveAt, FreedAt
<1>5. CASE job[h].failed
  <2>1. Due(job[h]) = 0
    BY <1>5 DEF Due, Owing
  <2>2. lim \in Nat
    BY <1>1 DEF Books, Within
  <2>3. errors' \in Nat /\ lim + Due(job[h]) <= lim
    BY <1>1, <1>2, <2>1, <2>2 DEF Aside
  <2> QED BY <1>2, <1>5, <2>2, <2>3, GoneStep DEF Aside
<1>6. CASE ~job[h].failed
  <2>1. job[h].reading = "NO"
    BY <1>1, <1>3, <1>4 DEF MeteredJob
  <2> QED BY <1>2, <1>3, <1>4, <1>6, <2>1, QuietStep DEF Aside
<1> QED BY <1>5, <1>6

\* A request dies, and what it owes is not charged.
LEMMA CrashStep ==
    ASSUME NEW a, NEW l, NEW k, NEW lim, Ledger(a, l, k, lim), NEW h \in Handlers, AiStudio!Crash(h)
    PROVE  Ledger(a, l, k, lim + k)' /\ errors' = errors + 1 /\ outages' = outages
<1>1. /\ MeteredJob(job[h]) /\ errors \in Nat /\ k \in Nat /\ Flown(job[h]) <= k
      /\ Books(job, up, counter, memory, usage, pending, delivered, l, k, lim)
  BY LedgerIs
<1>2. /\ job' = [job EXCEPT ![h] = AiStudio!NoJob] /\ errors' = errors + 1 /\ outages' = outages
      /\ UNCHANGED <<action, up, counter, memory, usage, pending, delivered, outages>>
  BY DEF AiStudio!Crash, AiStudio!Go, AiStudio!quotas
<1>3. lim \in Nat /\ lim + k \in Nat /\ errors' \in Nat
  BY <1>1, <1>2 DEF Books, Within
<1>4. lim + Due(job[h]) <= lim + k
  BY <1>1, <1>3, FlownIs
<1> QED BY <1>2, <1>3, <1>4, GoneStep

\* What may be delivered after the outages and errors so far.
Allowed(l, k, o, e) == Whole(l, k) * (1 + o) + e * k

LEMMA AllowedIs ==
    ASSUME NEW l \in Nat, NEW k \in Nat, NEW o \in Nat, NEW e \in Nat
    PROVE  /\ Whole(l, k) \in Nat /\ Allowed(l, k, o, e) \in Nat
           /\ Allowed(l, k, o, e + 1) = Allowed(l, k, o, e) + k
           /\ Allowed(l, k, o + 1, e) = Allowed(l, k, o, e) + Whole(l, k)
           /\ Allowed(l, k, 0, 0) = Whole(l, k)
<1>1. Cardinality(Handlers) \in Nat
  BY FewRequests, FS_CardinalityType
<1>2. PICK w \in Nat : w = Whole(l, k)
  BY <1>1, DepthIs DEF Whole
<1>3. w * (1 + o) \in Nat /\ w * (1 + (o + 1)) = w * (1 + o) + w /\ w * (1 + 0) = w
  OBVIOUS
<1>4. e * k \in Nat /\ (e + 1) * k = e * k + k /\ 0 * k = 0
  OBVIOUS
<1> QED BY <1>2, <1>3, <1>4 DEF Allowed

\* Every action of the feature, with what it allows.
LEMMA LedgerMoves ==
    ASSUME NEW a, NEW l, NEW k, NEW lim, Ledger(a, l, k, lim), AiStudio!Next \/ UNCHANGED AiStudio!vars
    PROVE  \/ Ledger(a, l, k, lim)' /\ outages' = outages /\ errors' = errors
           \/ Ledger(a, l, k, lim + k)' /\ outages' = outages /\ errors' = errors + 1
           \/ Ledger(a, l, k, lim + Whole(l, k))' /\ outages' = outages + 1 /\ errors' = errors
<1>1. /\ k \in Nat /\ outages \in Nat /\ errors \in Nat /\ action = a /\ a \in AiStudio!Actions /\ l = Limit[a]
      /\ k = Most(a) /\ \A h \in Handlers : Fits(job[h], a, k)
      /\ Books(job, up, counter, memory, usage, pending, delivered, l, k, lim)
  BY MostIs DEF Ledger
<1>2. ASSUME NEW h \in Handlers, AiStudio!Step(h)
      PROVE  Ledger(a, l, k, lim)' /\ outages' = outages /\ errors' = errors
  <2>1. outages' = outages /\ errors' = errors
    BY <1>2 DEF AiStudio!Step, AiStudio!FreshRequest, AiStudio!Request, AiStudio!acquireLock, AiStudio!releaseLock,
            AiStudio!AssertGet, AiStudio!AssertLoad, AiStudio!AssertStore, AiStudio!consumeQuota,
            AiStudio!CacheLookup, AiStudio!Ask, AiStudio!ProviderAnswers, AiStudio!Save, AiStudio!Unanswered,
            AiStudio!PhotoRefused, AiStudio!PredictionFails, AiStudio!AdviceUnusable, AiStudio!StreamBreaks, AiStudio!Env
  <2>2. CASE AiStudio!FreshRequest(h)
    BY <2>1, <2>2, AskedStep
  <2>3. CASE AiStudio!acquireLock(h)
    <3>1. /\ AiStudio!At(h, "LOCK") /\ Aside
          /\ AiStudio!Advance(h) \/ job' = [job EXCEPT ![h] = AiStudio!NoJob]
      BY <2>3 DEF AiStudio!acquireLock, AiStudio!Go, AiStudio!Env, AiStudio!quotas, Aside
    <3> QED BY <2>1, <3>1, AsideStep
  <2>4. CASE AiStudio!releaseLock(h)
    BY <2>1, <2>4, ReleaseStep
  <2>5. CASE AiStudio!AssertGet(h)
    BY <2>1, <2>5, GetStep
  <2>6. CASE AiStudio!AssertLoad(h)
    BY <2>1, <2>6, LoadStep
  <2>7. CASE AiStudio!AssertStore(h)
    BY <2>1, <2>7, StoreStep
  <2>8. CASE AiStudio!consumeQuota(h)
    BY <2>1, <2>8, ConsumeStep
  <2>9. CASE AiStudio!CacheLookup(h)
    <3>1. AiStudio!At(h, "CACHE") /\ Aside /\ (AiStudio!Advance(h) \/ AiStudio!Fail(h))
      BY <2>9 DEF AiStudio!CacheLookup, AiStudio!Env, AiStudio!quotas, Aside
    <3> QED BY <2>1, <3>1, AsideStep
  <2>10. CASE AiStudio!Ask(h)
    <3>1. AiStudio!At(h, "ASK") /\ Aside /\ AiStudio!Advance(h)
      BY <2>10 DEF AiStudio!Ask, AiStudio!Env, AiStudio!quotas, Aside
    <3> QED BY <2>1, <3>1, AsideStep
  <2>11. CASE \/ AiStudio!ProviderAnswers(h) \/ AiStudio!PhotoRefused(h) \/ AiStudio!PredictionFails(h)
              \/ AiStudio!AdviceUnusable(h) \/ AiStudio!StreamBreaks(h)
    <3>1. AiStudio!At(h, "PROVIDER") /\ Aside /\ (AiStudio!Advance(h) \/ AiStudio!Fail(h))
      BY <2>11 DEF AiStudio!ProviderAnswers, AiStudio!PhotoRefused, AiStudio!PredictionFails, AiStudio!AdviceUnusable,
                   AiStudio!StreamBreaks, AiStudio!Unanswered, AiStudio!Env, AiStudio!quotas, Aside
    <3> QED BY <2>1, <3>1, AsideStep
  <2>12. CASE AiStudio!Save(h)
    BY <2>1, <2>12, SaveStep
  <2> QED BY <1>2, <2>2, <2>3, <2>4, <2>5, <2>6, <2>7, <2>8, <2>9, <2>10, <2>11, <2>12 DEF AiStudio!Step
<1>3. ASSUME NEW n, Books(job', up', counter', memory', usage', pending', delivered', l, k, n),
             job' = job, action' = action, outages' \in Nat, errors' \in Nat
      PROVE  Ledger(a, l, k, n)'
  BY <1>1, <1>3 DEF Ledger
<1>4. CASE AiStudio!SyncUsage \/ AiStudio!LoseUpsert
  <2>1. PICK n \in {usage, usage + pending}, z \in {0} : usage' = n /\ pending' = z
    BY <1>4 DEF AiStudio!SyncUsage, AiStudio!LoseUpsert
  <2>2. /\ UNCHANGED <<job, action, up, counter, memory, delivered, outages>>
        /\ (errors' = errors \/ errors' = errors + 1)
    BY <1>4 DEF AiStudio!SyncUsage, AiStudio!LoseUpsert, AiStudio!Env
  <2>3. Books(job, up, counter, memory, n, 0, delivered, l, k, lim)
    BY <1>1, <2>1, BooksSync
  <2>4. Books(job, up, counter, memory, n, 0, delivered, l, k, lim + k)
    <3>1. lim + k \in Nat /\ lim <= lim + k
      BY <1>1 DEF Books, Within
    <3> QED BY <2>3, <3>1, BooksGrow
  <2>5. Books(job', up', counter', memory', usage', pending', delivered', l, k, lim)
    BY <2>1, <2>2, <2>3
  <2>6. Books(job', up', counter', memory', usage', pending', delivered', l, k, lim + k)
    BY <2>1, <2>2, <2>4
  <2> QED BY <1>1, <1>3, <2>2, <2>5, <2>6
<1>5. CASE \/ \E x \in locks \cup memLocks : AiStudio!Expire(x)
           \/ AiStudio!Delete \/ UNCHANGED AiStudio!vars
  <2>1. UNCHANGED <<job, action, up, counter, memory, usage, pending, delivered, outages, errors>>
    BY <1>5 DEF AiStudio!Expire, AiStudio!Delete, AiStudio!vars, AiStudio!quotas
  <2>2. Books(job', up', counter', memory', usage', pending', delivered', l, k, lim)
    BY <1>1, <2>1
  <2> QED BY <1>1, <1>3, <2>1, <2>2
<1>6. CASE AiStudio!Disconnect
  <2>1. /\ up = TRUE /\ up' = FALSE /\ outages' = outages + 1
        /\ UNCHANGED <<job, action, counter, memory, usage, pending, delivered, errors>>
    BY <1>1, <1>6 DEF AiStudio!Disconnect, AiStudio!quotas, Books, Entries
  <2>2. Books(job, up', counter, memory, usage, pending, delivered, l, k, lim + Whole(l, k))
    BY <1>1, <2>1, BooksGoes
  <2>3. Books(job', up', counter', memory', usage', pending', delivered', l, k, lim + Whole(l, k))
    BY <2>1, <2>2
  <2> QED BY <1>1, <1>3, <2>1, <2>3
<1>7. CASE AiStudio!Reconnect
  <2>1. /\ up = FALSE /\ up' = TRUE
        /\ UNCHANGED <<job, action, counter, memory, usage, pending, delivered, errors, outages>>
    BY <1>1, <1>7 DEF AiStudio!Reconnect, AiStudio!quotas, Books, Entries
  <2>2. Books(job, up', counter, memory, usage, pending, delivered, l, k, lim)
    BY <1>1, <2>1, BooksComes
  <2>3. Books(job', up', counter', memory', usage', pending', delivered', l, k, lim)
    BY <2>1, <2>2
  <2> QED BY <1>1, <1>3, <2>1, <2>3
<1>8. ASSUME NEW h \in Handlers, AiStudio!Crash(h)
      PROVE  Ledger(a, l, k, lim + k)' /\ outages' = outages /\ errors' = errors + 1
  BY <1>8, CrashStep
<1> QED BY <1>2, <1>4, <1>5, <1>6, <1>7, <1>8 DEF AiStudio!Next

QuotaInv ==
    /\ action \in AiStudio!Actions /\ outages \in Nat /\ errors \in Nat
    /\ Ledger(action, Limit[action], Most(action), Allowed(Limit[action], Most(action), outages, errors))

LEMMA QuotaStart == ASSUME AiStudio!Init PROVE QuotaInv
<1>1. /\ action \in AiStudio!Actions /\ up = TRUE /\ counter = -1 /\ memory = -1 /\ usage = 0 /\ pending = 0
      /\ delivered = 0 /\ job = [h \in Handlers |-> AiStudio!NoJob] /\ outages = 0 /\ errors = 0
  BY DEF AiStudio!Init
<1>2. PICK a, l, k, jb : a = action /\ l = Limit[a] /\ k = Most(a) /\ jb = job
  OBVIOUS
<1>3. l \in Nat /\ k \in Nat
  BY <1>1, <1>2, MostIs, ServicesAssumption
<1>4. \A h \in Handlers : MeteredJob(jb[h]) /\ Fits(jb[h], a, k) /\ ~Flying(jb[h]) /\ jb[h].used = 0
  BY <1>1, <1>2, NoJobIs
<1>5. Metered(jb)
  BY <1>1, <1>2, <1>4 DEF Metered
<1>6. Flights(jb) = {} /\ Debts(jb) = {}
  BY <1>4, FlyingIs DEF Flights, Debts
<1>7. InFlight(jb) = 0 /\ Owed(jb) = 0
  BY <1>6, FS_EmptySet DEF InFlight, Owed
<1>8. PICK on, c : on = TRUE /\ c = -1
  OBVIOUS
<1>9. Entries(jb, on, c, c, l, k)
  BY <1>3, <1>4, <1>5, <1>8 DEF Entries
<1>10. Charged(jb, c, c, 0, 0, 0)
  BY <1>4, <1>7, <1>8 DEF Charged
<1>11. Whole(l, k) \in Nat
  BY <1>3, AllowedIs
<1>12. Within(jb, on, c, c, 0, l, k, Whole(l, k))
  <2>1. Room(jb, on, c, c, l, k) = Whole(l, k)
    BY <1>8 DEF Room, ToCome
  <2> QED BY <1>7, <1>11, <2>1 DEF Within
<1>13. Books(jb, on, c, c, 0, 0, 0, l, k, Whole(l, k))
  BY <1>9, <1>10, <1>12 DEF Books
<1>14. Allowed(l, k, outages, errors) = Whole(l, k)
  BY <1>1, <1>3, AllowedIs
<1>15. Books(job, up, counter, memory, usage, pending, delivered, l, k, Allowed(l, k, outages, errors))
  BY <1>1, <1>2, <1>8, <1>13, <1>14
<1>16. Ledger(a, l, k, Allowed(l, k, outages, errors))
  BY <1>1, <1>2, <1>4, <1>15 DEF Ledger
<1> QED BY <1>1, <1>2, <1>16 DEF QuotaInv

LEMMA QuotaStep == ASSUME QuotaInv, [AiStudio!Next]_(AiStudio!vars) PROVE QuotaInv'
<1>1. PICK a, l, k, o, e, lim : /\ a = action /\ l = Limit[a] /\ k = Most(a) /\ o = outages /\ e = errors
                                /\ lim = Allowed(l, k, o, e)
  OBVIOUS
<1>2. a \in AiStudio!Actions /\ o \in Nat /\ e \in Nat /\ Ledger(a, l, k, lim)
  BY <1>1 DEF QuotaInv
<1>3. l \in Nat /\ k \in Nat
  BY <1>1, <1>2, MostIs, ServicesAssumption
<1>4. \/ Ledger(a, l, k, lim)' /\ outages' = outages /\ errors' = errors
      \/ Ledger(a, l, k, lim + k)' /\ outages' = outages /\ errors' = errors + 1
      \/ Ledger(a, l, k, lim + Whole(l, k))' /\ outages' = outages + 1 /\ errors' = errors
  BY <1>2, LedgerMoves
<1>5. /\ Allowed(l, k, o, e + 1) = lim + k /\ Allowed(l, k, o + 1, e) = lim + Whole(l, k)
  <2>1. Allowed(l, k, o, e + 1) = Allowed(l, k, o, e) + k
    BY ONLY <1>2, <1>3, AllowedIs
  <2>2. Allowed(l, k, o + 1, e) = Allowed(l, k, o, e) + Whole(l, k)
    BY ONLY <1>2, <1>3, AllowedIs
  <2> QED BY ONLY <1>1, <2>1, <2>2
<1>6. PICK n : n = Allowed(l, k, outages', errors')
  OBVIOUS
<1>7. Ledger(a, l, k, n)' /\ outages' \in Nat /\ errors' \in Nat
  BY <1>1, <1>2, <1>4, <1>5, <1>6
<1>8. action' = a
  BY <1>7 DEF Ledger
<1> QED BY <1>1, <1>2, <1>6, <1>7, <1>8 DEF QuotaInv

LEMMA QuotaShown == ASSUME QuotaInv PROVE AiStudio!QuotaFollowsResults
<1>1. PICK a, l, k, n : a = action /\ l = Limit[a] /\ k = Most(a) /\ n = Cardinality(Handlers)
  OBVIOUS
<1>2. Books(job, up, counter, memory, usage, pending, delivered, l, k, Allowed(l, k, outages, errors))
  BY <1>1 DEF QuotaInv, Ledger
<1>3. /\ delivered <= Allowed(l, k, outages, errors)
      /\ counter <= delivered /\ memory <= delivered /\ usage + pending <= delivered
  BY <1>2, BooksSay
<1>4. AiStudio!MaxCount = k
  BY <1>1 DEF AiStudio!MaxCount, Most
<1>5. Allowed(l, k, outages, errors) = (n * l + ((n * (n - 1)) \div 2) * k) * (1 + outages) + errors * k
  BY <1>1 DEF Allowed, Whole, Depth
<1>6. AiStudio!OverrunIsBounded
  BY <1>1, <1>3, <1>4, <1>5, StudioCardinality DEF AiStudio!OverrunIsBounded
<1>7. AiStudio!NothingElseIsCharged
  BY <1>3 DEF AiStudio!NothingElseIsCharged
<1> QED BY <1>6, <1>7 DEF AiStudio!QuotaFollowsResults

(* What the user is given, and what is charged, stay within the limits for any number of
   requests at one time, any limits and outfits and any number of outages and errors: n
   requests overrun the limit l by what n counts that start again, and the checks passed
   together, allow; the counters and the table never say more than what was given
   (quota.service.ts, redis.service.ts). *)
THEOREM QuotaFollowsResultsHolds == Spec => []QuotaFollowsResults
<1>1. Init => (scope = "AiStudio" => QuotaInv)
  BY QuotaStart DEF Init
<1>2. (scope = "AiStudio" => QuotaInv) /\ [Next]_vars => (scope = "AiStudio" => QuotaInv)'
  <2>1. [Next]_vars /\ scope' = "AiStudio" => scope = "AiStudio" /\ [AiStudio!Next]_(AiStudio!vars)
    BY DEF Next, vars, shared, studio, AiStudio!vars
  <2> QED BY <2>1, QuotaStep
<1>3. (scope = "AiStudio" => QuotaInv) => QuotaFollowsResults
  BY QuotaShown DEF QuotaFollowsResults
<1> QED BY <1>1, <1>2, <1>3, PTL DEF Spec

=============================================================================
