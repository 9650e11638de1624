------------------------ MODULE ArchivePurchases_proofs ------------------------
(***************************************************************************)
(* Theorems about ArchivePurchases, for any number of challenges, plans,   *)
(* transfers, handlers and administrator's grants.                         *)
(*                                                                         *)
(* The tables alone say that recorded payments and purchased entitlements  *)
(* correspond (Bought) and what a marked challenge was paid with (Marked). *)
(* The rest is what a handler may rely on between its statements (JobOK):  *)
(* the invariant is about every handler, so each step shows what it leaves *)
(* the other handlers.                                                     *)
(***************************************************************************)
EXTENDS ArchivePurchases, FiniteSetTheorems, TLAPS

-----------------------------------------------------------------------------
(* The least of some numbers, and the greatest of the first n *)

LEMMA SmallestNat ==
  ASSUME NEW T \in SUBSET Nat, T # {}
  PROVE  \E m \in T : \A k \in T : m <= k
<1> DEFINE below == {1 .. m : m \in T}
<1>1. below \subseteq FiniteSubsetsOf(Nat) /\ below # {}
  <2>1. \A m \in T : 1 .. m \in FiniteSubsetsOf(Nat)
    BY FS_Interval DEF FiniteSubsetsOf
  <2> QED
    BY <2>1
<1>2. PICK s \in below : \A t \in below :
        ~ (<<t, s>> \in StrictSubsetOrdering(Nat))
  BY <1>1, WFMin, FS_StrictSubsetOrderingWellFounded
<1>3. PICK m \in T : s = 1 .. m
  OBVIOUS
<1>4. ASSUME NEW k \in T, k < m
      PROVE  FALSE
  <2>1. /\ 1 .. k \in below /\ 1 .. k \subseteq 1 .. m
        /\ m \in 1 .. m /\ m \notin 1 .. k
    BY <1>4
  <2>2. 1 .. k \in SUBSET Nat /\ 1 .. m \in SUBSET Nat /\ 1 .. k # 1 .. m
    BY <2>1
  <2>3. <<1 .. k, 1 .. m>> \in StrictSubsetOrdering(Nat)
    BY <2>1, <2>2 DEF StrictSubsetOrdering
  <2> QED
    BY <2>1, <2>3, <1>2, <1>3
<1> QED
  BY <1>4

Entitlement ==
  [active : BOOLEAN, source : {"purchase", "admin"}, expiresAt : Nat]

\* Of the first m rows, e is when the last active one ends, or none is active.
FirstActive(rows, m) == {id \in 1 .. m : rows[id].active}
EndsLast(rows, m, e) ==
  /\ e = 0 \/ \E id \in FirstActive(rows, m) : e = rows[id].expiresAt
  /\ \A id \in FirstActive(rows, m) : rows[id].expiresAt <= e

LEMMA NextEndsLast ==
  ASSUME NEW n \in Nat, NEW rows \in [1 .. n -> Entitlement],
         NEW m \in 1 .. n, NEW e \in Nat, EndsLast(rows, m - 1, e)
  PROVE  \E f \in Nat : EndsLast(rows, m, f)
<1>1. rows[m] \in Entitlement /\ rows[m].expiresAt \in Nat
  BY DEF Entitlement
<1>2. FirstActive(rows, m) =
        FirstActive(rows, m - 1) \cup (IF rows[m].active THEN {m} ELSE {})
  BY DEF FirstActive
<1>3. \A id \in FirstActive(rows, m - 1) : rows[id].expiresAt \in Nat
  BY DEF FirstActive, Entitlement
<1>4. CASE rows[m].active /\ e < rows[m].expiresAt
  <2>1. EndsLast(rows, m, rows[m].expiresAt)
    BY <1>1, <1>2, <1>3, <1>4 DEF EndsLast
  <2> QED
    BY <2>1, <1>1
<1>5. CASE ~ (rows[m].active /\ e < rows[m].expiresAt)
  <2>1. EndsLast(rows, m, e)
    BY <1>1, <1>2, <1>3, <1>5 DEF EndsLast
  <2> QED
    BY <2>1
<1> QED
  BY <1>4, <1>5

\* By the least number of rows for which it would be false.
LEMMA SomeRowEndsLast ==
  ASSUME NEW n \in Nat, NEW rows \in [1 .. n -> Entitlement]
  PROVE  \E e \in {0} \cup {rows[id].expiresAt : id \in ActiveRows(rows)} :
           \A id \in ActiveRows(rows) : rows[id].expiresAt <= e
<1> DEFINE bad == {m \in 0 .. n : ~ \E e \in Nat : EndsLast(rows, m, e)}
<1>1. bad = {}
  <2>1. SUFFICES ASSUME bad # {} PROVE FALSE
    OBVIOUS
  <2>2. bad \in SUBSET Nat
    OBVIOUS
  <2>3. 0 \notin bad
    <3>1. EndsLast(rows, 0, 0)
      BY DEF EndsLast, FirstActive
    <3> QED
      BY <3>1
  <2>4. \A m \in bad : m \in 0 .. n /\ ~ \E e \in Nat : EndsLast(rows, m, e)
    OBVIOUS
  <2>5. \A m \in 0 .. n : m \notin bad => \E e \in Nat : EndsLast(rows, m, e)
    OBVIOUS
  <2> HIDE DEF bad
  <2>6. PICK m \in bad : \A k \in bad : m <= k
    BY <2>1, <2>2, SmallestNat
  <2>7. m \in 1 .. n /\ m - 1 \in 0 .. n
    BY <2>3, <2>4, <2>6
  <2>8. m - 1 \notin bad
    BY <2>6, <2>7
  <2> QED
    BY <2>4, <2>5, <2>6, <2>7, <2>8, NextEndsLast
<1>2. PICK e \in Nat : EndsLast(rows, n, e)
  BY <1>1, n \in 0 .. n
<1>3. FirstActive(rows, n) = ActiveRows(rows)
  BY DEF ActiveRows, FirstActive
<1> QED
  BY <1>2, <1>3 DEF EndsLast

LEMMA LatestEndIs ==
  ASSUME NEW n \in Nat, NEW rows \in [1 .. n -> Entitlement]
  PROVE  /\ LatestEnd(rows) \in Nat
         /\ LatestEnd(rows) = 0
              \/ \E id \in ActiveRows(rows) : LatestEnd(rows) = rows[id].expiresAt
         /\ \A id \in ActiveRows(rows) : rows[id].expiresAt <= LatestEnd(rows)
<1>1. LatestEnd(rows) \in {0} \cup {rows[id].expiresAt : id \in ActiveRows(rows)}
  BY SomeRowEndsLast DEF LatestEnd
<1>2. \A id \in ActiveRows(rows) : rows[id].expiresAt <= LatestEnd(rows)
  BY SomeRowEndsLast DEF LatestEnd
<1>3. \A id \in ActiveRows(rows) : rows[id].expiresAt \in Nat
  BY DEF ActiveRows, Entitlement
<1> QED
  BY <1>1, <1>2, <1>3

-----------------------------------------------------------------------------
(* The invariant *)

Creating == {"purge", "count", "store"}
Matched == {"find", "begin", "record", "mark"}
Stages == {"idle", "verify"} \cup Creating \cup Matched \cup Refusals
Job == [stage : Stages, challenge : Challenges \cup {None},
        tx : Transactions \cup {None}, used : BOOLEAN, honoured : BOOLEAN,
        began : Nat, expiry : Nat]
Challenge == [stored : BOOLEAN, createdAt : Nat, expiresAt : Nat,
              usedFor : Transactions \cup {None}]

ArchiveTypes ==
  /\ now \in Nat /\ earned \in Nat
  /\ challenges \in [Challenges -> Challenge]
  /\ paid \in [Transactions -> Nat] /\ payments \in [Transactions -> Nat]
  /\ bound \in [Challenges -> Transactions \cup {None}]
  /\ jobs \in [Handlers -> Job]
  /\ \E n \in Nat : entitlements \in [1 .. n -> Entitlement]

\* A challenge was marked with a payment of its plan, and its row says so as
\* long as it is stored.
Marked ==
  \A c \in Challenges :
    /\ bound[c] # None =>
         /\ paid[bound[c]] = PlanYears[c]
         /\ challenges[c].stored => challenges[c].usedFor = bound[c]
    /\ challenges[c].usedFor # None => bound[c] = challenges[c].usedFor

\* Recorded payments and purchased entitlements correspond.
Bought ==
  /\ \A tx \in Transactions : payments[tx] # 0 =>
       /\ payments[tx] \in DOMAIN entitlements
       /\ entitlements[payments[tx]].source = "purchase"
  /\ \A tx, other \in Transactions :
       payments[tx] # 0 /\ payments[tx] = payments[other] => tx = other
  /\ \A id \in DOMAIN entitlements : entitlements[id].source = "purchase" =>
       \E tx \in Transactions : payments[tx] = id

\* What a handler may rely on at each of its stages.
JobOK(job) ==
  /\ job.stage \in Creating =>
       /\ job.challenge \in Challenges /\ ~job.honoured
       /\ challenges[job.challenge] = NoRow /\ bound[job.challenge] = None
  /\ job.stage \in Matched \cup {"verify"} =>
       job.challenge \in Challenges /\ job.tx \in Transactions
  /\ job.stage \in Matched => paid[job.tx] = PlanYears[job.challenge]
  /\ job.honoured =>
       /\ job.challenge \in Challenges /\ job.tx \in Transactions
       /\ bound[job.challenge] = job.tx
       /\ job.stage \notin Refusals \ {"notFound"}
       /\ job.used \/ job.stage = "notFound"

\* A challenge being created is known to its handler alone.
Apart ==
  \A g, h \in Handlers :
    g # h /\ jobs[h].stage \in Creating => jobs[g].challenge # jobs[h].challenge

\* What was earned is in force, and a recording statement has read as much.
UpToDate ==
  ~overlapped =>
    /\ LatestEnd(entitlements) >= earned
    /\ \A h \in Handlers : At(h, "record") => jobs[h].expiry >= earned

ArchiveInv ==
  /\ ArchiveTypes /\ Marked /\ Bought /\ Apart /\ UpToDate
  /\ \A h \in Handlers : JobOK(jobs[h])

LEMMA ArchiveInitInv == ArchiveInit => ArchiveInv
<1> SUFFICES ASSUME ArchiveInit PROVE ArchiveInv
  OBVIOUS
<1> USE DEF ArchiveInit
<1>1. NoRow \in Challenge /\ Idle \in Job
  BY DEF NoRow, Idle, Challenge, Job, Stages
<1>2. entitlements \in [1 .. 0 -> Entitlement] /\ DOMAIN entitlements = {}
  OBVIOUS
<1>3. LatestEnd(entitlements) \in Nat
  BY <1>2, LatestEndIs
<1>4. ArchiveTypes
  BY <1>1, <1>2 DEF ArchiveTypes
<1>5. Marked /\ Bought
  BY <1>2 DEF Marked, Bought, NoRow
<1>6. Apart /\ UpToDate
  BY <1>3 DEF Apart, UpToDate, Creating, Idle, At
<1>7. \A h \in Handlers : JobOK(jobs[h])
  BY DEF JobOK, Idle, Creating, Matched
<1> QED
  BY <1>4, <1>5, <1>6, <1>7 DEF ArchiveInv

-----------------------------------------------------------------------------
(* Steps that change a handler only *)

LEMMA JobChange ==
  ASSUME ArchiveTypes, NEW h \in Handlers, NEW job \in Job,
         jobs' = [jobs EXCEPT ![h] = job]
  PROVE  /\ jobs' \in [Handlers -> Job]
         /\ jobs'[h] = job
         /\ \A g \in Handlers \ {h} : jobs'[g] = jobs[g]
BY DEF ArchiveTypes

LEMMA NoneIsNothing == None \notin Challenges /\ None \notin Transactions
BY ArchiveAssumption

LEMMA JobStep ==
  ASSUME ArchiveInv, NEW h \in Handlers, NEW job \in Job, JobOK(job),
         jobs' = [jobs EXCEPT ![h] = job],
         UNCHANGED databaseVars, Rest,
         \A g \in Handlers \ {h} :
           /\ job.stage \in Creating => jobs[g].challenge # job.challenge
           /\ jobs[g].stage \in Creating => job.challenge # jobs[g].challenge,
         ~overlapped /\ job.stage = "record" => job.expiry >= earned
  PROVE  ArchiveInv'
<1> USE DEF databaseVars, Rest
<1>1. /\ jobs' \in [Handlers -> Job]
      /\ jobs'[h] = job
      /\ \A g \in Handlers \ {h} : jobs'[g] = jobs[g]
  BY JobChange DEF ArchiveInv
<1>2. ArchiveTypes'
  BY <1>1 DEF ArchiveInv, ArchiveTypes
<1>3. Marked' /\ Bought'
  BY DEF ArchiveInv, Marked, Bought
<1>4. Apart'
  BY <1>1 DEF ArchiveInv, Apart
<1>5. UpToDate'
  BY <1>1 DEF ArchiveInv, UpToDate, At
<1>6. \A g \in Handlers : JobOK(jobs[g])'
  <2>1. JobOK(jobs[h])'
    BY <1>1 DEF JobOK
  <2>2. \A g \in Handlers \ {h} : JobOK(jobs[g])'
    BY <1>1 DEF ArchiveInv, JobOK
  <2> QED
    BY <2>1, <2>2
<1> QED
  BY <1>2, <1>3, <1>4, <1>5, <1>6 DEF ArchiveInv

\* A handler that goes on with the challenge it has.
LEMMA StageStep ==
  ASSUME ArchiveInv, NEW h \in Handlers, NEW job \in Job, JobOK(job),
         jobs' = [jobs EXCEPT ![h] = job],
         UNCHANGED databaseVars, Rest,
         job.challenge = jobs[h].challenge,
         job.stage \in Creating => jobs[h].stage \in Creating,
         ~overlapped /\ job.stage = "record" => job.expiry >= earned
  PROVE  ArchiveInv'
<1>1. \A g \in Handlers \ {h} :
        /\ job.stage \in Creating => jobs[g].challenge # job.challenge
        /\ jobs[g].stage \in Creating => job.challenge # jobs[g].challenge
  BY DEF ArchiveInv, Apart
<1> QED
  BY <1>1, JobStep

LEMMA IdleStep ==
  ASSUME ArchiveInv, NEW h \in Handlers, jobs' = [jobs EXCEPT ![h] = Idle],
         UNCHANGED databaseVars, Rest
  PROVE  ArchiveInv'
<1>1. Idle \in Job /\ JobOK(Idle)
  BY DEF Idle, Job, Stages, JobOK, Creating, Matched
<1>2. \A g \in Handlers \ {h} :
        jobs[g].stage \in Creating => Idle.challenge # jobs[g].challenge
  BY NoneIsNothing DEF ArchiveInv, JobOK, Idle
<1>3. Idle.stage \notin Creating \cup {"record"}
  BY DEF Idle, Creating
<1> QED
  BY <1>1, <1>2, <1>3, JobStep

-----------------------------------------------------------------------------
(* The handlers *)

LEMMA StartCheckoutInv ==
  ASSUME ArchiveInv, NEW h \in Handlers, NEW c \in Challenges,
         StartCheckout(h, c)
  PROVE  ArchiveInv'
<1> DEFINE job == [Idle EXCEPT !.stage = "purge", !.challenge = c, !.began = now]
<1>1. job \in Job
  BY DEF ArchiveInv, ArchiveTypes, Idle, Job, Stages, Creating
<1>2. JobOK(job)
  BY DEF StartCheckout, Idle, JobOK, Creating, Matched
<1>3. job.challenge = c /\ job.stage # "record"
  BY DEF Idle
<1>4. \A g \in Handlers \ {h} : jobs[g].challenge # c
  BY DEF StartCheckout
<1>5. jobs' = [jobs EXCEPT ![h] = job] /\ UNCHANGED databaseVars /\ Rest
  BY DEF StartCheckout
<1> HIDE DEF job
<1> QED
  BY <1>1, <1>2, <1>3, <1>4, <1>5, JobStep

LEMMA CountAttemptsInv ==
  ASSUME ArchiveInv, NEW h \in Handlers, CountAttempts(h)
  PROVE  ArchiveInv'
<1>1. CASE jobs' = [jobs EXCEPT ![h] = Idle]
  BY <1>1, IdleStep DEF CountAttempts
<1>2. CASE Goto(h, "store")
  <2> DEFINE job == [jobs[h] EXCEPT !.stage = "store"]
  <2>1. jobs[h] \in Job /\ JobOK(jobs[h]) /\ jobs[h].stage = "count"
    BY DEF ArchiveInv, ArchiveTypes, CountAttempts, At
  <2>2. job \in Job /\ JobOK(job)
    BY <2>1 DEF Job, Stages, JobOK, Creating, Matched
  <2>3. jobs' = [jobs EXCEPT ![h] = job]
    BY <1>2 DEF Goto, ArchiveInv, ArchiveTypes
  <2>4. /\ job.challenge = jobs[h].challenge /\ job.stage = "store"
        /\ jobs[h].stage \in Creating
    BY <2>1 DEF Job, Creating
  <2> HIDE DEF job
  <2> QED
    BY <2>2, <2>3, <2>4, StageStep DEF CountAttempts
<1> QED
  BY <1>1, <1>2 DEF CountAttempts

LEMMA StartActivationInv ==
  ASSUME ArchiveInv, NEW h \in Handlers, NEW c \in Challenges,
         NEW tx \in Transactions, StartActivation(h, c, tx)
  PROVE  ArchiveInv'
<1> DEFINE row == challenges[c]
           refusal == Refusal(row, tx)
           job == [Idle EXCEPT !.stage = IF refusal = "none" THEN "verify"
                                         ELSE refusal,
                               !.challenge = c, !.tx = tx,
                               !.used = row.usedFor # None,
                               !.honoured = bound[c] = tx]
<1>1. refusal \in Refusals \cup {"none"} /\ "none" \notin Refusals
  BY DEF Refusal, Refusals
<1>2. job \in Job
  BY <1>1 DEF Idle, Job, Stages
<1>3. /\ job.stage = IF refusal = "none" THEN "verify" ELSE refusal
      /\ job.challenge = c /\ job.tx = tx
      /\ job.used = (row.usedFor # None) /\ job.honoured = (bound[c] = tx)
  BY DEF Idle
<1>4. ASSUME bound[c] = tx
      PROVE  IF row.stored THEN refusal = "none" /\ row.usedFor # None
             ELSE refusal = "notFound"
  <2>1. row.stored => row.usedFor = tx /\ tx # None
    BY <1>4, NoneIsNothing DEF ArchiveInv, Marked
  <2> QED
    BY <2>1 DEF Refusal
<1>5. row # NoRow /\ jobs' = [jobs EXCEPT ![h] = job]
      /\ UNCHANGED databaseVars /\ Rest
  BY DEF StartActivation
<1>6. \A g \in Handlers \ {h} :
        jobs[g].stage \in Creating => jobs[g].challenge # c
  BY <1>5 DEF ArchiveInv, JobOK
<1> HIDE DEF job, refusal
<1>7. job.stage \notin Creating \cup Matched \cup {"idle"}
  BY <1>1, <1>3 DEF Creating, Matched, Refusals
<1>8. JobOK(job)
  <2>1. job.honoured => /\ bound[job.challenge] = job.tx
                        /\ job.stage \notin Refusals \ {"notFound"}
                        /\ job.used \/ job.stage = "notFound"
    BY <1>1, <1>3, <1>4 DEF Refusals
  <2> QED
    BY <1>3, <1>7, <2>1 DEF JobOK
<1>9. job.stage # "record"
  BY <1>7 DEF Matched
<1> QED
  BY <1>2, <1>3, <1>5, <1>6, <1>7, <1>8, <1>9, JobStep

LEMMA VerifyInv ==
  ASSUME ArchiveInv, NEW h \in Handlers, Verify(h)
  PROVE  ArchiveInv'
<1> DEFINE tx == jobs[h].tx
           c == jobs[h].challenge
           stage == IF ~sales /\ ~jobs[h].used THEN "notEnabled"
                    ELSE IF paid[tx] # PlanYears[c] THEN "notPaid" ELSE "find"
           job == [jobs[h] EXCEPT !.stage = stage]
<1>1. /\ jobs[h] \in Job /\ JobOK(jobs[h]) /\ jobs[h].stage = "verify"
      /\ c \in Challenges /\ tx \in Transactions
  BY DEF ArchiveInv, ArchiveTypes, JobOK, Verify, At
<1>2. jobs' = [jobs EXCEPT ![h] = job]
  BY DEF Verify, Goto, ArchiveInv, ArchiveTypes
<1>3. stage \in {"notEnabled", "notPaid", "find"}
  OBVIOUS
<1>4. jobs[h].honoured => stage = "find" /\ jobs[h].used
  <2>1. ASSUME jobs[h].honoured PROVE bound[c] = tx /\ jobs[h].used
    BY <1>1, <2>1 DEF JobOK
  <2>2. ASSUME jobs[h].honoured PROVE paid[tx] = PlanYears[c]
    BY <1>1, <2>1, <2>2, NoneIsNothing DEF ArchiveInv, Marked
  <2> QED
    BY <2>1, <2>2
<1>5. stage = "find" => paid[tx] = PlanYears[c]
  OBVIOUS
<1>6. /\ job.stage = stage /\ job.challenge = c /\ job.tx = tx
      /\ job.used = jobs[h].used /\ job.honoured = jobs[h].honoured
  BY <1>1 DEF Job
<1>7. job \in Job
  BY <1>1, <1>3 DEF Job, Stages, Matched, Refusals
<1> HIDE DEF job, stage
<1>8. stage \notin Creating /\ stage # "record" /\ stage # "verify"
  BY <1>3 DEF Creating
<1>9. JobOK(job)
  <2>1. job.honoured => /\ bound[job.challenge] = job.tx
                        /\ job.stage \notin Refusals \ {"notFound"}
                        /\ job.used
    BY <1>1, <1>4, <1>6 DEF JobOK, Refusals
  <2>2. job.stage \in Matched => paid[job.tx] = PlanYears[job.challenge]
    BY <1>3, <1>5, <1>6 DEF Matched
  <2> QED
    BY <1>1, <1>6, <1>8, <2>1, <2>2 DEF JobOK
<1> QED
  BY <1>2, <1>6, <1>7, <1>8, <1>9, StageStep DEF Verify

LEMMA FindPaymentInv ==
  ASSUME ArchiveInv, NEW h \in Handlers, FindPayment(h)
  PROVE  ArchiveInv'
<1> DEFINE stage == IF payments[jobs[h].tx] # 0 THEN "mark" ELSE "begin"
           job == [jobs[h] EXCEPT !.stage = stage]
<1>1. jobs[h] \in Job /\ JobOK(jobs[h]) /\ jobs[h].stage = "find"
  BY DEF ArchiveInv, ArchiveTypes, FindPayment, At
<1>2. jobs' = [jobs EXCEPT ![h] = job]
  BY DEF FindPayment, Goto, ArchiveInv, ArchiveTypes
<1>3. stage \in {"mark", "begin"}
  OBVIOUS
<1> HIDE DEF stage
<1>4. job \in Job /\ JobOK(job)
  BY <1>1, <1>3 DEF Job, Stages, JobOK, Creating, Matched, Refusals
<1>5. /\ job.challenge = jobs[h].challenge
      /\ job.stage \notin Creating /\ job.stage # "record"
  BY <1>1, <1>3 DEF Job, Creating
<1> HIDE DEF job
<1> QED
  BY <1>2, <1>4, <1>5, StageStep DEF FindPayment

LEMMA BeginRecordingInv ==
  ASSUME ArchiveInv, NEW h \in Handlers, BeginRecording(h)
  PROVE  ArchiveInv'
<1> DEFINE end == LatestEnd(entitlements)
           job == [jobs[h] EXCEPT !.stage = "record", !.began = now,
                                  !.expiry = end]
<1>1. jobs[h] \in Job /\ JobOK(jobs[h]) /\ jobs[h].stage = "begin" /\ now \in Nat
  BY DEF ArchiveInv, ArchiveTypes, BeginRecording, At
<1>2. end \in Nat
  BY LatestEndIs DEF ArchiveInv, ArchiveTypes
<1>3. ~overlapped => end >= earned
  BY DEF ArchiveInv, UpToDate
<1> HIDE DEF end
<1>4. jobs' = [jobs EXCEPT ![h] = job]
  BY DEF BeginRecording, ArchiveInv, ArchiveTypes, end
<1>5. job \in Job /\ JobOK(job)
  BY <1>1, <1>2 DEF Job, Stages, JobOK, Creating, Matched, Refusals
<1>6. job.challenge = jobs[h].challenge /\ job.stage = "record" /\ job.expiry = end
  BY <1>1 DEF Job
<1>7. "record" \notin Creating
  BY DEF Creating
<1> HIDE DEF job
<1> QED
  BY <1>3, <1>4, <1>5, <1>6, <1>7, StageStep DEF BeginRecording

LEMMA EndHandlerInv ==
  ASSUME ArchiveInv, NEW h \in Handlers, EndHandler(h)
  PROVE  ArchiveInv'
BY IdleStep DEF EndHandler

-----------------------------------------------------------------------------
(* Steps on the challenges, and the transfer *)

LEMMA PurgeChallengesInv ==
  ASSUME ArchiveInv, NEW h \in Handlers, PurgeChallenges(h)
  PROVE  ArchiveInv'
<1> DEFINE job == [jobs[h] EXCEPT !.stage = "count"]
<1>1. jobs[h] \in Job /\ JobOK(jobs[h]) /\ jobs[h].stage = "purge"
  BY DEF ArchiveInv, ArchiveTypes, PurgeChallenges, At
<1>2. job \in Job
  BY <1>1 DEF Job, Stages, Creating
<1>3. /\ job.stage = "count" /\ job.challenge = jobs[h].challenge
      /\ ~job.honoured
  BY <1>1 DEF Job, JobOK, Creating
<1>4. jobs' = [jobs EXCEPT ![h] = job]
  BY DEF PurgeChallenges, Goto, ArchiveInv, ArchiveTypes
<1> HIDE DEF job
<1>5. /\ jobs' \in [Handlers -> Job] /\ jobs'[h] = job
      /\ \A g \in Handlers \ {h} : jobs'[g] = jobs[g]
  BY <1>2, <1>4, JobChange DEF ArchiveInv
<1>6. UNCHANGED <<payments, entitlements, now, sales, paid, bound, earned, overlapped>>
  BY DEF PurgeChallenges, Rest
<1>7. /\ challenges' \in [Challenges -> Challenge]
      /\ \A c \in Challenges :
           /\ challenges'[c] = challenges[c]
                \/ challenges'[c] = [challenges[c] EXCEPT !.stored = FALSE]
           /\ ~challenges[c].stored => challenges'[c] = challenges[c]
  BY DEF PurgeChallenges, ArchiveInv, ArchiveTypes, Challenge
<1>8. ArchiveTypes'
  BY <1>5, <1>6, <1>7 DEF ArchiveInv, ArchiveTypes
<1>9. \A c \in Challenges :
        /\ challenges'[c].usedFor = challenges[c].usedFor
        /\ challenges'[c].stored => challenges[c].stored
  BY <1>7 DEF ArchiveInv, ArchiveTypes, Challenge
<1>10. Marked' /\ Bought'
  BY <1>6, <1>9 DEF ArchiveInv, Marked, Bought
<1>11. Apart' /\ UpToDate'
  BY <1>1, <1>3, <1>5, <1>6 DEF ArchiveInv, Apart, UpToDate, At, Creating
<1>12. \A c \in Challenges : challenges[c] = NoRow => challenges'[c] = NoRow
  BY <1>7 DEF NoRow
<1>13. \A g \in Handlers : JobOK(jobs[g])'
  <2>1. JobOK(jobs[h])'
    BY <1>1, <1>3, <1>5, <1>6, <1>12 DEF JobOK, Creating, Matched
  <2>2. \A g \in Handlers \ {h} : JobOK(jobs[g])'
    BY <1>5, <1>6, <1>12 DEF ArchiveInv, JobOK
  <2> QED
    BY <2>1, <2>2
<1> QED
  BY <1>8, <1>10, <1>11, <1>13 DEF ArchiveInv

\* A handler has ended: what the others may rely on, given what it changed of
\* the challenge it had.
LEMMA EndedJobs ==
  ASSUME ArchiveInv, NEW h \in Handlers, jobs' = [jobs EXCEPT ![h] = Idle],
         UNCHANGED paid,
         \A c \in Challenges \ {jobs[h].challenge} :
           challenges'[c] = challenges[c] /\ bound'[c] = bound[c],
         \A c \in Challenges : bound[c] # None => bound'[c] = bound[c],
         \A g \in Handlers \ {h} :
           jobs[g].stage \in Creating => jobs[g].challenge # jobs[h].challenge
  PROVE  /\ jobs' \in [Handlers -> Job]
         /\ Apart'
         /\ \A g \in Handlers : JobOK(jobs[g])'
         /\ \A g \in Handlers : At(g, "record")' =>
              At(g, "record") /\ jobs'[g].expiry = jobs[g].expiry
<1>1. Idle \in Job /\ Idle.stage = "idle" /\ Idle.challenge = None /\ ~Idle.honoured
  BY DEF Idle, Job, Stages
<1>2. /\ jobs' \in [Handlers -> Job] /\ jobs'[h] = Idle
      /\ \A g \in Handlers \ {h} : jobs'[g] = jobs[g]
  BY <1>1, JobChange DEF ArchiveInv
<1>3. Apart'
  BY <1>1, <1>2, NoneIsNothing DEF ArchiveInv, Apart, JobOK, Creating
<1>4. JobOK(jobs[h])'
  BY <1>1, <1>2 DEF JobOK, Creating, Matched
<1>5. ASSUME NEW g \in Handlers \ {h}
      PROVE  JobOK(jobs[g])'
  <2>1. jobs'[g] = jobs[g] /\ JobOK(jobs[g])
    BY <1>2 DEF ArchiveInv
  <2>2. jobs[g].stage \in Creating =>
          /\ challenges'[jobs[g].challenge] = NoRow
          /\ bound'[jobs[g].challenge] = None
    BY <2>1 DEF JobOK
  <2>3. jobs[g].honoured => bound'[jobs[g].challenge] = jobs[g].tx
    BY <2>1, NoneIsNothing DEF JobOK
  <2> QED
    BY <2>1, <2>2, <2>3 DEF JobOK
<1>6. \A g \in Handlers : At(g, "record")' =>
        At(g, "record") /\ jobs'[g].expiry = jobs[g].expiry
  BY <1>1, <1>2 DEF At
<1> QED
  BY <1>2, <1>3, <1>4, <1>5, <1>6

LEMMA StoreChallengeInv ==
  ASSUME ArchiveInv, NEW h \in Handlers, StoreChallenge(h)
  PROVE  ArchiveInv'
<1> DEFINE c == jobs[h].challenge
           row == [stored |-> TRUE, createdAt |-> now,
                   expiresAt |-> jobs[h].began + Lifetime, usedFor |-> None]
<1>1. /\ jobs[h] \in Job /\ JobOK(jobs[h]) /\ jobs[h].stage \in Creating
      /\ c \in Challenges /\ bound[c] = None
  BY DEF ArchiveInv, ArchiveTypes, StoreChallenge, At, JobOK, Creating
<1>2. row \in Challenge /\ row.usedFor = None
  BY <1>1, ArchiveAssumption DEF ArchiveInv, ArchiveTypes, Job, Challenge
<1>3. /\ challenges' = [challenges EXCEPT ![c] = row]
      /\ jobs' = [jobs EXCEPT ![h] = Idle]
      /\ UNCHANGED <<payments, entitlements, now, paid, bound, earned, overlapped>>
  BY DEF StoreChallenge, Rest
<1> HIDE DEF row
<1>4. /\ challenges' \in [Challenges -> Challenge] /\ challenges'[c] = row
      /\ \A d \in Challenges \ {c} : challenges'[d] = challenges[d]
  BY <1>1, <1>2, <1>3 DEF ArchiveInv, ArchiveTypes
<1>5. \A g \in Handlers \ {h} :
        jobs[g].stage \in Creating => jobs[g].challenge # c
  BY <1>1 DEF ArchiveInv, Apart
<1>6. /\ jobs' \in [Handlers -> Job] /\ Apart'
      /\ \A g \in Handlers : JobOK(jobs[g])'
      /\ \A g \in Handlers : At(g, "record")' =>
           At(g, "record") /\ jobs'[g].expiry = jobs[g].expiry
  BY <1>3, <1>4, <1>5, EndedJobs
<1>7. ArchiveTypes'
  BY <1>3, <1>4, <1>6 DEF ArchiveInv, ArchiveTypes
<1>8. Marked'
  BY <1>1, <1>2, <1>3, <1>4 DEF ArchiveInv, Marked
<1>9. Bought' /\ UpToDate'
  BY <1>3, <1>6 DEF ArchiveInv, Bought, UpToDate
<1> QED
  BY <1>6, <1>7, <1>8, <1>9 DEF ArchiveInv

LEMMA MarkChallengeUsedInv ==
  ASSUME ArchiveInv, NEW h \in Handlers, MarkChallengeUsed(h)
  PROVE  ArchiveInv'
<1> DEFINE c == jobs[h].challenge
           tx == jobs[h].tx
<1>1. /\ jobs[h].stage = "mark" /\ c \in Challenges /\ tx \in Transactions
      /\ paid[tx] = PlanYears[c]
  BY DEF ArchiveInv, MarkChallengeUsed, At, JobOK, Matched
<1>2. /\ challenges[c] \in Challenge /\ bound[c] \in Transactions \cup {None}
      /\ tx # None
  BY <1>1, NoneIsNothing DEF ArchiveInv, ArchiveTypes
<1>3. /\ jobs' = [jobs EXCEPT ![h] = Idle]
      /\ UNCHANGED <<payments, entitlements, now, paid, earned, overlapped>>
  BY DEF MarkChallengeUsed
<1>4. /\ challenges' \in [Challenges -> Challenge]
      /\ \A d \in Challenges \ {c} : challenges'[d] = challenges[d]
      /\ challenges'[c].stored = challenges[c].stored
      /\ challenges'[c].usedFor =
           IF challenges[c].usedFor = None /\ challenges[c].stored
           THEN tx ELSE challenges[c].usedFor
  BY <1>1, <1>2 DEF MarkChallengeUsed, ArchiveInv, ArchiveTypes, Challenge
<1>5. /\ bound' \in [Challenges -> Transactions \cup {None}]
      /\ \A d \in Challenges \ {c} : bound'[d] = bound[d]
      /\ bound'[c] = IF bound[c] = None THEN tx ELSE bound[c]
  BY <1>1, <1>2 DEF MarkChallengeUsed, ArchiveInv, ArchiveTypes
<1>6. \A g \in Handlers \ {h} :
        jobs[g].stage \in Creating => jobs[g].challenge # c
  BY DEF ArchiveInv, Apart
<1>7. /\ jobs' \in [Handlers -> Job] /\ Apart'
      /\ \A g \in Handlers : JobOK(jobs[g])'
      /\ \A g \in Handlers : At(g, "record")' =>
           At(g, "record") /\ jobs'[g].expiry = jobs[g].expiry
  BY <1>3, <1>4, <1>5, <1>6, EndedJobs
<1>8. ArchiveTypes'
  BY <1>3, <1>4, <1>5, <1>7 DEF ArchiveInv, ArchiveTypes
<1>9. Marked'
  <2>1. /\ bound[c] # None =>
             /\ paid[bound[c]] = PlanYears[c]
             /\ challenges[c].stored => challenges[c].usedFor = bound[c]
        /\ challenges[c].usedFor # None => bound[c] = challenges[c].usedFor
    BY <1>1 DEF ArchiveInv, Marked
  <2>2. /\ paid'[bound'[c]] = PlanYears[c]
        /\ challenges'[c].stored => challenges'[c].usedFor = bound'[c]
        /\ challenges'[c].usedFor # None => bound'[c] = challenges'[c].usedFor
    BY <1>1, <1>2, <1>3, <1>4, <1>5, <2>1
  <2> QED
    BY <1>3, <1>4, <1>5, <2>2 DEF ArchiveInv, Marked
<1>10. Bought' /\ UpToDate'
  BY <1>3, <1>7 DEF ArchiveInv, Bought, UpToDate
<1> QED
  BY <1>7, <1>8, <1>9, <1>10 DEF ArchiveInv

LEMMA PayUsdcInv ==
  ASSUME ArchiveInv, NEW c \in Challenges, NEW tx \in Transactions,
         PayUsdc(c, tx)
  PROVE  ArchiveInv'
<1>1. PlanYears \in [Challenges -> Nat \ {0}]
  BY ArchiveAssumption
<1>2. UNCHANGED <<now, challenges, payments, entitlements, jobs, bound,
                  earned, overlapped>>
  BY DEF PayUsdc, databaseVars
<1>3. /\ paid' \in [Transactions -> Nat]
      /\ \A other \in Transactions :
           paid[other] # 0 => paid'[other] = paid[other]
  BY <1>1 DEF PayUsdc, ArchiveInv, ArchiveTypes
<1>4. ArchiveTypes'
  BY <1>2, <1>3 DEF ArchiveInv, ArchiveTypes
<1>5. Marked'
  BY <1>1, <1>2, <1>3 DEF ArchiveInv, ArchiveTypes, Marked
<1>6. Bought' /\ Apart' /\ UpToDate'
  BY <1>2 DEF ArchiveInv, Bought, Apart, UpToDate, At
<1>7. \A h \in Handlers : JobOK(jobs[h])'
  BY <1>1, <1>2, <1>3 DEF ArchiveInv, JobOK
<1> QED
  BY <1>4, <1>5, <1>6, <1>7 DEF ArchiveInv

-----------------------------------------------------------------------------
(* Steps on the entitlements *)

\* A new row comes after the others, which stay as they are; access ends no
\* earlier than before, and no earlier than the new row if that is active.
LEMMA InsertGrows ==
  ASSUME ArchiveTypes, NEW row \in Entitlement, Insert(row)
  PROVE  /\ \E n \in Nat : entitlements' \in [1 .. n -> Entitlement]
         /\ NewId \notin DOMAIN entitlements /\ NewId # 0 /\ NewId \in Nat
         /\ DOMAIN entitlements' = DOMAIN entitlements \cup {NewId}
         /\ entitlements'[NewId] = row
         /\ \A id \in DOMAIN entitlements : entitlements'[id] = entitlements[id]
         /\ LatestEnd(entitlements') >= LatestEnd(entitlements)
         /\ row.active => LatestEnd(entitlements') >= row.expiresAt
         /\ LatestEnd(entitlements) \in Nat /\ LatestEnd(entitlements') \in Nat
<1>1. PICK n \in Nat : entitlements \in [1 .. n -> Entitlement]
  BY DEF ArchiveTypes
<1>2. NewId = n + 1
  <2>1. DOMAIN entitlements = 1 .. n
    BY <1>1
  <2>2. Cardinality(1 .. n) = n
    BY FS_Interval
  <2> QED
    BY <2>1, <2>2 DEF NewId
<1>3. entitlements' = [id \in 1 .. n + 1 |->
                         IF id = n + 1 THEN row ELSE entitlements[id]]
  BY <1>2 DEF Insert
<1>4. /\ entitlements' \in [1 .. n + 1 -> Entitlement]
      /\ DOMAIN entitlements = 1 .. n /\ DOMAIN entitlements' = 1 .. n + 1
      /\ entitlements'[n + 1] = row
      /\ \A id \in 1 .. n : entitlements'[id] = entitlements[id]
  BY <1>1, <1>3
<1>5. /\ LatestEnd(entitlements) \in Nat
      /\ LatestEnd(entitlements) = 0
           \/ \E id \in ActiveRows(entitlements) :
                LatestEnd(entitlements) = entitlements[id].expiresAt
  BY <1>1, LatestEndIs
<1>6. /\ LatestEnd(entitlements') \in Nat
      /\ \A id \in ActiveRows(entitlements') :
           entitlements'[id].expiresAt <= LatestEnd(entitlements')
  BY <1>4, LatestEndIs, n + 1 \in Nat
<1>7. \A id \in ActiveRows(entitlements) :
        /\ id \in ActiveRows(entitlements')
        /\ entitlements'[id].expiresAt = entitlements[id].expiresAt
  BY <1>4 DEF ActiveRows
<1>8. LatestEnd(entitlements') >= LatestEnd(entitlements)
  BY <1>5, <1>6, <1>7
<1>9. row.active => LatestEnd(entitlements') >= row.expiresAt
  BY <1>4, <1>6 DEF ActiveRows, Entitlement
<1>10. n + 1 \notin 1 .. n /\ n + 1 # 0 /\ 1 .. n + 1 = 1 .. n \cup {n + 1}
  OBVIOUS
<1> QED
  BY <1>2, <1>4, <1>5, <1>6, <1>8, <1>9, <1>10

\* A handler that has recorded goes on to mark the challenge.
LEMMA GotoMarkJobs ==
  ASSUME ArchiveInv, NEW h \in Handlers, At(h, "record"), GotoMark(h),
         UNCHANGED <<challenges, paid, bound>>
  PROVE  /\ jobs' \in [Handlers -> Job]
         /\ Apart'
         /\ \A g \in Handlers : JobOK(jobs[g])'
         /\ ~At(h, "record")'
         /\ \A g \in Handlers \ {h} : jobs'[g] = jobs[g]
<1> DEFINE job == [jobs[h] EXCEPT !.stage = "mark", !.began = 0, !.expiry = 0]
<1>1. jobs[h] \in Job /\ JobOK(jobs[h]) /\ jobs[h].stage = "record"
  BY DEF ArchiveInv, ArchiveTypes, At
<1>2. job \in Job /\ JobOK(job)
  BY <1>1 DEF Job, Stages, JobOK, Creating, Matched, Refusals
<1>3. job.stage = "mark" /\ job.challenge = jobs[h].challenge
  BY <1>1 DEF Job
<1>4. jobs' = [jobs EXCEPT ![h] = job]
  BY DEF GotoMark, ArchiveInv, ArchiveTypes
<1> HIDE DEF job
<1>5. /\ jobs' \in [Handlers -> Job] /\ jobs'[h] = job
      /\ \A g \in Handlers \ {h} : jobs'[g] = jobs[g]
  BY <1>2, <1>4, JobChange DEF ArchiveInv
<1>6. Apart'
  BY <1>3, <1>5 DEF ArchiveInv, Apart, Creating
<1>7. JobOK(jobs[h])'
  BY <1>2, <1>5 DEF JobOK
<1>8. \A g \in Handlers \ {h} : JobOK(jobs[g])'
  BY <1>5 DEF ArchiveInv, JobOK
<1> QED
  BY <1>3, <1>5, <1>6, <1>7, <1>8 DEF At

LEMMA RecordPaymentInv ==
  ASSUME ArchiveInv, NEW h \in Handlers, RecordPayment(h)
  PROVE  ArchiveInv'
<1> DEFINE job == jobs[h]
           tx == jobs[h].tx
           years == PlanYears[jobs[h].challenge]
           row == [active |-> TRUE, source |-> "purchase",
                   expiresAt |-> NewTerm(job.began, job.expiry, years)]
<1>1. /\ job \in Job /\ At(h, "record") /\ tx \in Transactions
      /\ jobs[h].challenge \in Challenges
      /\ job.began \in Nat /\ job.expiry \in Nat
  BY DEF ArchiveInv, ArchiveTypes, RecordPayment, At, JobOK, Matched, Job
<1>2. years \in Nat
  BY <1>1, ArchiveAssumption
<1>3. UNCHANGED <<now, sales, challenges, paid, bound>>
  BY DEF RecordPayment
<1>4. /\ jobs' \in [Handlers -> Job] /\ Apart'
      /\ \A g \in Handlers : JobOK(jobs[g])'
      /\ ~At(h, "record")'
      /\ \A g \in Handlers \ {h} : jobs'[g] = jobs[g]
  BY <1>1, <1>3, GotoMarkJobs DEF RecordPayment
<1>5. Marked'
  BY <1>3 DEF ArchiveInv, Marked
<1>6. CASE payments[tx] # 0
  <2>1. UNCHANGED <<payments, entitlements, earned, overlapped>>
    BY <1>6 DEF RecordPayment
  <2>2. ArchiveTypes' /\ Bought'
    BY <1>3, <1>4, <2>1 DEF ArchiveInv, ArchiveTypes, Bought
  <2>3. UpToDate'
    BY <1>4, <2>1 DEF ArchiveInv, UpToDate, At
  <2> QED
    BY <1>4, <1>5, <2>2, <2>3 DEF ArchiveInv
<1>7. CASE payments[tx] = 0
  <2>1. /\ Insert(row)
        /\ payments' = [payments EXCEPT ![tx] = NewId]
        /\ earned' = Later(job.began, earned) + years
        /\ overlapped' = (overlapped \/ Recording(h))
    BY <1>7 DEF RecordPayment
  <2>2. earned \in Nat /\ payments \in [Transactions -> Nat]
    BY DEF ArchiveInv, ArchiveTypes
  <2>3. row \in Entitlement /\ row.active /\ row.source = "purchase"
        /\ row.expiresAt = Later(job.began, job.expiry) + years
    BY <1>1, <1>2 DEF Entitlement, NewTerm, Later
  <2> HIDE DEF row
  <2>4. /\ \E n \in Nat : entitlements' \in [1 .. n -> Entitlement]
        /\ NewId \notin DOMAIN entitlements /\ NewId # 0 /\ NewId \in Nat
        /\ DOMAIN entitlements' = DOMAIN entitlements \cup {NewId}
        /\ entitlements'[NewId] = row
        /\ \A id \in DOMAIN entitlements : entitlements'[id] = entitlements[id]
        /\ LatestEnd(entitlements') >= row.expiresAt
        /\ LatestEnd(entitlements') \in Nat
    BY <2>1, <2>3, InsertGrows DEF ArchiveInv
  <2> HIDE DEF job, years
  <2>5. earned' \in Nat
    BY <1>1, <1>2, <2>1, <2>2 DEF Later
  <2>6. ArchiveTypes'
    BY <1>1, <1>3, <1>4, <2>1, <2>2, <2>4, <2>5 DEF ArchiveInv, ArchiveTypes
  <2>7. Bought'
    <3>1. /\ payments'[tx] = NewId
          /\ \A other \in Transactions \ {tx} : payments'[other] = payments[other]
      BY <1>1, <2>1, <2>2
    <3>2. \A other \in Transactions : payments[other] # 0 =>
            /\ payments[other] \in DOMAIN entitlements
            /\ entitlements[payments[other]].source = "purchase"
      BY DEF ArchiveInv, Bought
    <3>3. \A a, b \in Transactions : payments[a] # 0 /\ payments[a] = payments[b]
            => a = b
      BY DEF ArchiveInv, Bought
    <3>4. \A id \in DOMAIN entitlements : entitlements[id].source = "purchase" =>
            \E other \in Transactions \ {tx} : payments[other] = id
      <4>1. 0 \notin DOMAIN entitlements
        BY DEF ArchiveInv, ArchiveTypes
      <4> QED
        BY <4>1, <1>7 DEF ArchiveInv, Bought
    <3>5. \A other \in Transactions : payments'[other] # 0 =>
            /\ payments'[other] \in DOMAIN entitlements'
            /\ entitlements'[payments'[other]].source = "purchase"
      BY <2>3, <2>4, <3>1, <3>2
    <3>6. \A a, b \in Transactions :
            payments'[a] # 0 /\ payments'[a] = payments'[b] => a = b
      BY <2>4, <3>1, <3>2, <3>3
    <3>7. \A id \in DOMAIN entitlements' :
            entitlements'[id].source = "purchase" =>
              \E other \in Transactions : payments'[other] = id
      BY <1>1, <2>4, <3>1, <3>4
    <3> QED
      BY <3>5, <3>6, <3>7 DEF Bought
  <2>8. UpToDate'
    <3>1. SUFFICES ASSUME ~overlapped'
                   PROVE  /\ LatestEnd(entitlements') >= earned'
                          /\ \A g \in Handlers : ~At(g, "record")'
      BY DEF UpToDate
    <3>2. ~overlapped /\ \A g \in Handlers \ {h} : ~At(g, "record")
      BY <2>1, <3>1 DEF Recording
    <3>3. \A g \in Handlers : ~At(g, "record")'
      BY <1>4, <3>2 DEF At
    <3>4. job.expiry >= earned
      BY <1>1, <3>2 DEF ArchiveInv, UpToDate, job
    <3>5. row.expiresAt >= earned'
      BY <1>1, <1>2, <2>1, <2>2, <2>3, <3>4 DEF Later
    <3>6. row.expiresAt \in Nat
      BY <2>3 DEF Entitlement
    <3>7. LatestEnd(entitlements') >= earned'
      BY <2>4, <2>5, <3>5, <3>6
    <3> QED
      BY <3>3, <3>7
  <2> QED
    BY <1>4, <1>5, <2>6, <2>7, <2>8 DEF ArchiveInv
<1> QED
  BY <1>6, <1>7

LEMMA GrantEntitlementInv ==
  ASSUME ArchiveInv, NEW term \in GrantTerms, GrantEntitlement(term)
  PROVE  ArchiveInv'
<1> DEFINE row == [active |-> TRUE, source |-> "admin", expiresAt |-> now + term]
<1>1. now \in Nat /\ term \in Nat /\ earned \in Nat
  BY ArchiveAssumption DEF ArchiveInv, ArchiveTypes
<1>2. row \in Entitlement /\ row.active /\ row.source = "admin"
      /\ row.expiresAt = now + term
  BY <1>1 DEF Entitlement
<1>3. /\ Insert(row)
      /\ earned' = Later(earned, now + term)
      /\ overlapped' = (overlapped \/ \E g \in Handlers : At(g, "record"))
      /\ UNCHANGED <<now, sales, challenges, payments, paid, jobs, bound>>
  BY DEF GrantEntitlement
<1> HIDE DEF row
<1>4. /\ \E n \in Nat : entitlements' \in [1 .. n -> Entitlement]
      /\ NewId \notin DOMAIN entitlements
      /\ DOMAIN entitlements' = DOMAIN entitlements \cup {NewId}
      /\ entitlements'[NewId] = row
      /\ \A id \in DOMAIN entitlements : entitlements'[id] = entitlements[id]
      /\ LatestEnd(entitlements') >= LatestEnd(entitlements)
      /\ LatestEnd(entitlements') >= row.expiresAt
      /\ LatestEnd(entitlements) \in Nat /\ LatestEnd(entitlements') \in Nat
  BY <1>2, <1>3, InsertGrows DEF ArchiveInv
<1>5. earned' \in Nat
  BY <1>1, <1>3 DEF Later
<1>6. ArchiveTypes'
  BY <1>3, <1>4, <1>5 DEF ArchiveInv, ArchiveTypes
<1>7. Bought'
  BY <1>2, <1>3, <1>4 DEF ArchiveInv, Bought
<1>8. UpToDate'
  <2>1. ~overlapped' => LatestEnd(entitlements) >= earned
    BY <1>3 DEF ArchiveInv, UpToDate
  <2>2. ~overlapped' => LatestEnd(entitlements') >= earned'
    BY <1>1, <1>2, <1>3, <1>4, <2>1 DEF Later
  <2> QED
    BY <1>3, <2>2 DEF UpToDate, At
<1>9. Marked' /\ Apart' /\ \A h \in Handlers : JobOK(jobs[h])'
  BY <1>3 DEF ArchiveInv, Marked, Apart, JobOK
<1> QED
  BY <1>6, <1>7, <1>8, <1>9 DEF ArchiveInv

LEMMA RevokeEntitlementInv ==
  ASSUME ArchiveInv, NEW id \in DOMAIN entitlements, RevokeEntitlement(id)
  PROVE  ArchiveInv'
<1>1. PICK n \in Nat : entitlements \in [1 .. n -> Entitlement]
  BY DEF ArchiveInv, ArchiveTypes
<1>2. /\ entitlements' = [entitlements EXCEPT ![id].active = FALSE]
      /\ earned' = LatestEnd(entitlements')
      /\ overlapped' = (overlapped \/ \E g \in Handlers : At(g, "record"))
      /\ UNCHANGED <<now, sales, challenges, payments, paid, jobs, bound>>
  BY DEF RevokeEntitlement
<1>3. /\ entitlements' \in [1 .. n -> Entitlement]
      /\ DOMAIN entitlements' = DOMAIN entitlements
      /\ \A other \in DOMAIN entitlements :
           entitlements'[other].source = entitlements[other].source
  BY <1>1, <1>2 DEF Entitlement
<1>4. earned' \in Nat /\ earned' = LatestEnd(entitlements')
  BY <1>2, <1>3, LatestEndIs
<1>5. ArchiveTypes'
  BY <1>2, <1>3, <1>4 DEF ArchiveInv, ArchiveTypes
<1>6. Bought'
  BY <1>2, <1>3 DEF ArchiveInv, Bought
<1>7. UpToDate'
  <2>1. ~overlapped' => \A h \in Handlers : ~At(h, "record")'
    BY <1>2 DEF At
  <2>2. LatestEnd(entitlements') >= earned'
    BY <1>4
  <2> QED
    BY <2>1, <2>2 DEF UpToDate
<1>8. Marked' /\ Apart' /\ \A h \in Handlers : JobOK(jobs[h])'
  BY <1>2 DEF ArchiveInv, Marked, Apart, JobOK
<1> QED
  BY <1>5, <1>6, <1>7, <1>8 DEF ArchiveInv

-----------------------------------------------------------------------------
(* The theorems *)

LEMMA OtherStepsInv ==
  ASSUME ArchiveInv,
         UNCHANGED <<databaseVars, paid, jobs, bound, earned, overlapped>>,
         now' \in Nat
  PROVE  ArchiveInv'
<1> USE DEF databaseVars
<1>1. ArchiveTypes'
  BY DEF ArchiveInv, ArchiveTypes
<1>2. Marked' /\ Bought' /\ Apart'
  BY DEF ArchiveInv, Marked, Bought, Apart
<1>3. UpToDate'
  BY DEF ArchiveInv, UpToDate, At
<1>4. \A h \in Handlers : JobOK(jobs[h])'
  BY DEF ArchiveInv, JobOK
<1> QED
  BY <1>1, <1>2, <1>3, <1>4 DEF ArchiveInv

LEMMA ArchiveNextInv == ArchiveInv /\ [ArchiveNext]_archiveVars => ArchiveInv'
<1> SUFFICES ASSUME ArchiveInv, [ArchiveNext]_archiveVars PROVE ArchiveInv'
  OBVIOUS
<1> USE DEF databaseVars
<1>1. now \in Nat
  BY DEF ArchiveInv, ArchiveTypes
<1>2. CASE UNCHANGED archiveVars
  BY <1>1, <1>2, OtherStepsInv DEF archiveVars
<1>3. CASE ClockTick /\ UNCHANGED <<sales, databaseVars, paid, jobs, bound,
                                    earned, overlapped>>
  BY <1>1, <1>3, OtherStepsInv DEF ClockTick
<1>4. CASE SetSales
  BY <1>1, <1>4, OtherStepsInv DEF SetSales
<1>5. CASE \E term \in GrantTerms : GrantEntitlement(term)
  BY <1>5, GrantEntitlementInv
<1>6. CASE \E id \in DOMAIN entitlements : RevokeEntitlement(id)
  BY <1>6, RevokeEntitlementInv
<1>7. CASE \E c \in Challenges, tx \in Transactions : PayUsdc(c, tx)
  BY <1>7, PayUsdcInv
<1>8. ASSUME NEW h \in Handlers,
             \/ \E c \in Challenges : StartCheckout(h, c)
             \/ PurgeChallenges(h)
             \/ CountAttempts(h)
             \/ StoreChallenge(h)
      PROVE  ArchiveInv'
  BY <1>8, StartCheckoutInv, PurgeChallengesInv, CountAttemptsInv,
     StoreChallengeInv
<1>9. ASSUME NEW h \in Handlers,
             \/ \E c \in Challenges, tx \in Transactions :
                  StartActivation(h, c, tx)
             \/ Verify(h)
             \/ FindPayment(h)
             \/ BeginRecording(h)
             \/ RecordPayment(h)
             \/ MarkChallengeUsed(h)
             \/ EndHandler(h)
      PROVE  ArchiveInv'
  BY <1>9, StartActivationInv, VerifyInv, FindPaymentInv, BeginRecordingInv,
     RecordPaymentInv, MarkChallengeUsedInv, EndHandlerInv
<1> QED
  BY <1>2, <1>3, <1>4, <1>5, <1>6, <1>7, <1>8, <1>9 DEF ArchiveNext

LEMMA ArchiveInvariant == ArchiveSpec => []ArchiveInv
BY ArchiveInitInv, ArchiveNextInv, PTL DEF ArchiveSpec

\* A payment buys exactly one term, by however many activateArchivePurchase
\* requests it is presented: the recording statement inserts nothing for a
\* transfer that is recorded.
THEOREM PaymentsBuyOneTerm == ArchiveSpec => []PaymentBuysOneTerm
<1>1. ArchiveInv => PaymentBuysOneTerm
  <2> SUFFICES ASSUME ArchiveInv PROVE PaymentBuysOneTerm
    OBVIOUS
  <2> DEFINE recorded == {tx \in Transactions : payments[tx] # 0}
             purchased == {id \in DOMAIN entitlements :
                             entitlements[id].source = "purchase"}
             buys == [tx \in recorded |-> payments[tx]]
  <2>1. 0 \notin DOMAIN entitlements /\ IsFiniteSet(DOMAIN entitlements)
    <3>1. PICK n \in Nat : entitlements \in [1 .. n -> Entitlement]
      BY DEF ArchiveInv, ArchiveTypes
    <3> QED
      BY <3>1, FS_Interval
  <2>2. IsFiniteSet(purchased)
    BY <2>1, FS_Subset
  <2>3. {payments[tx] : tx \in recorded} = purchased
    BY <2>1 DEF ArchiveInv, Bought
  <2>4. buys \in Injection(recorded, purchased)
    BY <2>3 DEF ArchiveInv, Bought, Injection, IsInjective
  <2>5. buys \in Surjection(recorded, purchased)
    BY <2>3 DEF Surjection
  <2>6. Cardinality(recorded) = Cardinality(purchased)
    BY <2>2, <2>4, <2>5, FS_Injection
  <2> QED
    BY <2>3, <2>6 DEF PaymentBuysOneTerm
<1> QED
  BY <1>1, ArchiveInvariant, PTL

\* Whoever presents the payment a challenge was completed with is not refused
\* for an expired or used challenge, for the price, or because sales have been
\* stopped: the route lets a used challenge of the same transfer through.
THEOREM RetriesAreHonoured == ArchiveSpec => []RetryHonoured
<1>1. ArchiveInv => RetryHonoured
  BY DEF ArchiveInv, JobOK, RetryHonoured
<1> QED
  BY <1>1, ArchiveInvariant, PTL

\* Over any sequence of purchases, grants and revocations, access lasts at
\* least as long as was earned, unless a change of the entitlements fell into
\* a statement that records a payment.
THEOREM TermsAlwaysAddUp == ArchiveSpec => []TermsAddUp
<1>1. ArchiveInv => TermsAddUp
  BY DEF ArchiveInv, UpToDate, TermsAddUp
<1> QED
  BY <1>1, ArchiveInvariant, PTL
=============================================================================
