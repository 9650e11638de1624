---------------------------- MODULE PayLinks_proofs ----------------------------
(***************************************************************************)
(* Theorems about PayLinkStore and PayLinks, for any number of requests,   *)
(* links, payments, handlers and checkouts.                                *)
(*                                                                         *)
(* What holds of the store follows from what a step may do to one row      *)
(* (RowStep): leave it, remove it, store it for the first time, revoke it, *)
(* or settle it while it is neither paid nor revoked.  What the history    *)
(* holds needs in addition what a completion knows at each of its stages   *)
(* (Knows).  What holds of a checkout follows from what its status         *)
(* requests can still read (Barred).                                       *)
(*                                                                         *)
(* The queue of completions is a list from which entries are dropped by    *)
(* Array.prototype.filter; what stays is known from Subsequences_proofs.   *)
(* With the queue, its tabs and the answers they wait for, PayInv gives    *)
(* the types of the browser, that no completion is lost, and that the      *)
(* checkout makes only steps of the store (PayLinks implements             *)
(* PayLinkStore).                                                          *)
(***************************************************************************)
EXTENDS PayLinks, Subsequences_proofs

allVars == <<now, storeVars>>

-----------------------------------------------------------------------------
(* Types *)

\* What a handler works on, by its kind.
Shaped(job) ==
  /\ job.kind \in {"create", "cancel", "settle"} => job.request \in Requests
  /\ job.kind = "revoke" => job.link \in LinkIds
  /\ job.kind = "settle" => job.tx \in Transactions
  /\ job.kind = "settle" /\ job.stage \in {"update", "raced"}
       => job.link \in LinkIds

StoreTypes ==
  /\ StoreTypeOK
  /\ now \in Nat
  /\ \A w \in Workers : Shaped(jobs[w])

\* The handler's next state, and every other handler as it was.
Becomes(w, job) ==
  /\ job \in Job /\ Shaped(job)
  /\ jobs' = [jobs EXCEPT ![w] = job]

LEMMA BecomesTypes ==
  ASSUME StoreTypes, NEW w \in Workers, NEW job, Becomes(w, job)
  PROVE  /\ jobs' \in [Workers -> Job]
         /\ \A v \in Workers : Shaped(jobs'[v])
         /\ jobs'[w] = job
         /\ \A v \in Workers \ {w} : jobs'[v] = jobs[v]
BY DEF StoreTypes, StoreTypeOK, Becomes

LEMMA StartBecomes ==
  ASSUME StoreTypes, NEW w \in Workers, NEW job, Start(w, job),
         job \in Job, Shaped(job)
  PROVE  Becomes(w, job)
BY DEF Start, Becomes

LEMMA FinishBecomes ==
  ASSUME StoreTypes, NEW w \in Workers, Finish(w)
  PROVE  Becomes(w, Idle)
BY DEF Finish, Becomes, Idle, Job, Shaped

\* The stages a handler may go on to without learning of another row.
NextStage(w, stage) ==
  \/ stage \in {"idle", "insert", "record", "revoke", "select", "save",
                "answer"} \cup Refusals
  \/ stage = "raced" /\ jobs[w].link \in LinkIds

LEMMA ContinueBecomes ==
  ASSUME StoreTypes, NEW w \in Workers, NEW stage,
         NextStage(w, stage), Continue(w, stage)
  PROVE  Becomes(w, [jobs[w] EXCEPT !.stage = stage])
<1> DEFINE job == [jobs[w] EXCEPT !.stage = stage]
<1>1. jobs[w] \in Job /\ Shaped(jobs[w])
  BY DEF StoreTypes, StoreTypeOK
<1>2. job \in Job
  BY <1>1 DEF Job, Refusals, NextStage
<1>3. Shaped(job)
  BY <1>1 DEF Job, Shaped, Refusals, NextStage
<1>4. jobs' = [jobs EXCEPT ![w] = job]
  BY DEF Continue, StoreTypes, StoreTypeOK
<1> QED
  BY <1>2, <1>3, <1>4 DEF Becomes

\* Refusals are stages, and "none" is not one of them.
LEMMA RefusalTypes ==
  ASSUME NEW w, NEW l, Refusal(w, l) # "none"
  PROVE  Refusal(w, l) \in Refusals
BY DEF Refusal, Refusals

-----------------------------------------------------------------------------
(* What a step does to a row *)

RowStep(l) ==
  \/ links'[l] = links[l]
  \/ links'[l] = RemovedRow
  \/ links[l] = UnusedRow /\ links'[l].state = "stored" /\ links'[l].paidBy = None
  \/ links'[l] = [links[l] EXCEPT !.revoked = TRUE]
  \/ /\ Stored(l) /\ links[l].paidBy = None /\ ~links[l].revoked
     /\ \E tx \in Transactions :
          /\ links'[l] = [links[l] EXCEPT !.paidBy = tx]
          /\ <<links[l].request, tx>> \in settled'

RowsMove ==
  /\ links' \in [LinkIds -> Row]
  /\ \A l \in LinkIds : RowStep(l)
  /\ settled \subseteq settled'
  /\ settled' \subseteq Requests \X Transactions

LEMMA RowsStay ==
  ASSUME StoreTypes, UNCHANGED <<links, settled>>
  PROVE  RowsMove
BY DEF StoreTypes, StoreTypeOK, RowsMove, RowStep

LEMMA CreateMoves ==
  ASSUME StoreTypes, RemoveExpiredPayLinks, UNCHANGED settled
  PROVE  RowsMove
<1>1. RemovedRow \in Row
  BY DEF RemovedRow, UnusedRow, Row
<1> QED
  BY <1>1 DEF StoreTypes, StoreTypeOK, RemoveExpiredPayLinks, RowsMove, RowStep

\* The expiry of a new row is a tick: its request's own, or the end of its
\* retention.
LEMMA InsertMoves ==
  ASSUME StoreTypes, NEW w \in Workers, InsertRow(w)
  PROVE  RowsMove
<1> DEFINE r == jobs[w].request
           end == IF RequestExpires[r] # 0
                     /\ RequestExpires[r] < now + Retention
                  THEN RequestExpires[r] ELSE now + Retention
           row == [UnusedRow EXCEPT !.state = "stored", !.request = r,
                                    !.expiresAt = end]
<1>1. PICK l \in LinkIds : links[l] = UnusedRow /\ links' = [links EXCEPT ![l] = row]
  BY Zenon DEF InsertRow
<1>2. r \in Requests
  BY DEF StoreTypes, Shaped, InsertRow, At
<1>3. RequestExpires[r] \in Nat /\ now + Retention \in Nat
  BY <1>2, StoreAssumption DEF StoreTypes
<1>4. end \in Nat
  BY <1>3
<1> HIDE DEF end, r
<1>5. row \in Row /\ row.state = "stored" /\ row.paidBy = None
  BY <1>2, <1>4 DEF Row, UnusedRow
<1> HIDE DEF row
<1>6. UNCHANGED settled
  BY DEF InsertRow
<1> QED
  BY <1>1, <1>5, <1>6 DEF StoreTypes, StoreTypeOK, RowsMove, RowStep

LEMMA RevokeRowMoves ==
  ASSUME StoreTypes, NEW w \in Workers, RevokeRow(w)
  PROVE  RowsMove
<1>1. UNCHANGED settled
  BY DEF RevokeRow
<1>2. jobs[w].link \in LinkIds
  BY DEF StoreTypes, Shaped, RevokeRow, At
<1>3. \/ links' = [links EXCEPT ![jobs[w].link].revoked = TRUE]
      \/ links' = links
  BY DEF RevokeRow
<1> QED
  BY <1>1, <1>2, <1>3 DEF StoreTypes, StoreTypeOK, RowsMove, RowStep, Row

LEMMA RevokeRowsMoves ==
  ASSUME StoreTypes, NEW w \in Workers, RevokeRows(w)
  PROVE  RowsMove
BY DEF StoreTypes, StoreTypeOK, RevokeRows, RowsMove, RowStep, Row

LEMMA UpdateMoves ==
  ASSUME StoreTypes, NEW w \in Workers, SettleUpdate(w)
  PROVE  RowsMove
<1> DEFINE r == jobs[w].request
           tx == jobs[w].tx
           rows == PayableRows(r)
<1>1. r \in Requests /\ tx \in Transactions
  BY DEF StoreTypes, Shaped, SettleUpdate, At
<1>2. links' = [l \in LinkIds |->
          IF l \in rows THEN [links[l] EXCEPT !.paidBy = tx] ELSE links[l]]
  BY DEF SettleUpdate
<1>3. settled' = IF rows = {} THEN settled ELSE settled \cup {<<r, tx>>}
  BY DEF SettleUpdate
<1>4. \A l \in rows : /\ Stored(l) /\ links[l].request = r
                      /\ links[l].paidBy = None /\ ~links[l].revoked
  BY DEF PayableRows, RowsOf
<1> HIDE DEF r, tx, rows
<1>5. links' \in [LinkIds -> Row]
  BY <1>1, <1>2 DEF StoreTypes, StoreTypeOK, Row
<1>6. \A l \in LinkIds : RowStep(l)
  BY <1>1, <1>2, <1>3, <1>4 DEF RowStep
<1>7. settled \subseteq settled' /\ settled' \subseteq Requests \X Transactions
  BY <1>1, <1>3 DEF StoreTypes, StoreTypeOK
<1> QED
  BY <1>5, <1>6, <1>7 DEF RowsMove

-----------------------------------------------------------------------------
(* What a completion knows *)

\* A row that is paid is stored, and was settled by that payment.
RowsPaid ==
  \A l \in LinkIds :
    links[l].paidBy # None =>
      Stored(l) /\ <<links[l].request, links[l].paidBy>> \in settled

\* A completion is about the request its transaction pays and a row of it,
\* unless that is gone; once it may save, it has seen the row settled.
Knows(job) ==
  job.kind = "settle" =>
    /\ Pays[job.tx] = job.request
    /\ job.link # None => \/ links[job.link].state = "removed"
                          \/ links[job.link].request = job.request
    /\ job.stage \in {"save", "answer"} => <<job.request, job.tx>> \in settled

StoreInv ==
  /\ StoreTypes
  /\ RowsPaid
  /\ \A w \in Workers : Knows(jobs[w])

LEMMA RowsPaidKept == StoreInv /\ RowsMove => RowsPaid'
<1> SUFFICES ASSUME StoreInv, RowsMove, NEW l \in LinkIds,
                    links'[l].paidBy # None
             PROVE  /\ links'[l].state = "stored"
                    /\ <<links'[l].request, links'[l].paidBy>> \in settled'
  BY DEF RowsPaid, Stored
<1>1. links[l] \in Row /\ RowStep(l) /\ settled \subseteq settled'
  BY DEF StoreInv, StoreTypes, StoreTypeOK, RowsMove
<1>2. links[l].paidBy # None =>
        /\ links[l].state = "stored"
        /\ <<links[l].request, links[l].paidBy>> \in settled
  BY DEF StoreInv, RowsPaid, Stored
<1>3. CASE links'[l] = links[l]
  BY <1>1, <1>2, <1>3
<1>4. CASE links'[l] = RemovedRow
  BY <1>4 DEF RemovedRow, UnusedRow
<1>5. CASE links[l] = UnusedRow /\ links'[l].state = "stored" /\ links'[l].paidBy = None
  BY <1>5
<1>6. CASE links'[l] = [links[l] EXCEPT !.revoked = TRUE]
  BY <1>1, <1>2, <1>6 DEF Row
<1>7. CASE /\ Stored(l) /\ links[l].paidBy = None /\ ~links[l].revoked
           /\ \E tx \in Transactions :
                /\ links'[l] = [links[l] EXCEPT !.paidBy = tx]
                /\ <<links[l].request, tx>> \in settled'
  BY <1>1, <1>7 DEF Row, Stored
<1> QED
  BY <1>1, <1>3, <1>4, <1>5, <1>6, <1>7 DEF RowStep

LEMMA KnowsKept ==
  ASSUME StoreInv, RowsMove, NEW job \in Job, Shaped(job), Knows(job)
  PROVE  Knows(job)'
<1> SUFFICES ASSUME job.kind = "settle"
             PROVE  /\ Pays[job.tx] = job.request
                    /\ job.link # None =>
                         \/ links'[job.link].state = "removed"
                         \/ links'[job.link].request = job.request
                    /\ job.stage \in {"save", "answer"}
                         => <<job.request, job.tx>> \in settled'
  BY DEF Knows
<1>1. ASSUME job.link # None
      PROVE  \/ links'[job.link].state = "removed"
             \/ links'[job.link].request = job.request
  <2> DEFINE l == job.link
  <2>1. l \in LinkIds /\ job.request \in Requests /\ job.request # None
    BY <1>1, StoreAssumption DEF Job, Shaped
  <2>2. links[l].state = "removed" \/ links[l].request = job.request
    BY <1>1 DEF Knows
  <2>3. links[l] \in Row /\ RowStep(l)
    BY <2>1 DEF StoreInv, StoreTypes, StoreTypeOK, RowsMove
  <2> HIDE DEF l
  <2>4. links'[l].state = "removed" \/ links'[l].request = job.request
    <3>1. CASE links'[l] = links[l]
      BY <2>2, <3>1
    <3>2. CASE links'[l] = RemovedRow
      BY <3>2 DEF RemovedRow, UnusedRow
    <3>3. CASE links[l] = UnusedRow
      BY <2>1, <2>2, <3>3 DEF UnusedRow
    <3>4. CASE links'[l] = [links[l] EXCEPT !.revoked = TRUE]
      BY <2>2, <2>3, <3>4 DEF Row
    <3>5. CASE \E tx \in Transactions : links'[l] = [links[l] EXCEPT !.paidBy = tx]
      BY <2>2, <2>3, <3>5 DEF Row
    <3> QED
      BY <2>3, <3>1, <3>2, <3>3, <3>4, <3>5 DEF RowStep
  <2> QED
    BY <2>4 DEF l
<1> QED
  BY <1>1 DEF Knows, RowsMove

JobMoves == \E w \in Workers : \E job : Becomes(w, job) /\ Knows(job)'

LEMMA OtherJobs ==
  ASSUME NEW job, job.kind # "settle"
  PROVE  Knows(job)'
BY DEF Knows

LEMMA FinishMoves ==
  ASSUME StoreInv, NEW w \in Workers, Finish(w)
  PROVE  JobMoves
<1>1. Becomes(w, Idle)
  BY FinishBecomes DEF StoreInv
<1>2. Knows(Idle)'
  BY OtherJobs DEF Idle
<1> QED
  BY <1>1, <1>2 DEF JobMoves

\* A handler goes on; one that may save from now on has seen its settlement.
MayContinue(w, stage) ==
  /\ NextStage(w, stage)
  /\ jobs[w].kind = "settle" /\ stage \in {"save", "answer"}
       => <<jobs[w].request, jobs[w].tx>> \in settled'

LEMMA ContinueMoves ==
  ASSUME StoreInv, RowsMove, NEW w \in Workers, NEW stage,
         MayContinue(w, stage), Continue(w, stage)
  PROVE  JobMoves
<1> DEFINE job == [jobs[w] EXCEPT !.stage = stage]
<1>1. Becomes(w, job)
  BY ContinueBecomes DEF StoreInv, MayContinue
<1>2. jobs[w] \in Job /\ Shaped(jobs[w]) /\ Knows(jobs[w])
  BY DEF StoreInv, StoreTypes, StoreTypeOK
<1>3. PICK old : old = jobs[w]
  OBVIOUS
<1>4. Knows(old)'
  BY <1>2, <1>3, KnowsKept
<1>5. PICK new : new = [old EXCEPT !.stage = stage]
  OBVIOUS
<1>6. new = job
  BY <1>3, <1>5
<1>7. Knows(new)'
  BY <1>2, <1>3, <1>4, <1>5 DEF Knows, Job, MayContinue
<1> QED
  BY <1>1, <1>6, <1>7 DEF JobMoves

-----------------------------------------------------------------------------
(* Every step moves rows and one job *)

StepOK == RowsMove /\ (JobMoves \/ UNCHANGED jobs)

LEMMA StoreStepTypes ==
  ASSUME StoreInv, NEW w \in Workers
  PROVE  /\ jobs[w] \in Job /\ Shaped(jobs[w]) /\ Knows(jobs[w])
         /\ jobs \in [Workers -> Job]
         /\ links \in [LinkIds -> Row]
BY DEF StoreInv, StoreTypes, StoreTypeOK

\* A new job that completes no payment.
LEMMA StartMoves ==
  ASSUME StoreInv, NEW w \in Workers, NEW job, Start(w, job),
         job \in Job, Shaped(job), job.kind # "settle"
  PROVE  JobMoves
BY StartBecomes, OtherJobs DEF StoreInv, JobMoves

LEMMA CreatorOK ==
  ASSUME StoreInv, CreatorStep
  PROVE  StepOK /\ UNCHANGED history /\ cancellations' \subseteq Requests
<1>1. PICK w \in Workers :
        \/ \E r \in Requests : CreateStoredPayLink(w, r) \/ CancelRoute(w, r)
        \/ \E l \in LinkIds : RevokeStoredPayLink(w, l)
  BY DEF CreatorStep
<1>2. cancellations \subseteq Requests
  BY DEF StoreInv, StoreTypes, StoreTypeOK
<1>3. ASSUME NEW r \in Requests, CreateStoredPayLink(w, r)
      PROVE  StepOK /\ UNCHANGED history /\ cancellations' \subseteq Requests
  <2> DEFINE job == [Idle EXCEPT !.kind = "create", !.stage = "insert",
                                 !.request = r]
  <2>1. job \in Job /\ Shaped(job) /\ job.kind # "settle"
    BY DEF Idle, Job, Shaped
  <2>2. Start(w, job)
    BY <1>3 DEF CreateStoredPayLink
  <2> HIDE DEF job
  <2>3. JobMoves
    BY <2>1, <2>2, StartMoves
  <2>4. RowsMove
    BY <1>3, CreateMoves DEF CreateStoredPayLink, StoreInv
  <2> QED
    BY <1>2, <1>3, <2>3, <2>4 DEF StepOK, CreateStoredPayLink
<1>4. ASSUME NEW r \in Requests, CancelRoute(w, r)
      PROVE  StepOK /\ UNCHANGED history /\ cancellations' \subseteq Requests
  <2> DEFINE job == [Idle EXCEPT !.kind = "cancel", !.stage = "record",
                                 !.request = r]
  <2>1. job \in Job /\ Shaped(job) /\ job.kind # "settle"
    BY DEF Idle, Job, Shaped
  <2>2. Start(w, job)
    BY <1>4 DEF CancelRoute
  <2> HIDE DEF job
  <2>3. JobMoves
    BY <2>1, <2>2, StartMoves
  <2>4. RowsMove
    BY <1>4, RowsStay DEF CancelRoute, StoreInv, tableVars
  <2> QED
    BY <1>2, <1>4, <2>3, <2>4 DEF StepOK, CancelRoute, tableVars
<1>5. ASSUME NEW l \in LinkIds, RevokeStoredPayLink(w, l)
      PROVE  StepOK /\ UNCHANGED history /\ cancellations' \subseteq Requests
  <2> DEFINE job == [Idle EXCEPT !.kind = "revoke", !.stage = "revoke",
                                 !.link = l]
  <2>1. job \in Job /\ Shaped(job) /\ job.kind # "settle"
    BY DEF Idle, Job, Shaped
  <2>2. Start(w, job)
    BY <1>5 DEF RevokeStoredPayLink
  <2> HIDE DEF job
  <2>3. JobMoves
    BY <2>1, <2>2, StartMoves
  <2>4. RowsMove
    BY <1>5, RowsStay DEF RevokeStoredPayLink, StoreInv, tableVars
  <2> QED
    BY <1>2, <1>5, <2>3, <2>4 DEF StepOK, RevokeStoredPayLink, tableVars
<1> QED
  BY <1>1, <1>3, <1>4, <1>5

LEMMA SelectMoves ==
  ASSUME StoreInv, NEW w \in Workers, SettleSelect(w)
  PROVE  JobMoves
<1> DEFINE job == jobs[w]
           rows == IF job.link = None THEN RowsOf(job.request)
                   ELSE {l \in {job.link} : Stored(l)}
<1>1. RowsMove
  BY RowsStay DEF SettleSelect, StoreInv, tableVars
<1>2. job \in Job /\ Shaped(job) /\ Knows(job) /\ job.kind = "settle"
  BY StoreStepTypes DEF SettleSelect, At
<1>3. /\ job.request \in Requests /\ job.tx \in Transactions
      /\ job.request # None /\ job.tx # None
  BY <1>2, StoreAssumption DEF Shaped
<1>4. \A l \in rows : l \in LinkIds /\ Stored(l) /\ links[l].request = job.request
  BY <1>2 DEF RowsOf, Job, Knows, Stored
<1>5. CASE Continue(w, "notFound")
  <2>1. MayContinue(w, "notFound")
    BY DEF MayContinue, NextStage, Refusals
  <2> QED
    BY <1>1, <1>5, <2>1, ContinueMoves
<1>6. ASSUME NEW l \in rows, Refusal(w, l) # "none", Continue(w, Refusal(w, l))
      PROVE  JobMoves
  <2>1. Refusal(w, l) \in Refusals /\ Refusal(w, l) \notin {"save", "answer"}
    BY <1>6, RefusalTypes DEF Refusals
  <2>2. MayContinue(w, Refusal(w, l))
    BY <2>1 DEF MayContinue, NextStage
  <2> QED
    BY <1>1, <1>6, <2>2, ContinueMoves
<1>7. ASSUME NEW l \in rows, links[l].paidBy = job.tx, Continue(w, "save")
      PROVE  JobMoves
  <2>1. <<job.request, job.tx>> \in settled'
    BY <1>1, <1>3, <1>4, <1>7 DEF StoreInv, RowsPaid, RowsMove
  <2>2. MayContinue(w, "save")
    BY <2>1 DEF MayContinue, NextStage
  <2> QED
    BY <1>1, <1>7, <2>2, ContinueMoves
<1>8. ASSUME NEW l \in rows,
             jobs' = [jobs EXCEPT ![w].stage = "update", ![w].link = l]
      PROVE  JobMoves
  <2>1. PICK new : new = [job EXCEPT !.stage = "update", !.link = l]
    OBVIOUS
  <2>2. new \in Job /\ Shaped(new)
    BY <1>2, <1>3, <1>4, <2>1 DEF Job, Shaped
  <2>3. jobs' = [jobs EXCEPT ![w] = new]
    BY <1>2, <1>8, <2>1, StoreStepTypes DEF Job
  <2>4. Knows(new)
    BY <1>2, <1>4, <2>1 DEF Knows, Job
  <2>5. Knows(new)'
    BY <1>1, <2>2, <2>4, KnowsKept
  <2> QED
    BY <2>2, <2>3, <2>5 DEF JobMoves, Becomes
<1> QED
  BY <1>5, <1>6, <1>7, <1>8, Zenon DEF SettleSelect

LEMMA UpdateJobMoves ==
  ASSUME StoreInv, NEW w \in Workers, SettleUpdate(w)
  PROVE  JobMoves
<1> DEFINE rows == PayableRows(jobs[w].request)
<1>1. RowsMove
  BY UpdateMoves DEF StoreInv
<1>2. jobs[w].link \in LinkIds
  BY StoreStepTypes DEF SettleUpdate, At, Shaped
<1>3. CASE rows = {}
  <2>1. Continue(w, "raced")
    BY <1>3 DEF SettleUpdate
  <2>2. MayContinue(w, "raced")
    BY <1>2 DEF MayContinue, NextStage
  <2> QED
    BY <1>1, <2>1, <2>2, ContinueMoves
<1>4. CASE rows # {}
  <2>1. Continue(w, "save") /\ <<jobs[w].request, jobs[w].tx>> \in settled'
    BY <1>4 DEF SettleUpdate
  <2>2. MayContinue(w, "save")
    BY <2>1 DEF MayContinue, NextStage
  <2> QED
    BY <1>1, <2>1, <2>2, ContinueMoves
<1> QED
  BY <1>3, <1>4

LEMMA RacedMoves ==
  ASSUME StoreInv, NEW w \in Workers, SettleRaced(w)
  PROVE  JobMoves
<1> DEFINE job == jobs[w]
<1>1. RowsMove
  BY RowsStay DEF SettleRaced, StoreInv, tableVars
<1>2. job \in Job /\ Shaped(job) /\ Knows(job) /\ At(w, "settle", "raced")
  BY StoreStepTypes DEF SettleRaced
<1>3. /\ job.request \in Requests /\ job.tx \in Transactions
      /\ job.link \in LinkIds /\ job.link # None /\ job.tx # None
  BY <1>2, StoreAssumption DEF Shaped, At
<1>4. CASE links[job.link].paidBy = job.tx
  <2>1. Continue(w, "save")
    BY <1>4 DEF SettleRaced
  <2>2. Stored(job.link) /\ <<links[job.link].request, job.tx>> \in settled
    BY <1>3, <1>4 DEF StoreInv, RowsPaid
  <2>3. links[job.link].request = job.request
    BY <1>2, <1>3, <2>2 DEF Knows, Stored, At
  <2>4. <<job.request, job.tx>> \in settled'
    BY <1>1, <2>2, <2>3 DEF RowsMove
  <2>5. MayContinue(w, "save")
    BY <2>4 DEF MayContinue, NextStage
  <2> QED
    BY <1>1, <2>1, <2>5, ContinueMoves
<1>5. CASE links[job.link].paidBy # job.tx
  <2>1. Continue(w, "alreadyPaid")
    BY <1>5 DEF SettleRaced
  <2>2. MayContinue(w, "alreadyPaid")
    BY DEF MayContinue, NextStage, Refusals
  <2> QED
    BY <1>1, <2>1, <2>2, ContinueMoves
<1> QED
  BY <1>4, <1>5

\* What the history gains: a payment that settled the request it is saved
\* with.
HistoryMoves ==
  /\ history' \in [Transactions -> Requests \cup {None}]
  /\ \A tx \in Transactions :
       \/ history'[tx] = history[tx]
       \/ Pays[tx] = history'[tx] /\ <<history'[tx], tx>> \in settled'

LEMMA HistoryStays ==
  ASSUME StoreInv, UNCHANGED history
  PROVE  HistoryMoves
BY DEF StoreInv, StoreTypes, StoreTypeOK, HistoryMoves

LEMMA SaveOK ==
  ASSUME StoreInv, NEW w \in Workers, SaveCompletedPayment(w)
  PROVE  StepOK /\ HistoryMoves
<1> DEFINE job == jobs[w]
<1>1. RowsMove
  BY RowsStay DEF SaveCompletedPayment, StoreInv
<1>2. job \in Job /\ Shaped(job) /\ Knows(job) /\ At(w, "settle", "save")
  BY StoreStepTypes DEF SaveCompletedPayment
<1>3. /\ job.request \in Requests /\ job.tx \in Transactions
      /\ Pays[job.tx] = job.request /\ <<job.request, job.tx>> \in settled
  BY <1>2 DEF Shaped, At, Knows
<1>4. MayContinue(w, "answer")
  BY <1>1, <1>3 DEF MayContinue, NextStage, RowsMove
<1>5. JobMoves
  BY <1>1, <1>4, ContinueMoves DEF SaveCompletedPayment
<1>6. history' = [history EXCEPT ![job.tx] = IF @ = None THEN job.request ELSE @]
  BY DEF SaveCompletedPayment
<1>7. settled \subseteq settled' /\ history \in [Transactions -> Requests \cup {None}]
  BY <1>1 DEF RowsMove, StoreInv, StoreTypes, StoreTypeOK
<1> HIDE DEF job
<1>8. HistoryMoves
  BY <1>3, <1>6, <1>7 DEF HistoryMoves
<1> QED
  BY <1>1, <1>5, <1>8 DEF StepOK

LEMMA HandlerOK ==
  ASSUME StoreInv, NEW w \in Workers, HandlerStep(w)
  PROVE  StepOK /\ HistoryMoves /\ cancellations' \subseteq Requests
<1>1. cancellations \subseteq Requests
  BY DEF StoreInv, StoreTypes, StoreTypeOK
<1>2. StoreTypes
  BY DEF StoreInv
<1>3. CASE InsertRow(w)
  <2>1. Finish(w) /\ UNCHANGED <<cancellations, history>>
    BY <1>3, Zenon DEF InsertRow
  <2> QED
    BY <1>1, <1>2, <1>3, <2>1, InsertMoves, FinishMoves, HistoryStays DEF StepOK
<1>4. CASE RevokeRow(w)
  <2>1. Finish(w) /\ UNCHANGED <<cancellations, history>>
    BY <1>4 DEF RevokeRow
  <2> QED
    BY <1>1, <1>2, <1>4, <2>1, RevokeRowMoves, FinishMoves, HistoryStays DEF StepOK
<1>5. CASE RecordCancellation(w)
  <2>1. /\ At(w, "cancel", "record") /\ Continue(w, "revoke")
        /\ UNCHANGED <<links, history, settled>>
        /\ cancellations' = cancellations \cup {jobs[w].request}
    BY <1>5 DEF RecordCancellation
  <2>2. MayContinue(w, "revoke")
    BY DEF MayContinue, NextStage
  <2>3. RowsMove
    BY <1>2, <2>1, RowsStay
  <2>4. jobs[w].request \in Requests
    BY <2>1, StoreStepTypes DEF At, Shaped
  <2> QED
    BY <1>1, <2>1, <2>2, <2>3, <2>4, ContinueMoves, HistoryStays DEF StepOK
<1>6. CASE RevokeRows(w)
  <2>1. Finish(w) /\ UNCHANGED <<cancellations, history>>
    BY <1>6 DEF RevokeRows
  <2> QED
    BY <1>1, <1>2, <1>6, <2>1, RevokeRowsMoves, FinishMoves, HistoryStays DEF StepOK
<1>7. CASE SettleSelect(w)
  <2>1. UNCHANGED <<links, cancellations, history, settled>>
    BY <1>7 DEF SettleSelect, tableVars
  <2> QED
    BY <1>1, <1>2, <1>7, <2>1, RowsStay, SelectMoves, HistoryStays DEF StepOK
<1>8. CASE SettleUpdate(w)
  <2>1. UNCHANGED <<cancellations, history>>
    BY <1>8 DEF SettleUpdate
  <2> QED
    BY <1>1, <1>2, <1>8, <2>1, UpdateMoves, UpdateJobMoves, HistoryStays DEF StepOK
<1>9. CASE SettleRaced(w)
  <2>1. UNCHANGED <<links, cancellations, history, settled>>
    BY <1>9 DEF SettleRaced, tableVars
  <2> QED
    BY <1>1, <1>2, <1>9, <2>1, RowsStay, RacedMoves, HistoryStays DEF StepOK
<1>10. CASE SaveCompletedPayment(w)
  <2>1. UNCHANGED cancellations
    BY <1>10 DEF SaveCompletedPayment
  <2> QED
    BY <1>1, <1>10, <2>1, SaveOK
<1>11. CASE Fail(w)
  <2>1. Finish(w) /\ UNCHANGED <<links, cancellations, history, settled>>
    BY <1>11 DEF Fail, tableVars
  <2> QED
    BY <1>1, <1>2, <2>1, RowsStay, FinishMoves, HistoryStays DEF StepOK
<1> QED
  BY <1>3, <1>4, <1>5, <1>6, <1>7, <1>8, <1>9, <1>10, <1>11 DEF HandlerStep

LEMMA ReportOK ==
  ASSUME StoreInv, ReportStep
  PROVE  StepOK /\ HistoryMoves /\ cancellations' \subseteq Requests
<1>1. PICK w \in Workers :
        \/ \E tx \in Transactions, l \in LinkIds \cup {None} :
             /\ l # None => \/ links[l].request = Pays[tx]
                            \/ links[l].state = "removed"
             /\ StartSettlement(w, tx, Pays[tx], l)
        \/ AnswerRecorded(w)
        \/ AnswerRefused(w)
  BY DEF ReportStep
<1>2. UNCHANGED <<links, cancellations, history, settled>>
  BY <1>1 DEF StartSettlement, AnswerRecorded, AnswerRefused, tableVars
<1>3. /\ RowsMove /\ HistoryMoves /\ cancellations' \subseteq Requests
  BY <1>2, RowsStay, HistoryStays DEF StoreInv, StoreTypes, StoreTypeOK
<1>4. ASSUME NEW tx \in Transactions, NEW l \in LinkIds \cup {None},
             l # None => \/ links[l].request = Pays[tx]
                         \/ links[l].state = "removed",
             StartSettlement(w, tx, Pays[tx], l)
      PROVE  JobMoves
  <2>1. PICK job : job = [kind |-> "settle", stage |-> "select",
                          request |-> Pays[tx], link |-> l, tx |-> tx,
                          paidAt |-> now]
    OBVIOUS
  <2>2. Pays[tx] \in Requests /\ now \in Nat
    BY StoreAssumption DEF StoreInv, StoreTypes
  <2>3. job \in Job /\ Shaped(job) /\ Knows(job)
    BY <1>4, <2>1, <2>2 DEF Job, Shaped, Knows
  <2>4. Becomes(w, job)
    BY <1>4, <2>1, <2>3 DEF StartSettlement, Start, Becomes
  <2>5. Knows(job)'
    BY <1>3, <2>3, KnowsKept
  <2> QED
    BY <2>4, <2>5 DEF JobMoves
<1>5. CASE AnswerRecorded(w) \/ AnswerRefused(w)
  <2>1. Finish(w)
    BY <1>5 DEF AnswerRecorded, AnswerRefused
  <2> QED
    BY <1>3, <2>1, FinishMoves DEF StepOK
<1> QED
  BY <1>1, <1>3, <1>4, <1>5 DEF StepOK

-----------------------------------------------------------------------------
(* The invariant *)

LEMMA InitInv == StoreInit => StoreInv /\ HistoryIsSettled
<1> SUFFICES ASSUME StoreInit PROVE StoreInv /\ HistoryIsSettled
  OBVIOUS
<1>1. UnusedRow \in Row /\ UnusedRow.paidBy = None
  BY DEF UnusedRow, Row
<1>2. Idle \in Job /\ Shaped(Idle) /\ Knows(Idle)
  BY DEF Idle, Job, Shaped, Knows
<1>3. StoreTypes
  BY <1>1, <1>2 DEF StoreInit, StoreTypes, StoreTypeOK
<1>4. RowsPaid
  BY <1>1 DEF StoreInit, RowsPaid
<1>5. \A w \in Workers : Knows(jobs[w])
  BY <1>2 DEF StoreInit
<1>6. HistoryIsSettled
  BY DEF StoreInit, HistoryIsSettled
<1> QED
  BY <1>3, <1>4, <1>5, <1>6 DEF StoreInv

LEMMA NextOK ==
  ASSUME StoreInv, [StoreNext]_allVars
  PROVE  /\ StepOK /\ HistoryMoves /\ cancellations' \subseteq Requests
         /\ now' \in Nat
<1>1. StoreTypes
  BY DEF StoreInv
<1>2. now \in Nat /\ cancellations \subseteq Requests
  BY <1>1 DEF StoreTypes, StoreTypeOK
<1>3. CASE ClockTick /\ UNCHANGED storeVars
  <2>1. /\ now' = now + 1
        /\ UNCHANGED <<links, cancellations, history, settled, jobs>>
    BY <1>3 DEF ClockTick, storeVars, tableVars
  <2> QED
    BY <1>1, <1>2, <2>1, RowsStay, HistoryStays DEF StepOK
<1>4. CASE CreatorStep /\ UNCHANGED now
  BY <1>2, <1>4, CreatorOK, HistoryStays
<1>5. CASE (\E w \in Workers : HandlerStep(w)) /\ UNCHANGED now
  BY <1>2, <1>5, HandlerOK
<1>6. CASE ReportStep /\ UNCHANGED now
  BY <1>2, <1>6, ReportOK
<1>7. CASE UNCHANGED allVars
  <2>1. UNCHANGED <<now, links, cancellations, history, settled, jobs>>
    BY <1>7 DEF allVars, storeVars, tableVars
  <2> QED
    BY <1>1, <1>2, <2>1, RowsStay, HistoryStays DEF StepOK
<1> QED
  BY <1>3, <1>4, <1>5, <1>6, <1>7 DEF StoreNext, StoreStep

LEMMA NextInv ==
  ASSUME StoreInv, [StoreNext]_allVars
  PROVE  StoreInv'
<1>1. /\ RowsMove /\ (JobMoves \/ UNCHANGED jobs)
      /\ history' \in [Transactions -> Requests \cup {None}]
      /\ cancellations' \subseteq Requests /\ now' \in Nat
  BY NextOK DEF StepOK, HistoryMoves
<1>2. RowsPaid'
  BY <1>1, RowsPaidKept
<1>3. \A v \in Workers : Knows(jobs[v])'
  <2> SUFFICES ASSUME NEW v \in Workers PROVE Knows(jobs[v])'
    OBVIOUS
  <2>1. PICK old : old = jobs[v]
    OBVIOUS
  <2>2. Knows(old)'
    BY <1>1, <2>1, StoreStepTypes, KnowsKept
  <2>3. CASE jobs'[v] = old
    BY <2>2, <2>3 DEF Knows
  <2>4. CASE jobs'[v] # old
    <3>1. PICK w \in Workers : \E job : Becomes(w, job) /\ Knows(job)'
      BY <1>1, <2>1, <2>4 DEF JobMoves
    <3>2. PICK job : Becomes(w, job) /\ Knows(job)'
      BY <3>1
    <3>3. jobs'[w] = job /\ \A u \in Workers \ {w} : jobs'[u] = jobs[u]
      BY <3>2, BecomesTypes DEF StoreInv
    <3>4. jobs'[v] = job
      BY <2>1, <2>4, <3>3
    <3> QED
      BY <3>2, <3>4 DEF Knows
  <2> QED
    BY <2>3, <2>4
<1>4. jobs' \in [Workers -> Job] /\ \A v \in Workers : Shaped(jobs'[v])
  <2>1. CASE UNCHANGED jobs
    BY <2>1 DEF StoreInv, StoreTypes, StoreTypeOK
  <2>2. CASE JobMoves
    BY <2>2, BecomesTypes DEF JobMoves, StoreInv
  <2> QED
    BY <1>1, <2>1, <2>2
<1>5. StoreTypes'
  BY <1>1, <1>4 DEF RowsMove, StoreTypes, StoreTypeOK, Shaped
<1> QED
  BY <1>2, <1>3, <1>5 DEF StoreInv

LEMMA HistoryKept ==
  ASSUME StoreInv, HistoryIsSettled, [StoreNext]_allVars
  PROVE  HistoryIsSettled'
<1>1. HistoryMoves /\ settled \subseteq settled'
  BY NextOK DEF StepOK, RowsMove
<1> QED
  BY <1>1 DEF HistoryMoves, HistoryIsSettled

\* What a step may do to a row that is paid, or revoked and not paid.
LEMMA RowsFinal ==
  ASSUME StoreInv, [StoreNext]_allVars, NEW l \in LinkIds
  PROVE  /\ links[l].paidBy # None /\ links'[l].state = "stored"
              => links'[l].paidBy = links[l].paidBy
         /\ links[l].revoked /\ links[l].paidBy = None
              => links'[l].paidBy = None
<1>1. RowStep(l) /\ links[l] \in Row
  BY NextOK DEF StepOK, RowsMove, StoreInv, StoreTypes, StoreTypeOK
<1>2. CASE links'[l] = links[l]
  BY <1>2
<1>3. CASE links'[l] = RemovedRow
  BY <1>3 DEF RemovedRow, UnusedRow
<1>4. CASE links[l] = UnusedRow
  BY <1>4 DEF UnusedRow
<1>5. CASE links'[l] = [links[l] EXCEPT !.revoked = TRUE]
  BY <1>1, <1>5 DEF Row
<1>6. CASE links[l].paidBy = None /\ ~links[l].revoked
  BY <1>6
<1> QED
  BY <1>1, <1>2, <1>3, <1>4, <1>5, <1>6 DEF RowStep

-----------------------------------------------------------------------------
(* Theorems *)

LEMMA StoreInvariant == StoreSpec => [](StoreInv /\ HistoryIsSettled)
<1>1. StoreInit => StoreInv /\ HistoryIsSettled
  BY InitInv
<1>2. StoreInv /\ HistoryIsSettled /\ [StoreNext]_allVars
        => (StoreInv /\ HistoryIsSettled)'
  BY NextInv, HistoryKept
<1> QED
  BY <1>1, <1>2, PTL DEF StoreSpec, allVars

\* The history attributes to a request only a payment of that request which
\* settled one of its links: payLinkStore.ts settles a row for a payment before
\* the completion route saves it, also when two handlers race and one dies.
THEOREM HistoryOnlyOfSettled == StoreSpec => []HistoryIsSettled
BY StoreInvariant, PTL

\* A stored link keeps the payment that settled it first: the settling UPDATE
\* of payLinkStore.ts writes only rows that nobody has paid.
THEOREM SettlementsAreFinal == StoreSpec => SettlementIsFinal
<1>1. StoreInv /\ [StoreNext]_allVars
        => [\A l \in LinkIds :
              links[l].paidBy # None /\ links'[l].state = "stored"
                => links'[l].paidBy = links[l].paidBy]_allVars
  BY RowsFinal
<1> QED
  BY <1>1, StoreInvariant, PTL DEF StoreSpec, SettlementIsFinal, allVars

\* A row that is revoked or cancelled before it is paid is never settled, even
\* by a completion that read it before.
THEOREM RevokedRowsStayUnpaid == StoreSpec => RevokedNeverSettled
<1>1. StoreInv /\ [StoreNext]_allVars
        => [\A l \in LinkIds :
              links[l].revoked /\ links[l].paidBy = None
                => links'[l].paidBy = None]_allVars
  BY RowsFinal
<1> QED
  BY <1>1, StoreInvariant, PTL DEF StoreSpec, RevokedNeverSettled, allVars

-----------------------------------------------------------------------------
(* The checkout *)

CheckoutTypes ==
  /\ tabs \in [Tabs -> Tab]
  /\ polls \in [Tabs -> [Polls -> Poll]]

\* A checkout nobody has opened asks for nothing.
Untouched ==
  \A c \in Tabs :
    tabs[c].request = None /\ tabs[c].view = "checking" =>
      tabs[c] = ClosedTab /\ \A p \in Polls : polls[c][p] = NoPoll

\* A checkout opened after the cancellation of its request: whatever its
\* status requests have read, it is not that the request stands.
Barred ==
  \A c \in Tabs : tabs[c].openedCancelled =>
    /\ tabs[c].request \in cancellations
    /\ tabs[c].tx = None
    /\ tabs[c].view # "active"
    /\ \A p \in Polls : polls[c][p].cancelled # "no"

CheckoutInv == CheckoutTypes /\ Untouched /\ Barred

LEMMA CheckoutInitInv == PayInit => CheckoutInv
BY DEF PayInit, CheckoutInv, CheckoutTypes, Untouched, Barred, Tab, ClosedTab,
       Views, Poll, NoPoll

\* cancelPaymentRequest is never undone.
LEMMA CancellationsStay ==
  ASSUME StoreStep \/ CompletionStep \/ CheckoutStep
  PROVE  cancellations \subseteq cancellations'
<1>1. CASE StoreStep
  BY <1>1 DEF StoreStep, CreatorStep, HandlerStep, CreateStoredPayLink,
         CancelRoute, RevokeStoredPayLink, InsertRow, RevokeRow,
         RecordCancellation, RevokeRows, SettleSelect, SettleUpdate,
         SettleRaced, SaveCompletedPayment, Fail, tableVars
<1>2. CASE CompletionStep
  BY <1>2 DEF CompletionStep, PostCompletion, StartSettlement,
         CompletionRecorded, CompletionRefused, AnswerRecorded, AnswerRefused,
         tableVars
<1>3. CASE CheckoutStep
  BY <1>3 DEF CheckoutStep, OpenTab, CloseTab, StartPoll, ReadCancelled,
         ReadPaid, ShowStatus, StatusUnavailable, Pay, Confirm, storeVars,
         tableVars
<1> QED
  BY <1>1, <1>2, <1>3

\* A step that changes one checkout, its tab or its status requests.
CheckoutBecomes(c, tab, asked) ==
  /\ tab \in Tab /\ asked \in [Polls -> Poll]
  /\ tabs' = [tabs EXCEPT ![c] = tab]
  /\ polls' = [polls EXCEPT ![c] = asked]

LEMMA OneCheckout ==
  ASSUME CheckoutInv, NEW c \in Tabs, NEW tab, NEW asked,
         CheckoutBecomes(c, tab, asked), cancellations \subseteq cancellations',
         tab.request = None /\ tab.view = "checking" =>
           tab = ClosedTab /\ \A p \in Polls : asked[p] = NoPoll,
         tab.openedCancelled =>
           /\ tab.request \in cancellations' /\ tab.tx = None
           /\ tab.view # "active"
           /\ \A p \in Polls : asked[p].cancelled # "no"
  PROVE  CheckoutInv'
<1>1. /\ CheckoutTypes' /\ tabs'[c] = tab /\ polls'[c] = asked
      /\ \A d \in Tabs \ {c} : tabs'[d] = tabs[d] /\ polls'[d] = polls[d]
  BY DEF CheckoutInv, CheckoutTypes, CheckoutBecomes
<1>2. Untouched'
  BY <1>1 DEF CheckoutInv, Untouched
<1>3. Barred'
  BY <1>1 DEF CheckoutInv, Barred
<1> QED
  BY <1>1, <1>2, <1>3 DEF CheckoutInv

LEMMA OpenTabBars ==
  ASSUME CheckoutInv, NEW c \in Tabs, NEW r \in Requests,
         NEW l \in LinkIds \cup {None}, OpenTab(c, r, l)
  PROVE  CheckoutInv'
<1> DEFINE known == r \in cancellations
           tab == [ClosedTab EXCEPT !.request = r, !.link = l,
                                    !.openedCancelled = known]
<1>1. /\ tabs[c] = ClosedTab /\ tabs' = [tabs EXCEPT ![c] = tab]
      /\ UNCHANGED <<polls, cancellations>>
  BY DEF OpenTab, storeVars, tableVars
<1>2. known \in BOOLEAN
  OBVIOUS
<1>7. known => r \in cancellations
  OBVIOUS
<1> HIDE DEF known
<1>3. /\ tab \in Tab /\ tab.request = r /\ tab.tx = None
      /\ tab.view = "checking" /\ tab.openedCancelled = known
  BY <1>2 DEF Tab, ClosedTab, Views
<1>4. \A p \in Polls : polls[c][p] = NoPoll
  BY <1>1 DEF CheckoutInv, Untouched, ClosedTab
<1>5. CheckoutBecomes(c, tab, polls[c])
  BY <1>1, <1>3 DEF CheckoutBecomes, CheckoutInv, CheckoutTypes
<1>6. r # None
  BY StoreAssumption
<1> HIDE DEF tab
<1> QED
  BY <1>1, <1>3, <1>4, <1>5, <1>6, <1>7, OneCheckout DEF NoPoll

LEMMA CloseTabBars ==
  ASSUME CheckoutInv, NEW c \in Tabs, CloseTab(c)
  PROVE  CheckoutInv'
<1>1. CheckoutBecomes(c, ClosedTab, [p \in Polls |-> NoPoll])
  BY DEF CloseTab, CheckoutBecomes, Tab, ClosedTab, Views, Poll, NoPoll
<1>2. UNCHANGED cancellations
  BY DEF CloseTab, storeVars, tableVars
<1> QED
  BY <1>1, <1>2, OneCheckout DEF ClosedTab

\* What a checkout's status requests may come to, while its tab stays.
LEMMA AskingBars ==
  ASSUME CheckoutInv, NEW c \in Tabs, NEW p \in Polls, NEW poll \in Poll,
         polls' = [polls EXCEPT ![c][p] = poll], UNCHANGED tabs,
         UNCHANGED cancellations,
         tabs[c] # ClosedTab \/ polls[c][p] # NoPoll,
         poll.cancelled = "no" =>
           tabs[c].request \notin cancellations \/ polls[c][p].cancelled = "no"
  PROVE  CheckoutInv'
<1> DEFINE asked == [polls[c] EXCEPT ![p] = poll]
<1>1. CheckoutBecomes(c, tabs[c], asked)
  BY DEF CheckoutBecomes, CheckoutInv, CheckoutTypes
<1>2. \A q \in Polls : asked[q] = IF q = p THEN poll ELSE polls[c][q]
  BY DEF CheckoutInv, CheckoutTypes
<1>3. ~(tabs[c].request = None /\ tabs[c].view = "checking")
  BY DEF CheckoutInv, Untouched
<1>4. tabs[c].openedCancelled =>
        /\ tabs[c].request \in cancellations' /\ tabs[c].tx = None
        /\ tabs[c].view # "active"
        /\ \A q \in Polls : asked[q].cancelled # "no"
  BY <1>2 DEF CheckoutInv, Barred
<1> HIDE DEF asked
<1> QED
  BY <1>1, <1>3, <1>4, OneCheckout

LEMMA PollBars ==
  ASSUME CheckoutInv, NEW c \in Tabs, NEW p \in Polls,
         StartPoll(c, p) \/ ReadCancelled(c, p) \/ ReadPaid(c, p)
  PROVE  CheckoutInv'
<1>1. UNCHANGED <<tabs, cancellations>>
  BY DEF StartPoll, ReadCancelled, ReadPaid, storeVars, tableVars
<1>2. polls[c][p] \in Poll
  BY DEF CheckoutInv, CheckoutTypes
<1>3. CASE StartPoll(c, p)
  <2> DEFINE poll == [cancelled |-> "unread", paid |-> "unread"]
  <2>1. poll \in Poll /\ poll.cancelled # "no"
    BY DEF Poll
  <2>2. polls' = [polls EXCEPT ![c][p] = poll] /\ tabs[c] # ClosedTab
    BY <1>3 DEF StartPoll
  <2> HIDE DEF poll
  <2> QED
    BY <1>1, <2>1, <2>2, AskingBars
<1>4. CASE ReadCancelled(c, p)
  <2> DEFINE answer == IF tabs[c].request \in cancellations THEN "yes" ELSE "no"
             poll == [polls[c][p] EXCEPT !.cancelled = answer]
  <2>1. poll \in Poll /\ poll.cancelled = answer
    BY <1>2 DEF Poll
  <2>2. polls' = [polls EXCEPT ![c][p] = poll] /\ polls[c][p] # NoPoll
    BY <1>4 DEF ReadCancelled, NoPoll, CheckoutInv, CheckoutTypes
  <2> HIDE DEF poll
  <2> QED
    BY <1>1, <2>1, <2>2, AskingBars
<1>5. CASE ReadPaid(c, p)
  <2> DEFINE answer == IF IsPaymentRequestPaid(tabs[c].request) THEN "yes" ELSE "no"
             poll == [polls[c][p] EXCEPT !.paid = answer]
  <2>1. poll \in Poll /\ poll.cancelled = polls[c][p].cancelled
    BY <1>2 DEF Poll
  <2>2. polls' = [polls EXCEPT ![c][p] = poll] /\ polls[c][p] # NoPoll
    BY <1>5 DEF ReadPaid, NoPoll, CheckoutInv, CheckoutTypes
  <2> HIDE DEF poll
  <2> QED
    BY <1>1, <2>1, <2>2, AskingBars
<1> QED
  BY <1>3, <1>4, <1>5

\* An answer shows that a barred checkout may be paid in no case.
LEMMA ShowBars ==
  ASSUME CheckoutInv, NEW c \in Tabs, NEW p \in Polls,
         ShowStatus(c, p) \/ StatusUnavailable(c, p)
  PROVE  CheckoutInv'
<1> DEFINE view == IF ShowStatus(c, p) THEN StatusOf(polls[c][p])
                   ELSE "unavailable"
           tab == [tabs[c] EXCEPT !.view = view]
           asked == [polls[c] EXCEPT ![p] = NoPoll]
<1>1. /\ polls[c][p] # NoPoll
      /\ polls' = [polls EXCEPT ![c][p] = NoPoll]
      /\ UNCHANGED cancellations
  BY DEF ShowStatus, StatusUnavailable, storeVars, tableVars, NoPoll
<1>2. tabs' = [tabs EXCEPT ![c] = tab]
  BY DEF ShowStatus, StatusUnavailable, CheckoutInv, CheckoutTypes
<1>3. view \in Views \ {"checking"}
  BY DEF Views, StatusOf
<1>4. tabs[c].openedCancelled => view # "active"
  BY <1>1 DEF ShowStatus, CheckoutInv, Barred, StatusOf
<1> HIDE DEF view
<1>5. /\ tab \in Tab /\ tab.view = view /\ tab.request = tabs[c].request
      /\ tab.tx = tabs[c].tx
      /\ tab.openedCancelled = tabs[c].openedCancelled
  BY <1>3 DEF CheckoutInv, CheckoutTypes, Tab
<1>6. /\ asked \in [Polls -> Poll]
      /\ \A q \in Polls : asked[q] = IF q = p THEN NoPoll ELSE polls[c][q]
  BY DEF CheckoutInv, CheckoutTypes, Poll, NoPoll
<1>7. CheckoutBecomes(c, tab, asked)
  BY <1>1, <1>2, <1>5, <1>6 DEF CheckoutBecomes, CheckoutInv, CheckoutTypes
<1> HIDE DEF tab, asked
<1>8. ASSUME tab.openedCancelled
      PROVE  /\ tab.request \in cancellations' /\ tab.tx = None
             /\ tab.view # "active"
             /\ \A q \in Polls : asked[q].cancelled # "no"
  <2>1. tabs[c].openedCancelled
    BY <1>5, <1>8
  <2>2. /\ tabs[c].request \in cancellations /\ tabs[c].tx = None
        /\ \A q \in Polls : polls[c][q].cancelled # "no"
    BY <2>1 DEF CheckoutInv, Barred
  <2>3. \A q \in Polls : asked[q].cancelled # "no"
    BY <1>6, <2>2 DEF NoPoll
  <2> QED
    BY <1>1, <1>4, <1>5, <2>1, <2>2, <2>3
<1> QED
  BY <1>1, <1>3, <1>5, <1>7, <1>8, OneCheckout

LEMMA PayBars ==
  ASSUME CheckoutInv, NEW c \in Tabs, Pay(c) \/ Confirm(c)
  PROVE  CheckoutInv'
<1>1. UNCHANGED <<polls, cancellations>>
  BY DEF Pay, Confirm, storeVars, tableVars
<1>2. CASE Pay(c)
  <2>1. PICK tx \in Transactions : tabs' = [tabs EXCEPT ![c].tx = tx]
    BY <1>2 DEF Pay
  <2> DEFINE tab == [tabs[c] EXCEPT !.tx = tx]
  <2>2. /\ tab \in Tab /\ tab.view = "active"
        /\ tab.openedCancelled = tabs[c].openedCancelled
    BY <1>2 DEF Pay, CheckoutInv, CheckoutTypes, Tab
  <2>3. CheckoutBecomes(c, tab, polls[c])
    BY <1>1, <2>1, <2>2 DEF CheckoutBecomes, CheckoutInv, CheckoutTypes
  <2>4. ~tab.openedCancelled
    BY <1>2, <2>2 DEF Pay, CheckoutInv, Barred
  <2> HIDE DEF tab
  <2> QED
    BY <1>1, <2>2, <2>3, <2>4, OneCheckout
<1>3. CASE Confirm(c)
  <2> DEFINE tab == [tabs[c] EXCEPT !.confirmed = TRUE]
  <2>1. /\ tab \in Tab /\ tab.view = tabs[c].view
        /\ tab.request = tabs[c].request /\ tab.tx = tabs[c].tx
        /\ tab.openedCancelled = tabs[c].openedCancelled
    BY DEF CheckoutInv, CheckoutTypes, Tab
  <2>2. CheckoutBecomes(c, tab, polls[c])
    BY <1>1, <1>3, <2>1
    DEF Confirm, CheckoutBecomes, CheckoutInv, CheckoutTypes
  <2>3. tabs[c].tx # None
    BY <1>3 DEF Confirm
  <2>4. /\ ~(tab.request = None /\ tab.view = "checking")
        /\ ~tab.openedCancelled
    BY <2>1, <2>3 DEF CheckoutInv, Untouched, Barred, ClosedTab
  <2> HIDE DEF tab
  <2> QED
    BY <1>1, <2>2, <2>4, OneCheckout
<1> QED
  BY <1>2, <1>3

\* A recorded completion only ever shows "paid".
LEMMA CompletionBars ==
  ASSUME CheckoutInv, CompletionStep
  PROVE  CheckoutInv'
<1>1. PICK w \in Workers :
        PostCompletion(w) \/ CompletionRecorded(w) \/ CompletionRefused(w)
  BY DEF CompletionStep
<1>2. UNCHANGED <<polls, cancellations>>
  BY <1>1 DEF PostCompletion, StartSettlement, CompletionRecorded,
         CompletionRefused, AnswerRecorded, AnswerRefused, browserVars, tableVars
<1>3. /\ tabs' = [c \in Tabs |-> tabs'[c]]
      /\ \A c \in Tabs : tabs'[c] \in {tabs[c], [tabs[c] EXCEPT !.view = "paid"]}
  <2>1. CASE CompletionRecorded(w)
    BY <2>1 DEF CompletionRecorded
  <2>2. CASE PostCompletion(w) \/ CompletionRefused(w)
    BY <2>2 DEF PostCompletion, CompletionRefused, browserVars, CheckoutInv,
                CheckoutTypes
  <2> QED
    BY <1>1, <2>1, <2>2
<1>4. ASSUME NEW c \in Tabs
      PROVE  /\ tabs'[c] \in Tab
             /\ \/ tabs'[c] = tabs[c]
                \/ /\ tabs'[c].view = "paid"
                   /\ tabs'[c].request = tabs[c].request
                   /\ tabs'[c].tx = tabs[c].tx
                   /\ tabs'[c].openedCancelled = tabs[c].openedCancelled
  <2> DEFINE tab == [tabs[c] EXCEPT !.view = "paid"]
  <2>1. tabs[c] \in Tab
    BY DEF CheckoutInv, CheckoutTypes
  <2>2. /\ tab \in Tab /\ tab.view = "paid" /\ tab.request = tabs[c].request
        /\ tab.tx = tabs[c].tx
        /\ tab.openedCancelled = tabs[c].openedCancelled
    BY <2>1 DEF Tab, Views
  <2>3. tabs'[c] = tabs[c] \/ tabs'[c] = tab
    BY <1>3
  <2> HIDE DEF tab
  <2>4. CASE tabs'[c] = tab
    BY <2>2, <2>4
  <2> QED
    BY <2>1, <2>3, <2>4
<1>5. CheckoutTypes'
  BY <1>2, <1>3, <1>4 DEF CheckoutInv, CheckoutTypes
<1>6. Untouched' /\ Barred'
  BY <1>2, <1>4 DEF CheckoutInv, Untouched, Barred
<1> QED
  BY <1>5, <1>6 DEF CheckoutInv

LEMMA CheckoutNextInv ==
  ASSUME CheckoutInv, [PayNext]_payVars
  PROVE  CheckoutInv'
<1>1. CASE CheckoutStep
  BY <1>1, OpenTabBars, CloseTabBars, PollBars, ShowBars, PayBars
  DEF CheckoutStep
<1>2. CASE CompletionStep
  BY <1>2, CompletionBars
<1>3. ASSUME UNCHANGED browserVars, cancellations \subseteq cancellations'
      PROVE  CheckoutInv'
  BY <1>3 DEF browserVars, CheckoutInv, CheckoutTypes, Untouched, Barred
<1> QED
  BY <1>1, <1>2, <1>3, CancellationsStay
  DEF PayNext, payVars, storeVars, tableVars

\* Once a request is cancelled, no checkout opened from then on sends a
\* payment: not by a short link, not by a portable one, and not when answers
\* to its status requests are late or overtake each other.
THEOREM CancelledNeverPaid == PaySpec => []CancelledNotPayable
<1>1. PaySpec => []CheckoutInv
  BY CheckoutInitInv, CheckoutNextInv, PTL DEF PaySpec
<1>2. CheckoutInv => CancelledNotPayable
  BY DEF CheckoutInv, Barred, CancelledNotPayable
<1> QED
  BY <1>1, <1>2, PTL

-----------------------------------------------------------------------------
(* The payer's queue *)

\* A row of the request, unless that is gone.
RowFor(l, r) ==
  l # None => /\ l \in LinkIds
              /\ links[l].state = "removed" \/ links[l].request = r

\* What the browser holds of a payment is about the request it pays.
TabFor(tab) ==
  /\ tab.request # None => RowFor(tab.link, tab.request)
  /\ tab.tx # None => Pays[tab.tx] = tab.request

TabsRight == \A c \in Tabs : TabFor(tabs[c])

RightCompletions ==
  {item \in Completion :
     Pays[item.tx] = item.request /\ RowFor(item.link, item.request)}

QueueRight == queue \in Seq(RightCompletions) /\ Len(queue) <= MaxPending

\* The answer 201 is of a payment that is in the history.
AnswersRecorded ==
  \A w \in Workers :
    At(w, "settle", "answer") => history[jobs[w].tx] # None

PayInv ==
  /\ StoreInv
  /\ HistoryIsSettled
  /\ CheckoutInv
  /\ TabsRight
  /\ QueueRight
  /\ AnswersRecorded

LEMMA RowForKept ==
  ASSUME StoreInv, RowsMove, NEW r \in Requests, NEW l, RowFor(l, r)
  PROVE  RowFor(l, r)'
<1> SUFFICES ASSUME l # None
             PROVE  /\ l \in LinkIds
                    /\ links'[l].state = "removed" \/ links'[l].request = r
  BY DEF RowFor
<1>1. l \in LinkIds /\ (links[l].state = "removed" \/ links[l].request = r)
  BY DEF RowFor
<1>2. links[l] \in Row /\ RowStep(l) /\ r # None
  BY <1>1, StoreAssumption DEF StoreInv, StoreTypes, StoreTypeOK, RowsMove
<1>3. CASE links'[l] = links[l]
  BY <1>1, <1>3
<1>4. CASE links'[l] = RemovedRow
  BY <1>1, <1>4 DEF RemovedRow, UnusedRow
<1>5. CASE links[l] = UnusedRow
  BY <1>1, <1>2, <1>5 DEF UnusedRow
<1>6. CASE links'[l] = [links[l] EXCEPT !.revoked = TRUE]
  BY <1>1, <1>2, <1>6 DEF Row
<1>7. CASE \E tx \in Transactions : links'[l] = [links[l] EXCEPT !.paidBy = tx]
  BY <1>1, <1>2, <1>7 DEF Row
<1> QED
  BY <1>2, <1>3, <1>4, <1>5, <1>6, <1>7 DEF RowStep

LEMMA RightCompletionsKept ==
  ASSUME StoreInv, RowsMove
  PROVE  RightCompletions \subseteq RightCompletions'
<1> SUFFICES ASSUME NEW item \in Completion, Pays[item.tx] = item.request,
                    RowFor(item.link, item.request)
             PROVE  RowFor(item.link, item.request)'
  BY DEF RightCompletions
<1>1. item.request \in Requests
  BY DEF Completion
<1> QED
  BY <1>1, RowForKept

\* readQueue and forgetCompletion, as positions of the queue.
LivePositions == {i \in DOMAIN queue : now - queue[i].queuedAt <= RetryTtl}
OtherPositions(items, tx) == {i \in DOMAIN items : items[i].tx # tx}

LEMMA LiveTyped ==
  ASSUME QueueRight
  PROVE  LiveQueue \in Seq(RightCompletions) /\ Len(LiveQueue) <= Len(queue)
<1>1. LivePositions \subseteq DOMAIN queue /\ queue \in Seq(RightCompletions)
  BY DEF LivePositions, QueueRight
<1>2. LiveQueue = KeepAt(queue, LivePositions)
  BY DEF LiveQueue, LivePositions
<1> QED
  BY <1>1, <1>2, KeptTyped

LEMMA WithoutTyped ==
  ASSUME NEW S, NEW items \in Seq(S), NEW tx
  PROVE  Without(items, tx) \in Seq(S) /\ Len(Without(items, tx)) <= Len(items)
<1>1. OtherPositions(items, tx) \subseteq DOMAIN items
  BY DEF OtherPositions
<1>2. Without(items, tx) = KeepAt(items, OtherPositions(items, tx))
  BY DEF Without, OtherPositions
<1> QED
  BY <1>1, <1>2, KeptTyped

\* What is neither past its term nor of the payment that is forgotten is
\* still in the queue, at the rank it has among those.
LEMMA LiveKept ==
  ASSUME QueueRight, NEW i \in LivePositions
  PROVE  /\ Rank(LivePositions, i) \in DOMAIN LiveQueue
         /\ LiveQueue[Rank(LivePositions, i)] = queue[i]
<1>1. LivePositions \subseteq 1 .. Len(queue) /\ Len(queue) \in Nat
  BY DEF LivePositions, QueueRight
<1>2. Positions(LivePositions)
  BY <1>1, PositionsOf
<1>3. LiveQueue = KeepAt(queue, LivePositions)
  BY DEF LiveQueue, LivePositions
<1> QED
  BY <1>2, <1>3, KeptAt, KeptLength

LEMMA WithoutKept ==
  ASSUME NEW S, NEW items \in Seq(S), NEW tx, NEW i \in OtherPositions(items, tx)
  PROVE  /\ Rank(OtherPositions(items, tx), i) \in DOMAIN Without(items, tx)
         /\ Without(items, tx)[Rank(OtherPositions(items, tx), i)] = items[i]
<1>1. OtherPositions(items, tx) \subseteq 1 .. Len(items) /\ Len(items) \in Nat
  BY DEF OtherPositions
<1>2. Positions(OtherPositions(items, tx))
  BY <1>1, PositionsOf
<1>3. Without(items, tx) = KeepAt(items, OtherPositions(items, tx))
  BY DEF Without, OtherPositions
<1> QED
  BY <1>2, <1>3, KeptAt, KeptLength

\* rememberCompletion keeps the limit, and the completion it is given last.
LEMMA RememberTyped ==
  ASSUME NEW S, NEW items \in Seq(S), NEW item \in S
  PROVE  /\ Remember(items, item) \in Seq(S)
         /\ Len(Remember(items, item)) <= MaxPending
         /\ \E j \in DOMAIN Remember(items, item) :
              Remember(items, item)[j] = item
<1> DEFINE rest == Without(items, item.tx)
           next == Append(rest, item)
           drop == IF Len(next) > MaxPending THEN Len(next) - MaxPending ELSE 0
<1>1. rest \in Seq(S)
  BY WithoutTyped
<1> HIDE DEF rest
<1>2. /\ next \in Seq(S) /\ Len(next) = Len(rest) + 1
      /\ Len(rest) \in Nat /\ next[Len(next)] = item
  BY <1>1
<1> HIDE DEF next
<1>3. MaxPending \in Nat \ {0}
  BY PayLinkAssumption
<1>4. drop \in Nat /\ drop < Len(next) /\ Len(next) - drop <= MaxPending
  BY <1>2, <1>3
<1> HIDE DEF drop
<1>5. Remember(items, item) = SubSeq(next, drop + 1, Len(next))
  BY DEF Remember, rest, next, drop
<1>6. /\ SubSeq(next, drop + 1, Len(next)) \in Seq(S)
      /\ Len(SubSeq(next, drop + 1, Len(next))) = Len(next) - drop
      /\ SubSeq(next, drop + 1, Len(next))[Len(next) - drop] = next[Len(next)]
  BY <1>2, <1>4
<1>7. Len(next) - drop \in DOMAIN SubSeq(next, drop + 1, Len(next))
  BY <1>2, <1>4, <1>6
<1> QED
  BY <1>2, <1>4, <1>5, <1>6, <1>7

\* A step of the browser's queue: completions it held, or right ones.
LEMMA QueueKept ==
  ASSUME StoreInv, RowsMove, queue' \in Seq(RightCompletions),
         Len(queue') <= MaxPending
  PROVE  QueueRight'
<1>1. RightCompletions \subseteq RightCompletions'
  BY RightCompletionsKept
<1>2. queue' \in Seq(RightCompletions')
  BY <1>1
<1> QED
  BY <1>2 DEF QueueRight

-----------------------------------------------------------------------------
(* The payer's side takes steps of the store, or leaves it alone *)

LEMMA PayStepsStore ==
  ASSUME PayInv, [PayNext]_payVars
  PROVE  [StoreNext]_allVars
<1>1. ASSUME NEW w \in Workers, PostCompletion(w), UNCHANGED now
      PROVE  StoreNext
  <2>1. PICK i \in DOMAIN LiveQueue :
          StartSettlement(w, LiveQueue[i].tx, LiveQueue[i].request,
                          LiveQueue[i].link)
    BY <1>1 DEF PostCompletion
  <2>2. PICK item : item = LiveQueue[i]
    OBVIOUS
  <2>3. item \in RightCompletions
    BY <2>2, LiveTyped DEF PayInv
  <2>4. /\ item.tx \in Transactions /\ item.request = Pays[item.tx]
        /\ item.link \in LinkIds \cup {None}
        /\ item.link # None => \/ links[item.link].request = Pays[item.tx]
                               \/ links[item.link].state = "removed"
    BY <2>3 DEF RightCompletions, Completion, RowFor
  <2>5. StartSettlement(w, item.tx, Pays[item.tx], item.link)
    BY <2>1, <2>2, <2>4
  <2>6. ReportStep
    BY <2>4, <2>5 DEF ReportStep
  <2> QED
    BY <1>1, <2>6 DEF StoreNext
<1>2. ASSUME NEW w \in Workers, CompletionRecorded(w) \/ CompletionRefused(w),
             UNCHANGED now
      PROVE  StoreNext
  <2>1. AnswerRecorded(w) \/ AnswerRefused(w)
    BY <1>2 DEF CompletionRecorded, CompletionRefused
  <2>2. ReportStep
    BY <2>1 DEF ReportStep
  <2> QED
    BY <1>2, <2>2 DEF StoreNext
<1>3. CASE CompletionStep /\ UNCHANGED now
  BY <1>1, <1>2, <1>3 DEF CompletionStep
<1>4. CASE CheckoutStep /\ UNCHANGED now
  <2>1. UNCHANGED storeVars
    BY <1>4, Zenon DEF CheckoutStep, OpenTab, CloseTab, StartPoll, ReadCancelled,
       ReadPaid, ShowStatus, StatusUnavailable, Pay, Confirm
  <2> QED
    BY <1>4, <2>1 DEF allVars
<1>5. CASE ClockTick /\ UNCHANGED <<storeVars, browserVars>>
  BY <1>5 DEF StoreNext
<1>6. CASE StoreStep /\ UNCHANGED <<now, browserVars>>
  BY <1>6 DEF StoreNext
<1>7. CASE UNCHANGED payVars
  BY <1>7 DEF payVars, allVars
<1> QED
  BY <1>3, <1>4, <1>5, <1>6, <1>7 DEF PayNext

-----------------------------------------------------------------------------
(* An answer 201 is of a payment in the history *)

\* saveCompletedPayment is the only step after which a handler answers 201.
Answering(v) ==
  At(v, "settle", "answer")' =>
    \/ jobs'[v] = jobs[v]
    \/ history'[jobs'[v].tx] # None

LEMMA OthersAnswering ==
  ASSUME StoreTypes, NEW w \in Workers, NEW job,
         jobs' = [jobs EXCEPT ![w] = job],
         job.kind = "settle" /\ job.stage = "answer" => history'[job.tx] # None
  PROVE  \A v \in Workers : Answering(v)
BY DEF StoreTypes, StoreTypeOK, Answering, At

LEMMA ContinueAnswering ==
  ASSUME StoreTypes, NEW w \in Workers, NEW stage, stage # "answer",
         Continue(w, stage)
  PROVE  \A v \in Workers : Answering(v)
<1>1. jobs[w] \in Job
  BY DEF StoreTypes, StoreTypeOK
<1>2. PICK job : job = [jobs[w] EXCEPT !.stage = stage]
  OBVIOUS
<1>3. job.stage = stage
  BY <1>1, <1>2 DEF Job
<1>4. jobs' = [jobs EXCEPT ![w] = job]
  BY <1>2 DEF Continue
<1> QED
  BY <1>3, <1>4, OthersAnswering

LEMMA FinishAnswering ==
  ASSUME StoreTypes, NEW w \in Workers, Finish(w)
  PROVE  \A v \in Workers : Answering(v)
BY OthersAnswering DEF Finish, Idle

LEMMA StartAnswering ==
  ASSUME StoreTypes, NEW w \in Workers, NEW job, Start(w, job),
         job.stage # "answer"
  PROVE  \A v \in Workers : Answering(v)
BY OthersAnswering DEF Start

LEMMA SelectAnswering ==
  ASSUME StoreInv, NEW w \in Workers, SettleSelect(w)
  PROVE  \A v \in Workers : Answering(v)
<1> DEFINE rows == IF jobs[w].link = None THEN RowsOf(jobs[w].request)
                   ELSE {l \in {jobs[w].link} : Stored(l)}
<1>1. StoreTypes /\ jobs[w] \in Job
  BY StoreStepTypes DEF StoreInv
<1>2. CASE Continue(w, "notFound") \/ Continue(w, "save")
  BY <1>1, <1>2, ContinueAnswering
<1>3. ASSUME NEW l \in rows, Refusal(w, l) # "none", Continue(w, Refusal(w, l))
      PROVE  \A v \in Workers : Answering(v)
  <2>1. Refusal(w, l) # "answer"
    BY <1>3, RefusalTypes DEF Refusals
  <2> QED
    BY <1>1, <1>3, <2>1, ContinueAnswering
<1>4. ASSUME NEW l \in rows,
             jobs' = [jobs EXCEPT ![w].stage = "update", ![w].link = l]
      PROVE  \A v \in Workers : Answering(v)
  <2>1. PICK job : job = [jobs[w] EXCEPT !.stage = "update", !.link = l]
    OBVIOUS
  <2>2. job.stage # "answer"
    BY <1>1, <2>1 DEF Job
  <2>3. jobs' = [jobs EXCEPT ![w] = job]
    BY <1>1, <1>4, <2>1, StoreStepTypes DEF Job
  <2> QED
    BY <1>1, <2>2, <2>3, OthersAnswering
<1> QED
  BY <1>2, <1>3, <1>4, Zenon DEF SettleSelect

LEMMA SaveAnswering ==
  ASSUME StoreInv, NEW w \in Workers, SaveCompletedPayment(w)
  PROVE  \A v \in Workers : Answering(v)
<1>1. PICK job : job = [jobs[w] EXCEPT !.stage = "answer"]
  OBVIOUS
<1>2. /\ jobs[w].tx \in Transactions /\ jobs[w].request \in Requests
      /\ job.tx = jobs[w].tx
  BY <1>1, StoreStepTypes DEF SaveCompletedPayment, At, Shaped, Job
<1>3. history'[job.tx] # None
  BY <1>2, StoreAssumption
  DEF SaveCompletedPayment, StoreInv, StoreTypes, StoreTypeOK
<1>4. jobs' = [jobs EXCEPT ![w] = job]
  BY <1>1 DEF SaveCompletedPayment, Continue
<1> QED
  BY <1>3, <1>4, OthersAnswering DEF StoreInv

LEMMA StepAnswering ==
  ASSUME StoreInv, [StoreNext]_allVars
  PROVE  \A v \in Workers : Answering(v)
<1>1. StoreTypes
  BY DEF StoreInv
<1>2. CASE UNCHANGED jobs
  BY <1>2 DEF Answering
<1>3. CASE CreatorStep
  <2>1. PICK w \in Workers : \E job : Start(w, job) /\ job.stage # "answer"
    <3>1. PICK w \in Workers :
            \/ \E r \in Requests : CreateStoredPayLink(w, r) \/ CancelRoute(w, r)
            \/ \E l \in LinkIds : RevokeStoredPayLink(w, l)
      BY <1>3 DEF CreatorStep
    <3>2. ASSUME NEW r \in Requests, CreateStoredPayLink(w, r)
          PROVE  \E job : Start(w, job) /\ job.stage # "answer"
      <4>1. PICK job : job = [Idle EXCEPT !.kind = "create", !.stage = "insert",
                              !.request = r]
        OBVIOUS
      <4>2. Start(w, job)
        BY <3>2, <4>1 DEF CreateStoredPayLink
      <4>3. job.stage # "answer"
        BY <4>1 DEF Idle
      <4> QED
        BY <4>2, <4>3
    <3>3. ASSUME NEW r \in Requests, CancelRoute(w, r)
          PROVE  \E job : Start(w, job) /\ job.stage # "answer"
      <4>1. PICK job : job = [Idle EXCEPT !.kind = "cancel", !.stage = "record",
                              !.request = r]
        OBVIOUS
      <4>2. Start(w, job)
        BY <3>3, <4>1 DEF CancelRoute
      <4>3. job.stage # "answer"
        BY <4>1 DEF Idle
      <4> QED
        BY <4>2, <4>3
    <3>4. ASSUME NEW l \in LinkIds, RevokeStoredPayLink(w, l)
          PROVE  \E job : Start(w, job) /\ job.stage # "answer"
      <4>1. PICK job : job = [Idle EXCEPT !.kind = "revoke", !.stage = "revoke",
                              !.link = l]
        OBVIOUS
      <4>2. Start(w, job)
        BY <3>4, <4>1 DEF RevokeStoredPayLink
      <4>3. job.stage # "answer"
        BY <4>1 DEF Idle
      <4> QED
        BY <4>2, <4>3
    <3> QED
      BY <3>1, <3>2, <3>3, <3>4
  <2> QED
    BY <1>1, <2>1, StartAnswering
<1>4. ASSUME NEW w \in Workers, HandlerStep(w)
      PROVE  \A v \in Workers : Answering(v)
  <2>1. CASE InsertRow(w)
    <3>1. Finish(w)
      BY <2>1, Zenon DEF InsertRow
    <3> QED
      BY <1>1, <3>1, FinishAnswering
  <2>2. CASE RevokeRow(w) \/ RevokeRows(w) \/ Fail(w)
    BY <1>1, <2>2, FinishAnswering DEF RevokeRow, RevokeRows, Fail
  <2>3. CASE RecordCancellation(w)
    BY <1>1, <2>3, ContinueAnswering DEF RecordCancellation
  <2>4. CASE SettleSelect(w)
    BY <2>4, SelectAnswering
  <2>5. CASE SettleUpdate(w)
    BY <1>1, <2>5, ContinueAnswering DEF SettleUpdate
  <2>6. CASE SettleRaced(w)
    BY <1>1, <2>6, ContinueAnswering DEF SettleRaced
  <2>7. CASE SaveCompletedPayment(w)
    BY <2>7, SaveAnswering
  <2> QED
    BY <1>4, <2>1, <2>2, <2>3, <2>4, <2>5, <2>6, <2>7 DEF HandlerStep
<1>5. CASE ReportStep
  <2>1. PICK w \in Workers :
          \/ \E tx \in Transactions, l \in LinkIds \cup {None} :
               StartSettlement(w, tx, Pays[tx], l)
          \/ AnswerRecorded(w)
          \/ AnswerRefused(w)
    BY <1>5 DEF ReportStep
  <2>2. CASE AnswerRecorded(w) \/ AnswerRefused(w)
    BY <1>1, <2>2, FinishAnswering DEF AnswerRecorded, AnswerRefused
  <2>3. ASSUME NEW tx \in Transactions, NEW l \in LinkIds \cup {None},
               StartSettlement(w, tx, Pays[tx], l)
        PROVE  \A v \in Workers : Answering(v)
    BY <1>1, <2>3, StartAnswering DEF StartSettlement
  <2> QED
    BY <2>1, <2>2, <2>3
<1> QED
  BY <1>2, <1>3, <1>4, <1>5 DEF StoreNext, StoreStep, allVars, storeVars

\* What the history holds of a payment it holds for good.
LEMMA HistoryGrows ==
  ASSUME StoreInv, [StoreNext]_allVars, NEW tx \in Transactions,
         history[tx] # None
  PROVE  history'[tx] # None
<1>1. HistoryMoves
  BY NextOK
<1>2. Pays[tx] # None
  BY StoreAssumption
<1> QED
  BY <1>1, <1>2 DEF HistoryMoves

LEMMA AnswersKept ==
  ASSUME StoreInv, AnswersRecorded, [StoreNext]_allVars
  PROVE  AnswersRecorded'
<1> SUFFICES ASSUME NEW v \in Workers, At(v, "settle", "answer")'
             PROVE  history'[jobs'[v].tx] # None
  BY DEF AnswersRecorded
<1>1. CASE jobs'[v] = jobs[v]
  <2>1. At(v, "settle", "answer") /\ history[jobs[v].tx] # None
    BY <1>1 DEF At, AnswersRecorded
  <2>2. jobs[v].tx \in Transactions
    BY <2>1, StoreStepTypes DEF At, Shaped
  <2> QED
    BY <1>1, <2>1, <2>2, HistoryGrows
<1>2. CASE jobs'[v] # jobs[v]
  BY <1>2, StepAnswering DEF Answering
<1> QED
  BY <1>1, <1>2

-----------------------------------------------------------------------------
(* What the browser holds stays about the request it pays *)

LEMMA TabForKept ==
  ASSUME StoreInv, RowsMove, NEW old \in Tab, TabFor(old), NEW tab,
         tab.request = old.request, tab.link = old.link, tab.tx = old.tx
  PROVE  TabFor(tab)'
<1>1. old.request # None => RowFor(old.link, old.request)'
  BY RowForKept DEF Tab, TabFor
<1> QED
  BY <1>1 DEF TabFor, RowFor

LEMMA TabsStay ==
  ASSUME PayInv, RowsMove,
         \A c \in Tabs : /\ tabs'[c].request = tabs[c].request
                         /\ tabs'[c].link = tabs[c].link
                         /\ tabs'[c].tx = tabs[c].tx
  PROVE  TabsRight'
<1> SUFFICES ASSUME NEW c \in Tabs PROVE TabFor(tabs[c])'
  BY DEF TabsRight
<1>1. tabs[c] \in Tab /\ TabFor(tabs[c])
  BY DEF PayInv, CheckoutInv, CheckoutTypes, TabsRight
<1>2. PICK old, tab : old = tabs[c] /\ tab = tabs'[c]
  OBVIOUS
<1>3. TabFor(tab)'
  BY <1>1, <1>2, TabForKept DEF PayInv
<1> QED
  BY <1>2, <1>3 DEF TabFor, RowFor

LEMMA OneTab ==
  ASSUME PayInv, UNCHANGED links, NEW c \in Tabs, NEW tab, TabFor(tab),
         tabs' = [tabs EXCEPT ![c] = tab]
  PROVE  TabsRight'
<1>1. /\ tabs'[c] = tab
      /\ \A d \in Tabs \ {c} : tabs'[d] = tabs[d]
  BY DEF PayInv, CheckoutInv, CheckoutTypes
<1> QED
  BY <1>1 DEF PayInv, TabsRight, TabFor, RowFor

LEMMA CheckoutRight ==
  ASSUME PayInv, CheckoutStep
  PROVE  TabsRight'
<1>1. UNCHANGED storeVars
  BY Zenon DEF CheckoutStep, OpenTab, CloseTab, StartPoll, ReadCancelled,
     ReadPaid, ShowStatus, StatusUnavailable, Pay, Confirm
<1>2. UNCHANGED <<links, settled>> /\ StoreTypes
  BY <1>1 DEF storeVars, tableVars, PayInv, StoreInv
<1>3. RowsMove
  BY <1>2, RowsStay
<1>4. \A c \in Tabs : tabs[c] \in Tab /\ TabFor(tabs[c])
  BY DEF PayInv, CheckoutInv, CheckoutTypes, TabsRight
<1>5. tabs = [c \in Tabs |-> tabs[c]]
  BY DEF PayInv, CheckoutInv, CheckoutTypes
<1>6. PICK c \in Tabs :
        \/ \E r \in Requests, l \in LinkIds \cup {None} : OpenTab(c, r, l)
        \/ CloseTab(c)
        \/ \E p \in Polls :
             \/ StartPoll(c, p) \/ ReadCancelled(c, p) \/ ReadPaid(c, p)
             \/ ShowStatus(c, p) \/ StatusUnavailable(c, p)
        \/ Pay(c)
        \/ Confirm(c)
  BY Zenon DEF CheckoutStep
<1>7. ASSUME NEW r \in Requests, NEW l \in LinkIds \cup {None}, OpenTab(c, r, l)
      PROVE  TabsRight'
  <2>1. PICK known : known = (r \in cancellations)
    OBVIOUS
  <2>2. PICK tab : tab = [ClosedTab EXCEPT !.request = r, !.link = l,
                                           !.openedCancelled = known]
    OBVIOUS
  <2>3. tab.request = r /\ tab.link = l /\ tab.tx = None
    BY <2>2 DEF ClosedTab
  <2>4. l # None => l \in LinkIds /\ links[l].request = r
    BY <1>7 DEF OpenTab
  <2>5. TabFor(tab)
    BY <2>3, <2>4 DEF TabFor, RowFor
  <2>6. tabs' = [tabs EXCEPT ![c] = tab]
    BY <1>7, <2>1, <2>2 DEF OpenTab
  <2> QED
    BY <1>2, <2>5, <2>6, OneTab
<1>8. CASE CloseTab(c)
  <2>1. PICK tab : tab = ClosedTab
    OBVIOUS
  <2>2. TabFor(tab)
    BY <2>1 DEF TabFor, ClosedTab
  <2> QED
    BY <1>2, <1>8, <2>1, <2>2, OneTab DEF CloseTab
<1>9. ASSUME NEW p \in Polls,
             StartPoll(c, p) \/ ReadCancelled(c, p) \/ ReadPaid(c, p)
      PROVE  TabsRight'
  BY <1>3, <1>9, TabsStay DEF StartPoll, ReadCancelled, ReadPaid
<1>10. ASSUME NEW p \in Polls, ShowStatus(c, p) \/ StatusUnavailable(c, p)
       PROVE  TabsRight'
  <2>1. PICK view : tabs' = [tabs EXCEPT ![c].view = view]
    BY <1>10 DEF ShowStatus, StatusUnavailable
  <2>2. \A d \in Tabs : /\ tabs'[d].request = tabs[d].request
                        /\ tabs'[d].link = tabs[d].link
                        /\ tabs'[d].tx = tabs[d].tx
    BY <1>4, <1>5, <2>1 DEF Tab
  <2> QED
    BY <1>3, <2>2, TabsStay
<1>11. CASE Pay(c)
  <2>1. PICK tx \in Transactions : /\ Pays[tx] = tabs[c].request
                                   /\ tabs' = [tabs EXCEPT ![c].tx = tx]
    BY <1>11 DEF Pay
  <2>2. PICK tab : tab = [tabs[c] EXCEPT !.tx = tx]
    OBVIOUS
  <2>3. tab.request = tabs[c].request /\ tab.link = tabs[c].link /\ tab.tx = tx
    BY <1>4, <2>2 DEF Tab
  <2>4. TabFor(tab)
    BY <1>4, <2>1, <2>3 DEF TabFor
  <2>5. tabs' = [tabs EXCEPT ![c] = tab]
    BY <1>5, <2>1, <2>2
  <2> QED
    BY <1>2, <2>4, <2>5, OneTab
<1>12. CASE Confirm(c)
  <2>1. tabs' = [tabs EXCEPT ![c].confirmed = TRUE]
    BY <1>12 DEF Confirm
  <2>2. \A d \in Tabs : /\ tabs'[d].request = tabs[d].request
                        /\ tabs'[d].link = tabs[d].link
                        /\ tabs'[d].tx = tabs[d].tx
    BY <1>4, <1>5, <2>1 DEF Tab
  <2> QED
    BY <1>3, <2>2, TabsStay
<1> QED
  BY <1>6, <1>7, <1>8, <1>9, <1>10, <1>11, <1>12

\* The completion that a confirmed payment is remembered by.
LEMMA ConfirmRight ==
  ASSUME PayInv, NEW c \in Tabs, Confirm(c)
  PROVE  \E item \in RightCompletions :
           queue' = Remember(LiveQueue, item)
<1>1. PICK item : item = [tx |-> tabs[c].tx, request |-> tabs[c].request,
                          link |-> tabs[c].link, queuedAt |-> now]
  OBVIOUS
<1>2. tabs[c] \in Tab /\ now \in Nat /\ tabs[c].tx # None
  BY DEF Confirm, PayInv, CheckoutInv, CheckoutTypes, StoreInv, StoreTypes
<1>3. tabs[c].tx \in Transactions /\ Pays[tabs[c].tx] = tabs[c].request
  BY <1>2 DEF Tab, PayInv, TabsRight, TabFor
<1>4. tabs[c].request \in Requests /\ tabs[c].request # None
  BY <1>3, StoreAssumption
<1>5. RowFor(tabs[c].link, tabs[c].request)
  BY <1>4 DEF PayInv, TabsRight, TabFor
<1>6. /\ item.tx = tabs[c].tx /\ item.request = tabs[c].request
      /\ item.link = tabs[c].link /\ item \in Completion
  BY <1>1, <1>2, <1>3, <1>4 DEF Completion, Tab
<1>7. item \in RightCompletions
  BY <1>3, <1>5, <1>6 DEF RightCompletions
<1>8. queue' = Remember(LiveQueue, item)
  BY <1>1 DEF Confirm
<1> QED
  BY <1>7, <1>8

\* A step of the queue: nothing, forgetting, or remembering one more.
QueueStep ==
  \/ UNCHANGED queue
  \/ \E w \in Workers :
       CompletionRecorded(w) /\ queue' = Without(LiveQueue, jobs[w].tx)
  \/ \E item \in RightCompletions : queue' = Remember(LiveQueue, item)

LEMMA PayStepsQueue ==
  ASSUME PayInv, [PayNext]_payVars
  PROVE  QueueStep
<1>1. CASE CompletionStep
  BY <1>1 DEF CompletionStep, PostCompletion, CompletionRecorded,
     CompletionRefused, browserVars, QueueStep
<1>2. CASE CheckoutStep
  <2>1. PICK c \in Tabs : UNCHANGED queue \/ Confirm(c)
    BY <1>2, Zenon DEF CheckoutStep, OpenTab, CloseTab, StartPoll,
       ReadCancelled, ReadPaid, ShowStatus, StatusUnavailable, Pay
  <2> QED
    BY <2>1, ConfirmRight DEF QueueStep
<1>3. CASE UNCHANGED browserVars \/ UNCHANGED payVars
  BY <1>3 DEF browserVars, payVars, QueueStep
<1> QED
  BY <1>1, <1>2, <1>3 DEF PayNext

LEMMA QueueRightKept ==
  ASSUME PayInv, RowsMove, QueueStep
  PROVE  QueueRight'
<1>1. QueueRight /\ StoreInv /\ Len(queue) \in Nat /\ MaxPending \in Nat
  BY PayLinkAssumption DEF PayInv, QueueRight
<1>2. /\ LiveQueue \in Seq(RightCompletions)
      /\ Len(LiveQueue) <= Len(queue) /\ Len(LiveQueue) \in Nat
  BY <1>1, LiveTyped
<1>3. CASE UNCHANGED queue
  BY <1>1, <1>3, QueueKept DEF QueueRight
<1>4. ASSUME NEW tx, queue' = Without(LiveQueue, tx)
      PROVE  QueueRight'
  <2>1. /\ Without(LiveQueue, tx) \in Seq(RightCompletions)
        /\ Len(Without(LiveQueue, tx)) <= Len(LiveQueue)
    BY <1>2, WithoutTyped
  <2>2. Len(Without(LiveQueue, tx)) \in Nat
    BY <2>1
  <2>3. Len(queue') <= MaxPending
    BY <1>1, <1>2, <1>4, <2>1, <2>2 DEF QueueRight
  <2> QED
    BY <1>1, <1>4, <2>1, <2>3, QueueKept
<1>5. ASSUME NEW item \in RightCompletions, queue' = Remember(LiveQueue, item)
      PROVE  QueueRight'
  <2>1. /\ Remember(LiveQueue, item) \in Seq(RightCompletions)
        /\ Len(Remember(LiveQueue, item)) <= MaxPending
    BY <1>2, RememberTyped
  <2> QED
    BY <1>1, <1>5, <2>1, QueueKept
<1> QED
  BY <1>3, <1>4, <1>5 DEF QueueStep

LEMMA TabsRightKept ==
  ASSUME PayInv, RowsMove, [PayNext]_payVars
  PROVE  TabsRight'
<1>1. CASE CheckoutStep
  BY <1>1, CheckoutRight
<1>2. CASE UNCHANGED tabs
  BY <1>2, TabsStay
<1>3. CASE CompletionStep
  <2>1. ASSUME NEW w \in Workers, CompletionRecorded(w), NEW c \in Tabs
        PROVE  /\ tabs'[c].request = tabs[c].request
               /\ tabs'[c].link = tabs[c].link
               /\ tabs'[c].tx = tabs[c].tx
    <3>1. tabs[c] \in Tab
      BY DEF PayInv, CheckoutInv, CheckoutTypes
    <3>2. PICK paid : paid = [tabs[c] EXCEPT !.view = "paid"]
      OBVIOUS
    <3>3. /\ paid.request = tabs[c].request /\ paid.link = tabs[c].link
          /\ paid.tx = tabs[c].tx
      BY <3>1, <3>2 DEF Tab
    <3>4. tabs'[c] \in {tabs[c], paid}
      BY <2>1, <3>2 DEF CompletionRecorded
    <3> QED
      BY <3>3, <3>4
  <2>2. ASSUME NEW w \in Workers, CompletionRecorded(w)
        PROVE  TabsRight'
    BY <2>1, <2>2, TabsStay
  <2> QED
    BY <1>2, <1>3, <2>2
    DEF CompletionStep, PostCompletion, CompletionRefused, browserVars
<1> QED
  BY <1>1, <1>2, <1>3 DEF PayNext, payVars, browserVars

LEMMA PayInitInv == PayInit => PayInv
<1> SUFFICES ASSUME PayInit PROVE PayInv
  OBVIOUS
<1>1. StoreInv /\ HistoryIsSettled
  BY InitInv DEF PayInit
<1>2. TabsRight
  BY DEF PayInit, TabsRight, TabFor, ClosedTab
<1>3. QueueRight
  BY PayLinkAssumption DEF PayInit, QueueRight
<1>4. AnswersRecorded
  BY DEF PayInit, StoreInit, AnswersRecorded, At, Idle
<1> QED
  BY <1>1, <1>2, <1>3, <1>4, CheckoutInitInv DEF PayInv

LEMMA PayNextInv ==
  ASSUME PayInv, [PayNext]_payVars
  PROVE  PayInv'
<1>1. StoreInv /\ HistoryIsSettled /\ CheckoutInv /\ AnswersRecorded
  BY DEF PayInv
<1>2. [StoreNext]_allVars
  BY PayStepsStore
<1>3. StoreInv' /\ HistoryIsSettled' /\ AnswersRecorded'
  BY <1>1, <1>2, NextInv, HistoryKept, AnswersKept
<1>4. RowsMove
  BY <1>1, <1>2, NextOK DEF StepOK
<1>5. QueueRight'
  BY <1>4, PayStepsQueue, QueueRightKept
<1>6. TabsRight'
  BY <1>4, TabsRightKept
<1> QED
  BY <1>1, <1>3, <1>5, <1>6, CheckoutNextInv DEF PayInv

LEMMA PayInvariant == PaySpec => []PayInv
BY PayInitInv, PayNextInv, PTL DEF PaySpec

\* Every table, every handler and every part of the browser's state keeps
\* values of its type, and rememberCompletion never lets the queue grow past
\* its limit.
THEOREM PayLinksTyped == PaySpec => []PayLinksTypeOK
<1>1. PayInv => PayLinksTypeOK
  <2> SUFFICES ASSUME PayInv PROVE PayLinksTypeOK
    OBVIOUS
  <2>1. QueueRight
    BY DEF PayInv
  <2>2. \A i \in DOMAIN queue : queue[i] \in Completion
    BY <2>1 DEF QueueRight, RightCompletions
  <2> QED
    BY <2>1, <2>2 DEF PayInv, StoreInv, StoreTypes, CheckoutInv, CheckoutTypes,
       QueueRight, PayLinksTypeOK
<1> QED
  BY <1>1, PayInvariant, PTL

\* The payer's side leaves the store alone or takes one of its steps: the
\* checkout, its status requests and its queue only ever report payments of
\* the request they name and of a row of it, as the store expects of them.
THEOREM CheckoutImplementsStore == PaySpec => StoreSpec
<1>1. PayInit => StoreInit
  BY DEF PayInit
<1>2. PayInv /\ [PayNext]_payVars => [StoreNext]_allVars
  BY PayStepsStore
<1> QED
  BY <1>1, <1>2, PayInvariant, PTL DEF PaySpec, StoreSpec, allVars

-----------------------------------------------------------------------------
(* How a completion leaves the queue *)

\* What is forgotten with a recorded payment is of that payment, or past its
\* term.
LEMMA ForgetsRecorded ==
  ASSUME PayInv, NEW tx, queue' = Without(LiveQueue, tx),
         NEW i \in DOMAIN queue, queue[i].tx # tx,
         now - queue[i].queuedAt <= RetryTtl
  PROVE  \E j \in DOMAIN queue' : queue'[j] = queue[i]
<1> DEFINE k == Rank(LivePositions, i)
<1>1. QueueRight
  BY DEF PayInv
<1>2. i \in LivePositions
  BY DEF LivePositions
<1>3. k \in DOMAIN LiveQueue /\ LiveQueue[k] = queue[i]
  BY <1>1, <1>2, LiveKept
<1> HIDE DEF k
<1>4. k \in OtherPositions(LiveQueue, tx)
  BY <1>3 DEF OtherPositions
<1>5. LiveQueue \in Seq(RightCompletions)
  BY <1>1, LiveTyped
<1>6. \E j \in DOMAIN Without(LiveQueue, tx) :
        Without(LiveQueue, tx)[j] = LiveQueue[k]
  BY <1>4, <1>5, WithoutKept
<1> QED
  BY <1>3, <1>6

\* Only a full queue drops something when one more is remembered: its oldest.
LEMMA RememberDrops ==
  ASSUME PayInv, NEW item \in RightCompletions,
         queue' = Remember(LiveQueue, item),
         NEW i \in DOMAIN queue, queue[i].tx # item.tx,
         now - queue[i].queuedAt <= RetryTtl
  PROVE  \/ \E j \in DOMAIN queue' : queue'[j] = queue[i]
         \/ i = 1 /\ Len(queue') = MaxPending
<1> DEFINE live == LivePositions
           k == Rank(live, i)
           others == OtherPositions(LiveQueue, item.tx)
           m == Rank(others, k)
           rest == Without(LiveQueue, item.tx)
           next == Append(rest, item)
           drop == IF Len(next) > MaxPending THEN Len(next) - MaxPending ELSE 0
<1>1. /\ QueueRight /\ queue \in Seq(RightCompletions)
      /\ Len(queue) \in Nat /\ Len(queue) <= MaxPending
      /\ MaxPending \in Nat \ {0} /\ i \in 1 .. Len(queue)
  BY PayLinkAssumption DEF PayInv, QueueRight
<1>2. i \in live /\ live \subseteq 1 .. Len(queue)
  BY <1>1 DEF LivePositions
<1>3. LiveQueue \in Seq(RightCompletions) /\ Len(LiveQueue) \in Nat
  BY <1>1, LiveTyped
<1>4. k \in DOMAIN LiveQueue /\ LiveQueue[k] = queue[i]
  BY <1>1, <1>2, LiveKept
<1>5. LiveQueue = KeepAt(queue, live) /\ rest = KeepAt(LiveQueue, others)
  BY DEF LiveQueue, LivePositions, Without, OtherPositions
<1>6. queue' = SubSeq(next, drop + 1, Len(next))
  BY DEF Remember
<1>7. k \in others /\ others \subseteq 1 .. Len(LiveQueue)
  BY <1>3, <1>4 DEF OtherPositions
<1>8. m \in DOMAIN rest /\ rest[m] = LiveQueue[k]
  BY <1>3, <1>7, WithoutKept
<1>9. /\ Positions(live) /\ Cardinality(live) \in 0 .. Len(queue)
      /\ Positions(others) /\ Cardinality(others) \in 0 .. Len(LiveQueue)
  BY <1>1, <1>2, <1>3, <1>7, PositionsOf
<1>10. /\ Len(LiveQueue) = Cardinality(live)
       /\ Len(rest) = Cardinality(others)
  BY <1>5, <1>9, KeptLength
<1>11. rest \in Seq(RightCompletions)
  BY <1>3, WithoutTyped
<1> HIDE DEF live
<1>12. ASSUME Cardinality(live) = Len(queue) PROVE k = i
  BY <1>1, <1>2, <1>12, AllKept
<1> HIDE DEF k, others
<1>13. ASSUME Cardinality(others) = Len(LiveQueue) PROVE m = k
  BY <1>3, <1>7, <1>13, AllKept
<1> HIDE DEF m, rest
<1>14. /\ next \in Seq(RightCompletions) /\ Len(next) = Len(rest) + 1
       /\ m \in 1 .. Len(rest) /\ next[m] = rest[m]
  BY <1>8, <1>11
<1> HIDE DEF next
<1>15. /\ Len(rest) \in Nat /\ drop \in {0, 1}
       /\ drop = 1 => /\ Len(rest) = MaxPending
                      /\ Cardinality(others) = Len(LiveQueue)
                      /\ Cardinality(live) = Len(queue)
  BY <1>1, <1>3, <1>9, <1>10, <1>11, <1>14
<1> HIDE DEF drop
<1>16. CASE m > drop
  <2>1. /\ m - drop \in 1 .. (Len(next) - drop)
        /\ Len(queue') = Len(next) - drop
        /\ queue'[m - drop] = next[m]
    BY <1>6, <1>14, <1>15, <1>16
  <2> QED
    BY <1>4, <1>6, <1>8, <1>14, <1>15, <2>1
<1>17. CASE ~(m > drop)
  <2>1. drop = 1 /\ m = 1
    BY <1>14, <1>15, <1>17
  <2>2. i = 1
    BY <1>12, <1>13, <1>15, <2>1
  <2>3. Len(queue') = MaxPending
    BY <1>1, <1>6, <1>14, <1>15, <2>1
  <2> QED
    BY <2>2, <2>3
<1> QED
  BY <1>16, <1>17

LEMMA NotLost ==
  ASSUME PayInv, [PayNext]_payVars, NEW i \in DOMAIN queue,
         \A j \in DOMAIN queue' : queue'[j].tx # queue[i].tx
  PROVE  \/ history[queue[i].tx] # None
         \/ now - queue[i].queuedAt > RetryTtl
         \/ i = 1 /\ Len(queue') = MaxPending
<1> SUFFICES ASSUME ~(now - queue[i].queuedAt > RetryTtl)
             PROVE  \/ history[queue[i].tx] # None
                    \/ i = 1 /\ Len(queue') = MaxPending
  OBVIOUS
<1>1. QueueRight /\ queue[i] \in Completion /\ now \in Nat /\ RetryTtl \in Nat
  BY PayLinkAssumption
  DEF PayInv, QueueRight, RightCompletions, StoreInv, StoreTypes
<1>2. now - queue[i].queuedAt <= RetryTtl
  BY <1>1 DEF Completion
<1>3. CASE UNCHANGED queue
  BY <1>3
<1>4. ASSUME NEW w \in Workers, CompletionRecorded(w),
             queue' = Without(LiveQueue, jobs[w].tx)
      PROVE  history[queue[i].tx] # None
  <2>1. queue[i].tx = jobs[w].tx
    BY <1>2, <1>4, ForgetsRecorded
  <2>2. At(w, "settle", "answer")
    BY <1>4 DEF CompletionRecorded, AnswerRecorded
  <2> QED
    BY <2>1, <2>2 DEF PayInv, AnswersRecorded
<1>5. ASSUME NEW item \in RightCompletions, queue' = Remember(LiveQueue, item)
      PROVE  i = 1 /\ Len(queue') = MaxPending
  <2>1. LiveQueue \in Seq(RightCompletions)
    BY <1>1, LiveTyped
  <2>2. \E j \in DOMAIN Remember(LiveQueue, item) :
          Remember(LiveQueue, item)[j] = item
    BY <2>1, RememberTyped
  <2>3. queue[i].tx # item.tx
    BY <1>5, <2>2
  <2> QED
    BY <1>2, <1>5, <2>3, RememberDrops
<1> QED
  BY <1>3, <1>4, <1>5, PayStepsQueue DEF QueueStep

\* A completion leaves the payer's queue only when its payment is in the
\* history, when it is past its term, or as the oldest of a full queue: not
\* when an answer is lost, a handler dies or answers overtake each other.
THEOREM CompletionsNotLost == PaySpec => CompletionNotLost
<1>1. ASSUME PayInv, [PayNext]_payVars
      PROVE  [\A i \in DOMAIN queue :
                LET tx == queue[i].tx IN
                (\A j \in DOMAIN queue' : queue'[j].tx # tx) =>
                  \/ history[tx] # None
                  \/ now - queue[i].queuedAt > RetryTtl
                  \/ i = 1 /\ Len(queue') = MaxPending]_payVars
  BY <1>1, NotLost
<1>2. PayInv /\ [PayNext]_payVars
        => [\A i \in DOMAIN queue :
              LET tx == queue[i].tx IN
              (\A j \in DOMAIN queue' : queue'[j].tx # tx) =>
                \/ history[tx] # None
                \/ now - queue[i].queuedAt > RetryTtl
                \/ i = 1 /\ Len(queue') = MaxPending]_payVars
  BY <1>1
<1> QED
  BY <1>2, PayInvariant, PTL DEF PaySpec, CompletionNotLost
=============================================================================
