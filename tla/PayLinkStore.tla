----------------------------- MODULE PayLinkStore -----------------------------
(***************************************************************************)
(* The server side of Pay Links: the short links that store signed payment *)
(* requests, their cancellation, and the recording of the payment.         *)
(*                                                                         *)
(*   frontend/lib/payLinkStore.ts            rows, cancellations           *)
(*   frontend/app/api/pay-links/...          create, revoke, cancel        *)
(*   frontend/app/api/payment-history/complete/route.ts    settle and save *)
(*                                                                         *)
(* A request handler runs between awaits: each statement it sends to the   *)
(* database is one step, and other handlers run in between.  A handler may *)
(* die, or its answer be lost, after any step.  Signatures, names and the  *)
(* chain's verification of a transaction are left out: a request is one    *)
(* its name's owner signed, and a transaction pays one request.            *)
(***************************************************************************)
EXTENDS Clock, Integers, Sequences, FiniteSets

CONSTANTS
  Requests,        \* signed payment requests
  RequestExpires,  \* each request's signed expiry, 0 for none
  LinkIds,         \* identifiers of short links
  Transactions,    \* payments on chain
  Pays,            \* the request each transaction pays
  Workers,         \* handlers that run at the same time
  Retention,       \* SHORT_PAY_LINK_TTL_SECONDS, in ticks
  None

VARIABLES
  links,          \* the table pay_links
  cancellations,  \* the table pay_link_cancellations
  history,        \* the request recorded with each transaction, or None
  jobs,           \* what each worker is doing
  settled         \* history: the settlements made

tableVars == <<links, cancellations, history, settled>>
storeVars == <<tableVars, jobs>>

ASSUME StoreAssumption ==
  /\ RequestExpires \in [Requests -> Nat]
  /\ Pays \in [Transactions -> Requests]
  /\ Retention \in Nat \ {0}
  /\ None \notin Requests \cup LinkIds \cup Transactions

-----------------------------------------------------------------------------
(* Values *)

\* A row is removed for good: identifiers are random and never come back.
Row == [state : {"unused", "stored", "removed"}, request : Requests \cup {None},
        expiresAt : Nat, revoked : BOOLEAN, paidBy : Transactions \cup {None}]
UnusedRow == [state |-> "unused", request |-> None, expiresAt |-> 0,
              revoked |-> FALSE, paidBy |-> None]
RemovedRow == [UnusedRow EXCEPT !.state = "removed"]

Refusals == {"notFound", "requestExpired", "cancelled", "expired",
             "alreadyPaid"}
Job == [kind : {"idle", "create", "cancel", "revoke", "settle"},
        stage : {"idle", "insert", "record", "revoke", "select", "update",
                 "raced", "save", "answer"} \cup Refusals,
        request : Requests \cup {None}, link : LinkIds \cup {None},
        tx : Transactions \cup {None}, paidAt : Nat]
Idle == [kind |-> "idle", stage |-> "idle", request |-> None, link |-> None,
         tx |-> None, paidAt |-> 0]

Stored(l) == links[l].state = "stored"
RowsOf(r) == {l \in LinkIds : Stored(l) /\ links[l].request = r}

\* validatePaymentRequest, which every encoding and decoding applies.
RequestExpired(r) == RequestExpires[r] # 0 /\ RequestExpires[r] <= now

\* getStoredPayLink: a row may be opened by its short link.
LinkActive(l) ==
  /\ Stored(l)
  /\ links[l].paidBy = None
  /\ ~links[l].revoked
  /\ links[l].expiresAt > now

\* isPaymentRequestPaid
IsPaymentRequestPaid(r) == \E l \in RowsOf(r) : links[l].paidBy # None

-----------------------------------------------------------------------------
(* Handlers *)

Start(w, job) == jobs[w] = Idle /\ jobs' = [jobs EXCEPT ![w] = job]

Continue(w, stage) == jobs' = [jobs EXCEPT ![w].stage = stage]

Finish(w) == jobs' = [jobs EXCEPT ![w] = Idle]

At(w, kind, stage) == jobs[w].kind = kind /\ jobs[w].stage = stage

\* A handler that dies, or whose caller never sees the answer.
Fail(w) ==
  /\ jobs[w] # Idle
  /\ Finish(w)
  /\ UNCHANGED tableVars

\* removeExpiredPayLinks, of paid rows too.
RemoveExpiredPayLinks ==
  links' = [l \in LinkIds |->
    IF Stored(l) /\ links[l].expiresAt < now THEN RemovedRow ELSE links[l]]

\* createStoredPayLink: expired rows are removed, ...
CreateStoredPayLink(w, r) ==
  /\ ~RequestExpired(r)
  /\ Start(w, [Idle EXCEPT !.kind = "create", !.stage = "insert",
                           !.request = r])
  /\ RemoveExpiredPayLinks
  /\ UNCHANGED <<cancellations, history, settled>>

\* ... then the new row.
InsertRow(w) ==
  LET r == jobs[w].request
      expiresAt == IF RequestExpires[r] # 0
                      /\ RequestExpires[r] < now + Retention
                   THEN RequestExpires[r] ELSE now + Retention
  IN
  /\ At(w, "create", "insert")
  /\ \E l \in LinkIds :
       /\ links[l] = UnusedRow
       /\ links' = [links EXCEPT ![l] =
            [UnusedRow EXCEPT !.state = "stored", !.request = r,
                              !.expiresAt = expiresAt]]
  /\ Finish(w)
  /\ UNCHANGED <<cancellations, history, settled>>

\* revokeStoredPayLink, called with the row's own token: read, then write.
RevokeStoredPayLink(w, l) ==
  /\ Stored(l)
  /\ ~links[l].revoked
  /\ Start(w, [Idle EXCEPT !.kind = "revoke", !.stage = "revoke",
                           !.link = l])
  /\ UNCHANGED tableVars

RevokeRow(w) ==
  LET l == jobs[w].link IN
  /\ At(w, "revoke", "revoke")
  /\ links' = IF Stored(l) THEN [links EXCEPT ![l].revoked = TRUE] ELSE links
  /\ Finish(w)
  /\ UNCHANGED <<cancellations, history, settled>>

\* The cancellation route: refused once paid; signatures are verified next,
\* then cancelPaymentRequest records the request and revokes its rows.
CancelRoute(w, r) ==
  /\ ~IsPaymentRequestPaid(r)
  /\ ~RequestExpired(r)
  /\ Start(w, [Idle EXCEPT !.kind = "cancel", !.stage = "record",
                           !.request = r])
  /\ UNCHANGED tableVars

RecordCancellation(w) ==
  /\ At(w, "cancel", "record")
  /\ cancellations' = cancellations \cup {jobs[w].request}
  /\ Continue(w, "revoke")
  /\ UNCHANGED <<links, history, settled>>

RevokeRows(w) ==
  /\ At(w, "cancel", "revoke")
  /\ links' = [l \in LinkIds |->
       IF l \in RowsOf(jobs[w].request)
       THEN [links[l] EXCEPT !.revoked = TRUE] ELSE links[l]]
  /\ Finish(w)
  /\ UNCHANGED <<cancellations, history, settled>>

-----------------------------------------------------------------------------
(* Settlement: the completion route *)

\* A retry of the settling payment itself taken for a second payment.
RefusalOfRetry(w, l) ==
  LET row == links[l] IN
  IF RequestExpired(row.request) THEN "requestExpired"
  ELSE IF row.revoked THEN "cancelled"
  ELSE IF row.expiresAt <= jobs[w].paidAt THEN "expired"
  ELSE IF row.paidBy # None THEN "alreadyPaid"
  ELSE "none"

Refusal(w, l) ==
  LET row == links[l] IN
  IF RequestExpired(row.request) THEN "requestExpired"
  ELSE IF row.revoked THEN "cancelled"
  ELSE IF row.expiresAt <= jobs[w].paidAt THEN "expired"
  ELSE IF row.paidBy \notin {None, jobs[w].tx} THEN "alreadyPaid"
  ELSE "none"

\* The completion route, its transaction verified.
StartSettlement(w, tx, r, l) ==
  /\ Start(w, [kind |-> "settle", stage |-> "select", request |-> r,
               link |-> l, tx |-> tx, paidAt |-> now])
  /\ UNCHANGED tableVars

\* settleStoredPayLink reads the row of the short link or, for a portable
\* link, the first row it finds for the request.
SettleSelect(w) ==
  LET rows == IF jobs[w].link = None THEN RowsOf(jobs[w].request)
              ELSE {l \in {jobs[w].link} : Stored(l)}
  IN
  /\ At(w, "settle", "select")
  /\ \/ rows = {} /\ Continue(w, "notFound")
     \/ \E l \in rows :
          \/ Refusal(w, l) # "none" /\ Continue(w, Refusal(w, l))
          \/ /\ Refusal(w, l) = "none"
             /\ links[l].paidBy = jobs[w].tx
             /\ Continue(w, "save")
          \/ /\ Refusal(w, l) = "none"
             /\ links[l].paidBy = None
             /\ jobs' = [jobs EXCEPT ![w].stage = "update", ![w].link = l]
  /\ UNCHANGED tableVars

PayableRowsIgnoringRevocation(r) == {l \in RowsOf(r) : links[l].paidBy = None}

PayableRowsIgnoringPayment(r) == {l \in RowsOf(r) : ~links[l].revoked}

\* The WHERE clause of the settling UPDATE.
PayableRows(r) ==
  {l \in RowsOf(r) : links[l].paidBy = None /\ ~links[l].revoked}

SettleUpdate(w) ==
  LET rows == PayableRows(jobs[w].request)
      tx == jobs[w].tx
  IN
  /\ At(w, "settle", "update")
  /\ links' = [l \in LinkIds |->
       IF l \in rows THEN [links[l] EXCEPT !.paidBy = tx] ELSE links[l]]
  /\ settled' = IF rows = {} THEN settled
                ELSE settled \cup {<<jobs[w].request, tx>>}
  /\ Continue(w, IF rows = {} THEN "raced" ELSE "save")
  /\ UNCHANGED <<cancellations, history>>

SettleRacedTrusting(w) ==
  /\ At(w, "settle", "raced")
  /\ Continue(w, IF links[jobs[w].link].paidBy # None
                 THEN "save" ELSE "alreadyPaid")
  /\ UNCHANGED tableVars

\* The row read again: another answer for this same payment came first, or
\* another payment or a cancellation did.
SettleRaced(w) ==
  /\ At(w, "settle", "raced")
  /\ Continue(w, IF links[jobs[w].link].paidBy = jobs[w].tx
                 THEN "save" ELSE "alreadyPaid")
  /\ UNCHANGED tableVars

\* saveCompletedPayment: one record per source transaction, the first kept.
SaveCompletedPayment(w) ==
  LET tx == jobs[w].tx IN
  /\ At(w, "settle", "save")
  /\ history' = [history EXCEPT ![tx] =
       IF @ = None THEN jobs[w].request ELSE @]
  /\ Continue(w, "answer")
  /\ UNCHANGED <<links, cancellations, settled>>

\* The answer 201.
AnswerRecorded(w) == At(w, "settle", "answer") /\ Finish(w)
                       /\ UNCHANGED tableVars

AnswerRefused(w) == jobs[w].stage \in Refusals /\ Finish(w)
                      /\ UNCHANGED tableVars

-----------------------------------------------------------------------------
(* The store, every payment free to be reported at any time *)

StoreInit ==
  /\ now = 0
  /\ links = [l \in LinkIds |-> UnusedRow]
  /\ cancellations = {}
  /\ history = [tx \in Transactions |-> None]
  /\ settled = {}
  /\ jobs = [w \in Workers |-> Idle]

CreatorStep ==
  \E w \in Workers :
    \/ \E r \in Requests : CreateStoredPayLink(w, r) \/ CancelRoute(w, r)
    \/ \E l \in LinkIds : RevokeStoredPayLink(w, l)

\* A handler goes on, or dies.
HandlerStep(w) ==
  \/ InsertRow(w)
  \/ RevokeRow(w)
  \/ RecordCancellation(w)
  \/ RevokeRows(w)
  \/ SettleSelect(w)
  \/ SettleUpdate(w)
  \/ SettleRaced(w)
  \/ SaveCompletedPayment(w)
  \/ Fail(w)

StoreStep == CreatorStep \/ \E w \in Workers : HandlerStep(w)

\* A completion names the short link its checkout was opened by, if any; the
\* row may be gone by the time it is reported.
ReportStep ==
  \E w \in Workers :
    \/ \E tx \in Transactions, l \in LinkIds \cup {None} :
         /\ l # None => \/ links[l].request = Pays[tx]
                        \/ links[l].state = "removed"
         /\ StartSettlement(w, tx, Pays[tx], l)
    \/ AnswerRecorded(w)
    \/ AnswerRefused(w)

StoreNext ==
  \/ ClockTick /\ UNCHANGED storeVars
  \/ (StoreStep \/ ReportStep) /\ UNCHANGED now

StoreSpec == StoreInit /\ [][StoreNext]_<<now, storeVars>>

-----------------------------------------------------------------------------
(* Properties *)

\* Every table and every handler holds values of its type.
StoreTypeOK ==
  /\ links \in [LinkIds -> Row]
  /\ cancellations \subseteq Requests
  /\ history \in [Transactions -> Requests \cup {None}]
  /\ settled \subseteq Requests \X Transactions
  /\ jobs \in [Workers -> Job]

\* However completions of two payments race, with each other and with
\* retries, a stored link keeps the payment that settled it first.
SettlementIsFinal ==
  [][\A l \in LinkIds :
       links[l].paidBy # None /\ links'[l].state = "stored"
         => links'[l].paidBy = links[l].paidBy]_<<now, storeVars>>

\* A row revoked or cancelled before it was settled is never settled, even by
\* a completion that read it before.
RevokedNeverSettled ==
  [][\A l \in LinkIds :
       links[l].revoked /\ links[l].paidBy = None
         => links'[l].paidBy = None]_<<now, storeVars>>

\* The history attributes to a request only a payment of that request which
\* settled one of its links.
HistoryIsSettled ==
  \A tx \in Transactions :
    history[tx] # None =>
      Pays[tx] = history[tx] /\ <<history[tx], tx>> \in settled
=============================================================================
