--------------------------- MODULE ArchivePurchases ---------------------------
(***************************************************************************)
(* The purchase of archive access by one wallet:                           *)
(*                                                                         *)
(*   frontend/lib/archiveSubscriptionPurchases.ts     challenges, payments *)
(*   frontend/app/api/archive-subscriptions/route.ts  the handlers         *)
(*   frontend/lib/archiveEntitlements.ts              grants, revocation   *)
(*   frontend/app/archive/page.tsx                    the browser          *)
(*                                                                         *)
(* Each SQL statement is one step, except the one that records a payment   *)
(* and its entitlement: it reads the entitlements when it begins and       *)
(* writes when it ends.  Signatures and treasury are taken as they should  *)
(* be; the price is told apart by the years it buys.                       *)
(***************************************************************************)
EXTENDS Clock, FiniteSets

CONSTANTS
  Challenges,    \* ids of checkout challenges
  PlanYears,     \* the plan each challenge is created for, in ticks
  Transactions,  \* USDC transfers of the wallet to the treasury
  Handlers,      \* requests served at the same time
  None,
  Lifetime,      \* CHALLENGE_MINUTES, in ticks
  Retention,     \* how long expired challenges are kept, in ticks
  Window,        \* the window attempts are counted in, in ticks
  Attempts,      \* attempts allowed in it
  GrantTerms,    \* terms an administrator may grant
  MaxEntitlements \* bound on entitlements

VARIABLES
  sales,         \* subscriptionSalesEnabled of the access policy
  challenges,    \* archive_subscription_challenges
  paid,          \* the chain: years each transfer pays for, 0 before it is made
  payments,      \* archive_subscription_payments: the entitlement of each
  entitlements,  \* history_archive_entitlements
  jobs,          \* the handlers
  bound,         \* history: the payment a challenge was first marked with
  earned,        \* history: when access should end
  overlapped     \* history: has a change fallen into a recording statement?

databaseVars == <<challenges, payments, entitlements>>
archiveVars == <<now, sales, databaseVars, paid, jobs, bound, earned,
                 overlapped>>

ASSUME ArchiveAssumption ==
  /\ PlanYears \in [Challenges -> Nat \ {0}]
  /\ GrantTerms \subseteq Nat \ {0}
  /\ None \notin Challenges \cup Transactions
  /\ Lifetime \in Nat /\ Retention \in Nat /\ Window \in Nat
  /\ Attempts \in Nat /\ MaxEntitlements \in Nat

-----------------------------------------------------------------------------
(* Values *)

Later(s, t) == IF s < t THEN t ELSE s

NoRow == [stored |-> FALSE, createdAt |-> 0, expiresAt |-> 0, usedFor |-> None]

Idle == [stage |-> "idle", challenge |-> None, tx |-> None, used |-> FALSE,
         honoured |-> FALSE, began |-> 0, expiry |-> 0]
Refusals == {"notFound", "expired", "alreadyUsed", "notEnabled",
             "notPaid"}

At(h, stage) == jobs[h].stage = stage
Goto(h, stage) == jobs' = [jobs EXCEPT ![h].stage = stage]
\* What the recording statement read is gone with it.
GotoMark(h) == jobs' = [jobs EXCEPT ![h].stage = "mark", ![h].began = 0,
                                    ![h].expiry = 0]
Rest == UNCHANGED <<now, sales, paid, bound, earned, overlapped>>

\* Entitlements are numbered in the order they are inserted.
NewId == Cardinality(DOMAIN entitlements) + 1
Insert(row) ==
  /\ NewId <= MaxEntitlements
  /\ entitlements' = [id \in 1 .. NewId |->
       IF id = NewId THEN row ELSE entitlements[id]]

\* The latest end of an active entitlement of the rows.
ActiveRows(rows) == {id \in DOMAIN rows : rows[id].active}
LatestEnd(rows) ==
  CHOOSE e \in {0} \cup {rows[id].expiresAt : id \in ActiveRows(rows)} :
    \A id \in ActiveRows(rows) : rows[id].expiresAt <= e

-----------------------------------------------------------------------------
(* POST: createArchivePurchaseChallenge *)

\* The expiry is computed first, then old challenges are removed.
StartCheckout(h, c) ==
  /\ At(h, "idle") /\ sales
  /\ \A g \in Handlers : jobs[g].challenge # c
  /\ bound[c] = None /\ challenges[c] = NoRow
  /\ jobs' = [jobs EXCEPT ![h] = [Idle EXCEPT !.stage = "purge",
                                              !.challenge = c, !.began = now]]
  /\ UNCHANGED databaseVars /\ Rest

PurgeChallenges(h) ==
  /\ At(h, "purge")
  /\ challenges' = [c \in Challenges |->
       IF challenges[c].stored /\ challenges[c].expiresAt + Retention < now
       THEN [challenges[c] EXCEPT !.stored = FALSE] ELSE challenges[c]]
  /\ Goto(h, "count")
  /\ UNCHANGED <<payments, entitlements>> /\ Rest

Recent == {c \in Challenges :
             challenges[c].stored /\ challenges[c].createdAt + Window > now}

CountAttempts(h) ==
  /\ At(h, "count")
  /\ IF Cardinality(Recent) >= Attempts
     THEN jobs' = [jobs EXCEPT ![h] = Idle]
     ELSE Goto(h, "store")
  /\ UNCHANGED databaseVars /\ Rest

StoreChallenge(h) ==
  /\ At(h, "store")
  /\ challenges' = [challenges EXCEPT ![jobs[h].challenge] =
       [stored |-> TRUE, createdAt |-> now,
        expiresAt |-> jobs[h].began + Lifetime, usedFor |-> None]]
  /\ jobs' = [jobs EXCEPT ![h] = Idle]
  /\ UNCHANGED <<payments, entitlements>> /\ Rest

-----------------------------------------------------------------------------
(* The browser *)

\* The transfer for a challenge that was answered; a lost page may lead to
\* another checkout and another transfer.
PayUsdc(c, tx) ==
  /\ challenges[c] # NoRow
  /\ paid[tx] = 0
  /\ paid' = [paid EXCEPT ![tx] = PlanYears[c]]
  /\ UNCHANGED <<now, sales, databaseVars, jobs, bound, earned, overlapped>>

-----------------------------------------------------------------------------
(* PUT, and activateArchivePurchase *)

\* A used challenge is expired too.
RefusalOfUsed(row, tx) ==
  IF ~row.stored THEN "notFound"
  ELSE IF row.expiresAt < now THEN "expired"
  ELSE IF row.usedFor \notin {None, tx} THEN "alreadyUsed"
  ELSE "none"

\* What the route refuses on the challenge's row alone.
Refusal(row, tx) ==
  IF ~row.stored THEN "notFound"
  ELSE IF row.expiresAt < now /\ row.usedFor = None THEN "expired"
  ELSE IF row.usedFor \notin {None, tx} THEN "alreadyUsed"
  ELSE "none"

\* The request, and the read of its challenge.
StartActivation(h, c, tx) ==
  LET row == challenges[c]
      refusal == Refusal(row, tx)
  IN
  /\ At(h, "idle") /\ row # NoRow /\ paid[tx] # 0
  /\ jobs' = [jobs EXCEPT ![h] =
       [Idle EXCEPT !.stage = IF refusal = "none" THEN "verify" ELSE refusal,
                    !.challenge = c, !.tx = tx, !.used = row.usedFor # None,
                    !.honoured = bound[c] = tx]]
  /\ UNCHANGED databaseVars /\ Rest

\* The access policy, then the transfer itself.
Verify(h) ==
  /\ At(h, "verify")
  /\ Goto(h, IF ~sales /\ ~jobs[h].used THEN "notEnabled"
             ELSE IF paid[jobs[h].tx] # PlanYears[jobs[h].challenge]
             THEN "notPaid" ELSE "find")
  /\ UNCHANGED databaseVars /\ Rest

FindPayment(h) ==
  /\ At(h, "find")
  /\ Goto(h, IF payments[jobs[h].tx] # 0 THEN "mark" ELSE "begin")
  /\ UNCHANGED databaseVars /\ Rest

BeginRecording(h) ==
  /\ At(h, "begin")
  /\ jobs' = [jobs EXCEPT ![h].stage = "record", ![h].began = now,
                          ![h].expiry = LatestEnd(entitlements)]
  /\ UNCHANGED databaseVars /\ Rest

\* Is another statement recording a payment at this moment?
Recording(h) == \E g \in Handlers \ {h} : At(g, "record")

NewTermAlone(began, expiry, years) == began + years

\* greatest(now(), current expiry) + the years of the plan
NewTerm(began, expiry, years) == Later(began, expiry) + years

RecordPaymentAgain(h) ==
  LET job == jobs[h]
      years == PlanYears[job.challenge]
  IN
  /\ At(h, "record")
  /\ Insert([active |-> TRUE, source |-> "purchase",
             expiresAt |-> NewTerm(job.began, job.expiry, years)])
  /\ payments' = [payments EXCEPT ![job.tx] = NewId]
  /\ earned' = Later(job.began, earned) + years
  /\ overlapped' = (overlapped \/ Recording(h))
  /\ GotoMark(h)
  /\ UNCHANGED <<now, sales, challenges, paid, bound>>

\* Nothing is inserted when the payment is recorded already.
RecordPayment(h) ==
  LET job == jobs[h]
      years == PlanYears[job.challenge]
  IN
  /\ At(h, "record")
  /\ IF payments[job.tx] # 0
     THEN UNCHANGED <<payments, entitlements, earned, overlapped>>
     ELSE /\ Insert([active |-> TRUE, source |-> "purchase",
                     expiresAt |-> NewTerm(job.began, job.expiry, years)])
          /\ payments' = [payments EXCEPT ![job.tx] = NewId]
          /\ earned' = Later(job.began, earned) + years
          /\ overlapped' = (overlapped \/ Recording(h))
  /\ GotoMark(h)
  /\ UNCHANGED <<now, sales, challenges, paid, bound>>

\* markChallengeUsed; the row may have been removed meanwhile.
MarkChallengeUsed(h) ==
  LET c == jobs[h].challenge IN
  /\ At(h, "mark")
  /\ challenges' = [challenges EXCEPT ![c].usedFor =
       IF @ = None /\ challenges[c].stored THEN jobs[h].tx ELSE @]
  /\ bound' = [bound EXCEPT ![c] = IF @ = None THEN jobs[h].tx ELSE @]
  /\ jobs' = [jobs EXCEPT ![h] = Idle]
  /\ UNCHANGED <<now, sales, payments, entitlements, paid, earned, overlapped>>

\* A handler dies at any step, or has answered a refusal.  Whether the browser
\* learns an answer makes no difference here: it may ask again.
EndHandler(h) ==
  /\ ~At(h, "idle")
  /\ jobs' = [jobs EXCEPT ![h] = Idle]
  /\ UNCHANGED databaseVars /\ Rest

-----------------------------------------------------------------------------
(* The administrator *)

SetSales ==
  /\ sales' = ~sales
  /\ UNCHANGED <<now, databaseVars, paid, jobs, bound, earned, overlapped>>

\* grantWalletArchiveEntitlement
GrantEntitlement(term) ==
  /\ Insert([active |-> TRUE, source |-> "admin", expiresAt |-> now + term])
  /\ earned' = Later(earned, now + term)
  /\ overlapped' = (overlapped \/ \E g \in Handlers : At(g, "record"))
  /\ UNCHANGED <<now, sales, challenges, payments, paid, jobs, bound>>

\* revokeArchiveEntitlement; from here on access ends when what is left ends.
RevokeEntitlement(id) ==
  /\ entitlements[id].active
  /\ entitlements' = [entitlements EXCEPT ![id].active = FALSE]
  /\ earned' = LatestEnd(entitlements')
  /\ overlapped' = (overlapped \/ \E g \in Handlers : At(g, "record"))
  /\ UNCHANGED <<now, sales, challenges, payments, paid, jobs, bound>>

-----------------------------------------------------------------------------
(* The system *)

ArchiveInit ==
  /\ now = 0
  /\ sales = TRUE
  /\ challenges = [c \in Challenges |-> NoRow]
  /\ paid = [tx \in Transactions |-> 0]
  /\ payments = [tx \in Transactions |-> 0]
  /\ entitlements = [id \in {} |-> 0]
  /\ jobs = [h \in Handlers |-> Idle]
  /\ bound = [c \in Challenges |-> None]
  /\ earned = 0
  /\ overlapped = FALSE

ArchiveNext ==
  \/ ClockTick /\ UNCHANGED <<sales, databaseVars, paid, jobs, bound, earned,
                              overlapped>>
  \/ SetSales
  \/ \E term \in GrantTerms : GrantEntitlement(term)
  \/ \E id \in DOMAIN entitlements : RevokeEntitlement(id)
  \/ \E c \in Challenges, tx \in Transactions : PayUsdc(c, tx)
  \/ \E h \in Handlers :
       \/ \E c \in Challenges : StartCheckout(h, c)
       \/ PurgeChallenges(h)
       \/ CountAttempts(h)
       \/ StoreChallenge(h)
       \/ \E c \in Challenges, tx \in Transactions : StartActivation(h, c, tx)
       \/ Verify(h)
       \/ FindPayment(h)
       \/ BeginRecording(h)
       \/ RecordPayment(h)
       \/ MarkChallengeUsed(h)
       \/ EndHandler(h)

ArchiveSpec == ArchiveInit /\ [][ArchiveNext]_archiveVars

-----------------------------------------------------------------------------
(* Properties *)

\* A payment buys exactly one term, however often and by however many handlers
\* it is presented: recorded payments and purchased entitlements are in one to
\* one correspondence.
PaymentBuysOneTerm ==
  LET recorded == {tx \in Transactions : payments[tx] # 0}
      purchased == {id \in DOMAIN entitlements :
                      entitlements[id].source = "purchase"}
  IN /\ {payments[tx] : tx \in recorded} = purchased
     /\ Cardinality(recorded) = Cardinality(purchased)

\* A purchase that was completed can be asked for again: the payment a
\* challenge was marked with is refused neither because the challenge has
\* expired meanwhile, nor because another payment was presented with it, nor
\* because sales have been stopped; only once the challenge is removed.
RetryHonoured ==
  \A h \in Handlers :
    jobs[h].honoured => jobs[h].stage \notin Refusals \ {"notFound"}

\* Terms add up: renewals extend from the current expiry, over every purchase,
\* grant and revocation, provided that no change of the entitlements fell into
\* a statement that records a payment.
TermsAddUp == ~overlapped => LatestEnd(entitlements) >= earned
=============================================================================
