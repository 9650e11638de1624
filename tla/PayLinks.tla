------------------------------- MODULE PayLinks -------------------------------
(***************************************************************************)
(* The payer's side of Pay Links, composed with the store:                 *)
(*                                                                         *)
(*   frontend/app/pay/[name]/page.tsx        the checkout and its polling  *)
(*   frontend/app/api/pay-links/cancellations/[requestId]/route.ts  status *)
(*   frontend/lib/paymentCompletionQueue.ts  the retry queue               *)
(*                                                                         *)
(* The queue is read and written within one turn of the browser's event    *)
(* loop, in one step here.  The wallet, the network it is on and the       *)
(* resolution of the recipient are left out.                               *)
(***************************************************************************)
EXTENDS PayLinkStore, Subsequences

CONSTANTS
  Tabs,        \* checkout tabs of the payer's browser
  Polls,       \* status requests a tab may have in flight
  MaxPending,  \* MAX_PENDING_COMPLETIONS
  RetryTtl     \* RETRY_TTL_MS, in ticks

VARIABLES
  tabs,        \* the open checkouts
  polls,       \* the status requests in flight
  queue,       \* the pending completions, in localStorage
  sent         \* the payments sent and on their way to the chain

browserVars == <<tabs, polls, queue, sent>>
payVars == <<now, storeVars, browserVars>>

ASSUME PayLinkAssumption == MaxPending \in Nat \ {0} /\ RetryTtl \in Nat

-----------------------------------------------------------------------------
(* Values *)

Views == {"checking", "active", "cancelled", "paid", "unavailable"}
Tab == [request : Requests \cup {None}, link : LinkIds \cup {None},
        view : Views, tx : Transactions \cup {None}, confirmed : BOOLEAN,
        \* history: what had become of the request when the tab was opened
        openedCancelled : BOOLEAN]
ClosedTab == [request |-> None, link |-> None, view |-> "checking",
              tx |-> None, confirmed |-> FALSE, openedCancelled |-> FALSE]

Poll == [cancelled : {"none", "unread", "yes", "no"},
         paid : {"none", "unread", "yes", "no"}]
NoPoll == [cancelled |-> "none", paid |-> "none"]

Completion == [tx : Transactions, request : Requests,
               link : LinkIds \cup {None}, queuedAt : Nat]

-----------------------------------------------------------------------------
(* The payer's queue of completions *)

\* readQueue: what is not older than a week.
LiveQueue ==
  KeepAt(queue, {i \in DOMAIN queue : now - queue[i].queuedAt <= RetryTtl})

Without(items, tx) == KeepAt(items, {i \in DOMAIN items : items[i].tx # tx})

RememberUnbounded(items, item) == Append(Without(items, item.tx), item)

\* rememberCompletion: slice(-MAX_PENDING_COMPLETIONS) drops the oldest.
Remember(items, item) ==
  LET next == Append(Without(items, item.tx), item)
      drop == IF Len(next) > MaxPending THEN Len(next) - MaxPending ELSE 0
  IN SubSeq(next, drop + 1, Len(next))

\* A remembered completion is posted: submitPaymentCompletion at once, and
\* retryPendingPaymentCompletions on page load and when back online.
PostCompletion(w) ==
  \E i \in DOMAIN LiveQueue :
    /\ StartSettlement(w, LiveQueue[i].tx, LiveQueue[i].request,
                       LiveQueue[i].link)
    /\ UNCHANGED browserVars

\* The answer 201 reaches the browser, which forgets the completion; if the
\* checkout itself had posted it, it shows "paid".
CompletionRecorded(w) ==
  /\ AnswerRecorded(w)
  /\ queue' = Without(LiveQueue, jobs[w].tx)
  /\ \E shown \in SUBSET {c \in Tabs : tabs[c].tx = jobs[w].tx} :
       tabs' = [c \in Tabs |-> IF c \in shown
                               THEN [tabs[c] EXCEPT !.view = "paid"]
                               ELSE tabs[c]]
  /\ UNCHANGED <<sent, polls>>

CompletionRefusedForgetting(w) ==
  /\ AnswerRefused(w)
  /\ queue' = Without(LiveQueue, jobs[w].tx)
  /\ UNCHANGED <<sent, tabs, polls>>

\* An error leaves the completion in the queue for a later retry.
CompletionRefused(w) == AnswerRefused(w) /\ UNCHANGED browserVars

-----------------------------------------------------------------------------
(* The checkout *)

\* A short link is read from the store; a portable link carries its request.
OpenTab(c, r, l) ==
  /\ tabs[c] = ClosedTab
  /\ IF l = None THEN ~RequestExpired(r)
     ELSE LinkActive(l) /\ links[l].request = r
  /\ tabs' = [tabs EXCEPT ![c] =
       [ClosedTab EXCEPT !.request = r, !.link = l,
                         !.openedCancelled = r \in cancellations]]
  /\ UNCHANGED <<storeVars, sent, polls, queue>>

CloseTab(c) ==
  /\ tabs[c] # ClosedTab
  /\ tabs' = [tabs EXCEPT ![c] = ClosedTab]
  /\ polls' = [polls EXCEPT ![c] = [p \in Polls |-> NoPoll]]
  /\ UNCHANGED <<storeVars, sent, queue>>

\* checkStatus, on load and every three seconds, whether or not the one
\* before has been answered.
StartPoll(c, p) ==
  /\ tabs[c] # ClosedTab
  /\ polls[c][p] = NoPoll
  /\ polls' = [polls EXCEPT ![c][p] = [cancelled |-> "unread",
                                       paid |-> "unread"]]
  /\ UNCHANGED <<storeVars, sent, tabs, queue>>

\* The status route makes its two reads at once, in either order.
ReadCancelled(c, p) ==
  /\ polls[c][p].cancelled = "unread"
  /\ polls' = [polls EXCEPT ![c][p].cancelled =
       IF tabs[c].request \in cancellations THEN "yes" ELSE "no"]
  /\ UNCHANGED <<storeVars, sent, tabs, queue>>

ReadPaid(c, p) ==
  /\ polls[c][p].paid = "unread"
  /\ polls' = [polls EXCEPT ![c][p].paid =
       IF IsPaymentRequestPaid(tabs[c].request) THEN "yes" ELSE "no"]
  /\ UNCHANGED <<storeVars, sent, tabs, queue>>

StatusOfIgnoringCancellation(poll) ==
  IF poll.paid = "yes" THEN "paid" ELSE "active"

StatusOf(poll) ==
  IF poll.paid = "yes" THEN "paid"
  ELSE IF poll.cancelled = "yes" THEN "cancelled"
  ELSE "active"

ShowStatus(c, p) ==
  /\ polls[c][p].cancelled \in {"yes", "no"}
  /\ polls[c][p].paid \in {"yes", "no"}
  /\ tabs' = [tabs EXCEPT ![c].view = StatusOf(polls[c][p])]
  /\ polls' = [polls EXCEPT ![c][p] = NoPoll]
  /\ UNCHANGED <<storeVars, sent, queue>>

StatusUnavailable(c, p) ==
  /\ polls[c][p] # NoPoll
  /\ tabs' = [tabs EXCEPT ![c].view = "unavailable"]
  /\ polls' = [polls EXCEPT ![c][p] = NoPoll]
  /\ UNCHANGED <<storeVars, sent, queue>>

\* The pay button: enabled while the view is active, gone once a transaction
\* was sent from this checkout.
Pay(c) ==
  /\ tabs[c] # ClosedTab
  /\ tabs[c].view = "active"
  /\ tabs[c].tx = None
  /\ ~RequestExpired(tabs[c].request)
  /\ \E tx \in Transactions \ sent :
       /\ Pays[tx] = tabs[c].request
       /\ sent' = sent \cup {tx}
       /\ tabs' = [tabs EXCEPT ![c].tx = tx]
  /\ UNCHANGED <<storeVars, polls, queue>>

\* The receipt arrives: recordSettlement remembers the completion.
Confirm(c) ==
  /\ tabs[c].tx # None
  /\ ~tabs[c].confirmed
  /\ tabs' = [tabs EXCEPT ![c].confirmed = TRUE]
  /\ queue' = Remember(LiveQueue,
                [tx |-> tabs[c].tx, request |-> tabs[c].request,
                 link |-> tabs[c].link, queuedAt |-> now])
  /\ UNCHANGED <<storeVars, sent, polls>>

-----------------------------------------------------------------------------
(* The system *)

PayInit ==
  /\ StoreInit
  /\ sent = {}
  /\ tabs = [c \in Tabs |-> ClosedTab]
  /\ polls = [c \in Tabs |-> [p \in Polls |-> NoPoll]]
  /\ queue = <<>>

CompletionStep ==
  \E w \in Workers :
    \/ PostCompletion(w)
    \/ CompletionRecorded(w)
    \/ CompletionRefused(w)

CheckoutStep ==
  \E c \in Tabs :
    \/ \E r \in Requests, l \in LinkIds \cup {None} : OpenTab(c, r, l)
    \/ CloseTab(c)
    \/ \E p \in Polls :
         \/ StartPoll(c, p)
         \/ ReadCancelled(c, p)
         \/ ReadPaid(c, p)
         \/ ShowStatus(c, p)
         \/ StatusUnavailable(c, p)
    \/ Pay(c)
    \/ Confirm(c)

PayNext ==
  \/ ClockTick /\ UNCHANGED <<storeVars, browserVars>>
  \/ StoreStep /\ UNCHANGED <<now, browserVars>>
  \/ (CompletionStep \/ CheckoutStep) /\ UNCHANGED now

PaySpec == PayInit /\ [][PayNext]_payVars

\* What the schedulers justify, and a payer who comes back: a handler goes on
\* or dies, a retry that is due again and again is posted, and handlers do not
\* die before their answer for ever.
PayFairness ==
  /\ \A w \in Workers :
       WF_payVars(/\ \/ HandlerStep(w) /\ UNCHANGED browserVars
                     \/ CompletionRecorded(w) \/ CompletionRefused(w)
                  /\ UNCHANGED now)
  /\ \A tx \in Transactions :
       SF_payVars(\E w \in Workers :
         PostCompletion(w) /\ jobs'[w].tx = tx /\ UNCHANGED now)
  /\ <>[][\A w \in Workers :
            jobs[w].stage \in Refusals \cup {"answer"} \/ ~Fail(w)]_payVars

FairPaySpec == PaySpec /\ PayFairness

-----------------------------------------------------------------------------
(* Properties *)

\* Every table and every part of the browser's state holds values of its
\* type, and the queue never holds more than its limit.
PayLinksTypeOK ==
  /\ StoreTypeOK
  /\ tabs \in [Tabs -> Tab]
  /\ polls \in [Tabs -> [Polls -> Poll]]
  /\ \A i \in DOMAIN queue : queue[i] \in Completion
  /\ Len(queue) <= MaxPending

\* A completion leaves the payer's queue only when it is in the history, when
\* it is past its term, or as the oldest of a full queue.
CompletionNotLost ==
  [][\A i \in DOMAIN queue :
       LET tx == queue[i].tx IN
       (\A j \in DOMAIN queue' : queue'[j].tx # tx) =>
         \/ history[tx] # None
         \/ now - queue[i].queuedAt > RetryTtl
         \/ i = 1 /\ Len(queue') = MaxPending
     ]_payVars

\* A payment that settled its link is recorded in the end, whatever handlers
\* die and answers are lost, as long as the payer's queue keeps the completion
\* and the link is neither revoked nor past its term.
Acceptable(item, l) ==
  /\ Stored(l) /\ links[l].paidBy = item.tx /\ ~links[l].revoked
  /\ links[l].expiresAt > now /\ ~RequestExpired(item.request)
Retriable(tx) ==
  \E i \in DOMAIN LiveQueue :
    LET item == LiveQueue[i]
        rows == IF item.link = None THEN RowsOf(item.request) ELSE {item.link}
    IN item.tx = tx /\ rows # {} /\ \A l \in rows : Acceptable(item, l)
SettledIsRecorded ==
  \A tx \in Transactions : ~<>[](Retriable(tx) /\ history[tx] = None)

\* Once a request is cancelled, neither its short nor its portable links can
\* initiate payment: no checkout opened from then on sends one, whatever
\* status answers arrive, in whatever order.
CancelledNotPayable ==
  \A c \in Tabs : tabs[c].openedCancelled => tabs[c].tx = None
=============================================================================
