# XDCID in TLA+

XDCID sells wallet-native `.xdc` names: Solidity contracts keep who owns a name,
what it resolves to and what it costs; a Next.js application signs quotes, keeps
payment links, records payments and moves USDC between chains. This directory holds
TLA+ models of the parts whose correctness depends on the order in which things
happen, TLC runs that check them on small instances, and TLAPS proofs of what holds
for instances of any size.

Source paths are relative to the repository's root, which `PROJECT.json` calls `src/`.

## 1. The system

### Contracts (the unified stack)

| Component | State | Operations | Interacts with |
| --- | --- | --- | --- |
| **Registry V3** `contracts/XNSRegistryV3.sol` | one record per node (owner, resolver, parent, expiry, kind), `migrated`, ownership generation, registrar and pending registrar | migrate, register/renew a name, register/renew/reassign/release a subdomain, transfer, resolver pointer, rotate the registrar | reads Registry V2 for names not anchored yet; written by the registrar contract |
| **Registry V2** `contracts/XNSRegistryV2.sol` | owner, resolver, expiry | registers, transfers, renews | read through by V3 until a name is anchored |
| **Universal resolver** `contracts/XNSUniversalResolver.sol` | address per chain, profile texts and primary name, each stamped with owner and generation | set, clear, initialise a primary name, import a legacy route | reads V3 on every call; the registrar initialises and imports |
| **Pricing policy V2** `contracts/XNSPricingPolicyV2.sol` | current, previous and pending configuration, version, times | propose, cancel, activate; price | read by the registrar |
| **Unified registrar** `contracts/XNSUnifiedRegistrar.sol` | nonces, used authorizations, revocations, authorization signer and its rotation, pause | four kinds of sale with and without a discount, reassign, recall, release, import, revoke, rotate, pause | writes registry and resolver, reads the policy and the retired module |
| **Retired subdomain registrar** `contracts/XNSSubdomainRegistrar.sol` | subdomain records and addresses of the old stack | transfers, reassignment, reclaim, release, addresses (sales paused) | its unexpired subdomains are imported |

Also present, not modelled: the deployed V2 registrars and their discount contract,
the pricing compatibility adapter, the first-generation contracts, the older resolvers.

### Application

| Component | State | Operations |
| --- | --- | --- |
| **Quote service** `frontend/app/api/v1/registrar/quote/route.ts`, `…/subdomain/quote/route.ts` | none of its own; stored discount grants | read policy, nonce, price, name and grant from the chain, sign a quote or refuse |
| **Pay Link store and API** `frontend/lib/payLinkStore.ts`, `frontend/app/api/pay-links/…` | stored short links, cancelled requests | create (with the sweep of expired rows), read, revoke, cancel, settle, status |
| **Payment completion** `frontend/app/api/payment-history/complete/route.ts` | payment history | verify, settle the link, save the payment |
| **Checkout** `frontend/app/pay/[name]/page.tsx`, `frontend/lib/paymentCompletionQueue.ts` | the page's view of the request, status requests in flight, a queue of completions in `localStorage` | open, poll every three seconds, pay, confirm, retry |
| **USDC transfer** `frontend/components/MultichainUsdcExecutor.tsx`, `frontend/lib/pendingCctpTransfers.ts`, mounted by the send page and the checkout | the component's state, the asynchronous jobs it started, checkpoints in `localStorage` | pay a fee, register it, burn, wait, mint, resume, recover a paid fee, forget |
| **Forwarding recovery** `frontend/app/api/cctp/forwarding-recovery/route.ts`, `frontend/lib/forwardingRecoveryStore.ts` | fees on record, the burn each was used with, a ledger of fee events | register a verified fee, consume it with a burn, sweep, backfill |
| **Archive subscriptions** `frontend/app/api/archive-subscriptions/route.ts`, `frontend/lib/archiveSubscriptionPurchases.ts` | challenges, payments, entitlements, sales switch | start a checkout, activate a payment, grant, revoke |
| Sign-in, private vault, read API, indexes, consoles | database rows, caches | listed with their status in `PROJECT.json` |

### What is hard

* **Names change hands without anything being erased.** A record is stale, reserved,
  lapsed or live depending on the time, on a parent's record, on a second registry
  that keeps changing, and on who owned the name when it was written.
* **Authority is derived.** Who may govern a subdomain is looked up at the moment of
  the call; who may import one depends on three contracts.
* **Signed messages outlive what they were signed against.** Quotes and discount
  authorizations are presented after configurations, signers and nonces have changed,
  and a quote is itself put together from reads of different blocks.
* **Handlers interleave at every `await`.** Settlement, cancellation, revocation and
  the sweep of expired rows act on one table, and a handler can die between two
  statements. The same holds for fees and for archive payments.
* **The browser sees answers in any order**, keeps the only copy of a completion that
  was not accepted and of a burn that was not minted, and loses its component with
  every change of network.

`PROJECT.json` lists each of these hazards at its line with the properties that
cover it, or the reason why none does.

## 2. Modules

| Module | Models | Builds on |
| --- | --- | --- |
| `Clock` | `block.timestamp`, or a server's clock | |
| `RegistryV3` | Registry V3 over a changing Registry V2 | `Clock` |
| `UniversalResolver` | the resolver, on the registry | `RegistryV3` |
| `UniversalResolver_proofs` | theorems about `RegistryV3` (its first part) and `UniversalResolver` | `UniversalResolver`, `TLAPS` |
| `PricingPolicyV2` | the pricing policy | `Clock` |
| `UnifiedRegistrar` | the registrar with registry, resolver, policy and the retired module | `UniversalResolver`, `PricingPolicyV2` |
| `UnifiedRegistrar_proofs` | theorems about `PricingPolicyV2` (its first part) and the composed contracts | `UnifiedRegistrar`, `UniversalResolver_proofs`, `TLAPS` |
| `QuoteService` | the two quote routes, reading and writing to all of the above | `UnifiedRegistrar` |
| `QuoteService_proofs` | theorems about `QuoteService` | `QuoteService`, `UnifiedRegistrar_proofs`, `TLAPS` |
| `Subsequences` | `Array.prototype.filter`, by the positions it keeps | |
| `Subsequences_proofs` | what such a filter keeps, for lists of any length | `Subsequences`, `TLAPS` |
| `PayLinkStore` | Pay Links on the server, and the completion of a payment | `Clock` |
| `PayLinks` | the payer's browser, on the store | `PayLinkStore`, `Subsequences` |
| `PayLinks_proofs` | theorems about `PayLinkStore` and `PayLinks` | `PayLinks`, `Subsequences_proofs`, `TLAPS` |
| `UsdcChain` | the fee and the burn transactions of a transfer | |
| `FeeRecords` | **abstract specification**: what the server promises about paid fees | `UsdcChain` |
| `ForwardingRecovery` | the recovery service by statement; implements `FeeRecords` | `UsdcChain`, `Clock`; `INSTANCE FeeRecords` |
| `ForwardingRecovery_proofs` | the refinement and the invariants, proved | `ForwardingRecovery`, `TLAPS` |
| `UsdcTransfer` | the browser's transfer, on what `FeeRecords` promises | `FeeRecords`, `Clock`, `Subsequences` |
| `UsdcTransfer_proofs` | theorems about `UsdcTransfer` | `UsdcTransfer`, `Subsequences_proofs`, `TLAPS` |
| `ArchivePurchases` | archive subscriptions of one wallet | `Clock` |
| `ArchivePurchases_proofs` | theorems about `ArchivePurchases` | `ArchivePurchases`, `TLAPS` |
| `MC…` | small instances | the module of that name |

Names follow the source: `RegisterTopLevel` is `registerTopLevel`, `stored` is
`_records`, and so on; the `map` of `PROJECT.json` gives the lines of every definition.

### Contracts: one transaction, one step

The EVM runs a transaction alone and a revert leaves no trace. An action is therefore
a whole external function with the calls it makes, and a `require` is a conjunct: a
call that would revert is a disabled action. Times are ticks; a bound on them,
`MaxTime`, and bounds on expiries, generations, versions and nonces (`MaxExpiry`,
`MaxGeneration`, `MaxVersion`, `MaxNonce`) keep the models finite. `MaxExpiry` plays
the part of `type(uint64).max`: a registrar may pass anything up to one past it, and
`checkedExpiry` refuses.

**RegistryV3.** `stored`, `migrated`, `generation` are the contract's mappings;
`legacy` is what V2 would answer. `Records(n)` is `_record`: the stored record if the
name is anchored, V2's otherwise. `OwnerOf` is `ownerOf`, with the parent's expiry
taken into account for a subdomain. `LegacyStep` lets V2 register, renew, transfer
and repoint a name at any time. `announced` is a history variable that remembers
which proposal is in force since when. The registrar contract is any caller; the one
thing kept from it is that it hashes names, so the nodes of top-level names and of
subdomains are disjoint and a subdomain determines its parent (`NodesAssumption`).

**UniversalResolver.** A record carries the owner and generation of its writing, as in
the contract. In addition it carries `inTenure`, a history field that every step
updates: has the ownership under which the record was written lasted ever since? The
code cannot know it; the properties compare what the stamps say with it. `chosen` is
the name an account chose itself, for as long as it has kept that name.

**PricingPolicyV2.** Prices are computed with the rounding of the contract. `retired`
is a history variable: every replaced configuration and when it was replaced, where
the contract keeps only the last one. The module is checked as part of
`UnifiedRegistrar`, whose `PricingStep` is its next-state relation.

**UnifiedRegistrar.** A quote is not a message in flight: it is chosen when presented,
among all that a key of `QuoteSigners` could have signed at any time. Its fields that
must repeat the call are taken from it; version, price, nonce, signer, deadline and
payment method are free. This covers duplicated, delayed, reordered and
never-presented quotes. A discount authorization is a constant record (who, what for,
how many uses, which key). The retired module is `legacySubs`:
what can still be done there once its sales are paused. `call` and `redemptions` are
history variables: the call just made, and how often each nonce paid for a sale.

**QuoteService.** The one module whose steps are finer than a transaction: each
`eth_call` of a handler is a step and blocks fall in between; the calls of one
`Promise.all` are made in any order. `serving[h]` is what handler `h` has read so far
and its stage; its answer is a stage too, a quote or one of `Reasons`. The server's
clock may differ from the chain's by any of `Skews`. A request whose basis (name,
parent, nonce, grants) is changed under way by another step is put aside as
`overtaken`: whatever comes of it is a quote like any other, and `UnifiedRegistrar`
presents every quote a key can sign. What the properties judge is every request whose
basis stands, while policy and clock go on, up to the redemption itself (`Redeem`).

### Pay Links, recovery, archive: one statement, one step

A handler is a process that runs between `await`s: each statement sent to the database
is one step, and others run in between. A handler may die, or its answer be lost, after
any step (`Fail`, `Return`, `EndHandler`); what the database did stays.

**PayLinkStore.** `jobs[w]` is the state of a running completion, `links` the table of
stored links, `cancellations` the table of cancelled requests, `history` the payment
history, `settled` a history variable of what was ever settled.

**PayLinks.** A tab has a request, what it shows (`view`), its transaction, and the
status requests it has in flight; `queue` is the content of `localStorage`. A status
request makes its two reads in either order and its answer may be delivered after that
of a later one.

**FeeRecords and ForwardingRecovery.** `FeeRecords` has two variables, the fees on
record (`held`) and the burn each is tied to (`tied`), and three steps: a verified fee
is recorded, tied to a verified burn that no other fee has, or let go with its tie.
`ForwardingRecovery` has the three tables of the service (`recoveries`, `used`,
`ledger`), its two handlers statement by statement, the cleanup of expired rows with
its cascade, and the backfill of the ledger. `KeepsFeeRecords` is the refinement:
`held` is the set of fees with a row, `tied` is `used`. `tiedBefore` and `everUsed` are
history variables: the requests that were made about a tied fee, and the burns each fee
was ever tied to.

**UsdcTransfer.** A click starts a job, an asynchronous function; `jobs[j].step` is the
`await` it is at, `live` whether the component that started it is still mounted. A job
goes on without its component and then writes no component state; a reload ends all
jobs. `ui` is the component's state, `pending` the list of checkpoints. What the server
does is `FeeRecords`, not its statements: the refinement is what makes this composition
sound. The wallet's network is a variable, because the checkout renders the component
only on the source network; `unreported` is a history variable, the payments that
completed with nobody there to hear of it. `overlapped` is another: whether two payments
of a fee, or one and the verification of one, were ever under way in one component,
which keeps one fee hash and one flag (`paidFeeRecoveryReady`) for all of them.

**ArchivePurchases.** `challenges`, `payments`, `entitlements` are the tables; `paid` is
the chain. The one statement that records a payment and its entitlement is two steps,
its reading and its writing, because two such statements of different transactions do
not wait for one another. `earned` and `overlapped` are history variables: when access
should end by what was bought, granted and revoked, and whether a change of the
entitlements ever fell between the two steps.

### Abstractions

* Names, wallets, keys and texts are model values. Signatures hold by construction: a
  quote or authorization is one its key signed, a payment request is one its name's
  owner signed.
* XDC amounts are left out (the contract knows no exchange rate); USDC prices are kept.
* The two-step transfer of the contracts' own ownership (`Ownable2Step`) is left out:
  the administrator is whoever may call.
* Migration: the retired module's sales are paused and any controller may act there, as
  the migration plan in `docs/unified-protocol-v3.md` requires. Routes for chains
  outside the five known ones are not imported.
* The fallback of an address query to the default chain is in `AddressFor`; the
  instances keep one chain, so no run takes it.
* A subdomain not yet imported is governed, in the retired module, by the parent's
  owner in Registry V2.
* A transaction pays one request, and its verification on chain is taken as done. The
  payload a browser posts is the one it saved.
* The read-modify-write of `localStorage` is one step: it runs in one turn of the
  browser's event loop. Between two tabs it is not atomic, and the models have one tab.
* Whether a posted completion came from the checkout or from the retry queue is left
  open in `CompletionRecorded`: either may be the one whose answer arrives.
* One payer, one recipient and one amount in `UsdcTransfer`, so that every checkpoint
  matches the details entered; amounts, gas and the content of Circle's quote and
  attestation are left out, and a quote that is missing or stale ends the job (`Fail`).
  The phases of a running job are one: no button is enabled in any of them.
* One wallet in `ArchivePurchases`: purchases of different wallets share no row.
* The quote service runs on the unified deployment; its rate limit, the price of XDC,
  and the checks of its configured addresses are left out.

## 3. What is checked

Every run passes unless the table says otherwise. Sizes are distinct states.

| Run | Instance | States | What it shows |
| --- | --- | --- | --- |
| `registry_names` | 2 accounts (symmetric), one name, one subdomain, a second registrar; time 0–3, expiries to 4, generations to 4, rotation delay 2 | 603 000 | Through anchoring, sale, lapse, revival, release and every change in V2: a subdomain stays within its parent's term; every new tenure has a new generation; only transfer, time or (before anchoring) V2 takes a name from its owner; a lapsed label stays reserved. No registrar takes over before its own proposal was public for the whole delay |
| `unified_subdomains` | two names, a subdomain of one, 2 accounts (symmetric); time 0–2, expiries to 3, generations and nonces to 2 | 235 000 | Only the parent's present owner governs its subdomains; no call sets somebody else's primary name; a primary name the account chose itself is never replaced by a registration and shows exactly during the ownership it belongs to |
| `unified_imports` | a retired subdomain and one route, under a name that V2 governs until it is anchored; time 0–2, expiries to 2 | 415 000 | An unused label stays importable to the end of its term, whatever becomes of the parent; an import keeps owner, parent, expiry and routes |
| `unified_quotes` | 2 policy signers, 3 configurations, 3 versions, delay 3, grace 2, quote ages 0 and 2, lifetimes up to one too long, time 0–7, `Year` 5 | 111 000 | Each replaced version is honoured for exactly its grace period, with its own prices and signer; a sale is made at the price and on the word of a version in force; a nonce pays for one sale |
| `unified_grants` | an authorization with two uses at 50 %, one with one use at 100 % of another signer; revocation, signer rotation, pausing; one text key; 3 nonces and generations, time 0–3 | 337 000 | Authorizations are spent only as signed, within their count, while valid; texts of names sold with them show exactly during the ownership they were written under |
| `quote_service` | one name and a subdomain of it; four requests (registration in XDC, renewal in USDC with a stored grant of 50 %, registration and renewal of the subdomain); one configuration change that replaces signer, token, prices and the XDC switch; delay 2, grace 1, quote lifetime 2, server clock off by −1, 0 or 1; time 0–3 | 360 000 | No quote begins before the block it is presented in. A quote can be redeemed to its end or to the end of its version's grace period, whichever is first, while name, nonce and grant stand, except for a payment method withdrawn since and a subdomain's term that no longer fits. A refusal is right as of the moment of the answer |
| `paylink_settlement` | one request, 2 links, 2 payments, 2 handlers (symmetric), retention 1, time 0–2 | 737 000 | What the history holds was settled; a stored link keeps the payment that settled it first; a revoked or cancelled row is never settled |
| `paylink_checkout` | one request that expires, 1 link, 2 payments, 1 handler, 1 tab, 1 status request, queue limit 1, retry term 1, retention 2, time 0–2 | 673 000 | No checkout opened after a cancellation pays; a completion leaves the queue only recorded, expired or displaced; under fairness, a settled payment whose completion stays retriable is recorded |
| `forwarding_recovery` | 2 fees, 2 burns, 2 requests (all symmetric), term 1, time 0–2 | 2 153 000 | The service implements `FeeRecords`; a fee that was tied when it was asked about is not offered, unless its record went meanwhile; the ledger names only paid fees and real burns |
| `usdc_transfer` | 7 pages (send across chains with the payer's choice, send direct, checkout locked to automatic, checkout locked to standard; some twice, with other bounds), up to 2 fees, 2 burns and 2 jobs, a list of 1 checkpoint with term 0, time 0–1 | 3 027 000 | No burn is forgotten but by completion, by the payer, by age or by the limit; no forwarded burn is signed before its fee is on record, unless two payments or verifications of a fee overlapped in one component |
| `archive_purchases` | 2 challenges, 2 transfers, 2 handlers (all symmetric), one plan, challenge lifetime 0, retention 0, window 1 with 2 attempts, one grant term, 2 entitlements, time 0–2 | 7 283 000 | A payment buys one term; a completed purchase can be asked for again; terms add up unless two recording statements overlap |
| `completion_unreported` | the checkout in standard mode, one job | violated | the finding below |

Each property of a passing run also has a mutant in `PROJECT.json`: a plausible bug in
one definition of the model, stated in the module beside the original, under which the
same run finds the property violated.

### Bounds, and why they are enough

* **Accounts.** The contracts compare owners for equality only; two accounts give every
  case of "the same" and "another one". Symmetry is used only in runs without liveness,
  over sets whose members no constant tells apart.
* **Names.** Records of unrelated names do not interact: a name touches only itself,
  its parent and its children. One parent with one child shows every relation. (Two
  children are related only through their parent, which neither changes.) Accounts join
  names through their primary name alone, which is why `unified_subdomains` has two.
* **Time.** A tick is a period after which some comparison may change. A name must be
  registered, lapse, be taken again and lapse again, or be revived: this fits in three
  ticks with terms of one or two; a second proposal of a registrar that reuses the first
  one's deadline shows by time two. `unified_quotes` needs more, since a second change of
  configuration cannot come before the delay: 7 ticks hold two changes and the end of the
  first grace period. Its delay (3) is longer than its grace period (2), as 48 hours and
  five minutes are.
* **`MaxExpiry`** is one past the last time in the registry's run, and one more value is
  offered to the registrar, so that the refusal of a too large expiry is reached.
* **Generations, nonces, versions** stop at 2 to 4: a stale record, an old quote and two
  replaced configurations all occur. A call that would go past a bound is disabled.
* **Quotes** are presented with ages 0 and 2 (issued now, or long enough ago that
  a configuration was replaced and its grace period is ending), with the present and the
  former nonce, at the prices the configurations yield, and with a lifetime of one tick
  more than `MAX_QUOTE_LIFETIME`, which is refused. In `quote_service` other sales come
  from quotes of one price and term (`QuotePrices`, `QuoteTerms`): they are there to
  change the basis under a request, and which quote did it does not matter. One handler
  is enough, since a handler changes nothing that another reads. The lifetime (2) is
  longer than the grace period (1), as ten minutes are than five, so that a quote can
  outlive its version.
* **Pay Links.** Settlement is a race of at most two payments or a payment and its own
  retry on one request; a second link of the same request shows settlement across rows.
  A third handler can only repeat what one of the two does. The queue's limit of one
  makes displacement happen with two payments.
* **Forwarding.** Two fees and two burns give both kinds of conflict, one fee with two
  burns and two fees with one burn; two requests race for each. The proofs remove these
  bounds.
* **USDC transfer.** Two burns displace each other from a list of one; a term of 0 and
  one tick let a checkpoint age; two fees show what a fee of one attempt does to another.
  Every page carries its own bounds on jobs, fees, burns and time (`maxJobs`, `maxFees`,
  `maxBurns`, `lastTick`), since all of them at two at once multiply the states: the send
  page is checked with two fees, with an ageing checkpoint, and with two jobs, one at a
  time; the locked checkout with two jobs and two fees, or two jobs and two burns. A direct
  or standard payment has no fee.
* **Archive.** A challenge lifetime of 0 ticks expires challenges with the first tick; two
  transfers raced over one or two challenges give every conflict of an activation.
  `MaxEntitlements` counts grants and purchases together.

The deadlock check is off in two runs that really come to rest: in `paylink_checkout`
the request has expired at the last tick and nothing is left to do; in
`archive_purchases` every challenge may be spent or gone.

### Fairness

Only `paylink_checkout` assumes any. `PayFairness` says what is needed for the promise
of `paymentCompletionQueue.ts:60`, that a later page load or online event retries the
completion: a handler that can go on does, or dies (weak fairness of each worker); a
retry that is due again and again is posted in the end (strong fairness of each
transaction's post, the payer who comes back); and handlers do not for ever die before
they answer. Each of these is about the environment. `SettledIsRecorded` then says that
no payment stays settled, retriable and unrecorded for ever. Nothing obliges anybody to
send a transaction, and no other liveness property is stated.

### Finding

**A standard cross-chain payment of a Pay Link reaches nobody** (`completion_unreported`).
`docs/paylinks-mvp.md:19` offers Standard CCTP for Pay Links. The mint brings the wallet
to the destination network (`MultichainUsdcExecutor.tsx:691`); the checkout renders the
executor only on the source network (`page.tsx:394`, `:635`), so the component is
unmounted while its job goes on. The job's completion is reported by an effect
(`:210`) that no longer runs: `recordSettlement` is not called, the payment enters no
history, and the link stays open although it has been paid. The checkpoint stays too,
but the checkout has no way to resume it.

### Behaviours the models show and no property forbids

These are consequences of the code that no document, comment or test of the repository
contradicts, or that only a reader can judge.

* *Grace period and payment method.* `_collectPayment` takes token, treasury and payment
  switches from the current configuration, where `docs/unified-protocol-v3.md:68` calls
  the previous one complete: a quote in its grace period whose token was replaced, or
  whose method was switched off, is authentic, correctly priced and cannot be paid.
* *Why a completion is refused.* `settleStoredPayLink` asks whether a row is revoked or
  expired before it asks whether this very transaction has settled it. A first attempt
  that settled the row and died, followed by a revocation or the row's end, leaves a
  settled payment out of the history. `SettledIsRecorded` excepts it (`Acceptable`).
* *An older answer arrives last.* The checkout polls without waiting for the previous
  answer: a request shown as paid can be shown as payable until the next answer.
* *A paid request after its row is gone.* That a request was paid is known from its
  stored row alone, which the sweep deletes; a portable link without an expiry is then
  active again. `docs/signed-payment-requests.md:58` allows paying a request twice.
* *A portable link whose request was never stored* is refused as "not found" when its
  payment is completed, and never enters the history.
* *A parent that registers a label the retired module still holds* prevents its import;
  the migration plan relies on importing first.
* *Quotes.* The renewal of a lapsed subdomain is quoted on its old expiry, while the
  contract counts from now; a price read after a change of version yields a quote that
  the contract refuses; the pause switches are not read. The service hands out quotes of
  ten minutes (`signedRegistrarQuotes.ts:16`), while a replaced version is honoured for
  five (`XNSPricingPolicyV2.sol:11`): after a change of version a quote can end before
  the deadline it states.
* *Forwarding.* A receipt is waited for, whatever its status: a reverted burn or mint
  ends as complete. A refused consumption leaves the fee ready, so that the same page
  signs a further burn with it, although it says not to. A registration that fails after
  the fee was paid makes a fresh attempt pay a second fee. An expired record may be
  registered again and used again. Two clicks while the store is probed start two
  transfers, and the completion of one removes the checkpoint shown, be it the other's.
  They also share one fee hash and one flag: the flag set by one attempt's registration
  goes with the hash kept by the other, and a retry then signs a burn with a fee that is
  not on record. So does a verification that ends while a payment is under way.
  A request that inserted a record and died leaves the ledger to the next backfill.
* *Archive.* Two overlapping statements read the same expiry and one term is lost,
  although `app/archive/page.tsx:375` says that renewals extend from the current expiry.
  A transfer whose activation was refused or lost can only be presented by hand: the page
  does not keep it. Two transfers that race with one challenge both buy a term, and the
  retry of the second is refused. The hourly limit is counted before the insert.

## 4. What is proved

Every invariant and every action property that a passing run checks is also stated by a
theorem, and so are the refinements. The theorems about the contracts
(`UniversalResolver_proofs`, `UnifiedRegistrar_proofs`) hold for every set of accounts,
names, resolvers, registrars, networks, values and authorizations and for every value of
the bounds, those about pricing for any set of valid configurations, any delay and any
shorter grace period; `QuoteService_proofs` for any requests, number of handlers, prices
and skew of the clock; `ForwardingRecovery_proofs` for any number of fees, burns and
concurrent requests; `PayLinks_proofs` for any number of requests, links, payments,
handlers, tabs and status requests and any length of the queue; `UsdcTransfer_proofs`
for any number of attempts, fees, burns and checkpoints; `ArchivePurchases_proofs` for
any number of checkouts, transfers, handlers and grants.

| Theorem | Says |
| --- | --- |
| `TypeCorrect` | `Spec => []TypeOK`; in particular every stored expiry fits its 64 bits |
| `ChildNeverOutlivesParent` | a registered subdomain hangs under a top-level name and expires no later than it |
| `AnchoredNamesHaveGenerations` | generation zero means exactly "never anchored" |
| `TenuresHaveOwnGenerations` | who comes to own an anchored name finds a new generation |
| `RegistrarChangesAreAnnounced` | a registrar is replaced only by the one proposed, after the whole delay |
| `OwnersKeepTopLevel` | no call of the registrar takes a top-level name from its owner within its term |
| `LapsedLabelsStayReserved` | no registration hands a lapsed subdomain to somebody else |
| `PolicyTypesKept` | no configuration that fails validation comes into force |
| `GraceIsAlwaysExact` | the one replaced version kept is all that the grace period needs |
| `ResolverTypesKept` | the resolver's types; no stamp is of a generation yet to come |
| `RecordsLiveInTenure` | a route or a text is answered exactly while the ownership it was written under lasts |
| `PrimaryLivesInTenure` | a primary name is shown exactly while it is owned without interruption |
| `OwnChoicesStand` | a chosen primary name is never displaced by an initialised one |
| `RegistrarKeepsRegistry` | the composed system keeps the registry's types, nesting and generations |
| `RegistrarKeepsRecords` | the composed system keeps the three resolver theorems above |
| `RegistrarTypesKept` | the registrar's types; no authorization is used more often than it allows |
| `QuotesRedeemedOnce` | every nonce used belongs to one sale |
| `SalesPricedInForce` | every sale is at the price, and on the signature, of a version in force |
| `GrantsAreHonoured` | an authorization is spent only by the sale it was signed for |
| `ParentsAloneGovern` | only the parent's owner governs a subdomain |
| `PrimaryIsOnesOwn` | no registrar call changes the primary name another account shows |
| `ImportsAreExact` | an import preserves owner, parent, expiry and routes |
| `ImportsNeverStuck` | an unused label of the retired module can be imported until its term ends |
| `RegistrarImplementsRegistry` | in the composed contracts the registry makes only steps of its own specification (refinement) |
| `RegistrarImplementsPolicy` | so does the pricing policy (refinement) |
| `QuotesNeverPremature` | no quote of the service begins after the block it is presented in |
| `QuotesRedeemable` | a quote of the service is sold by, to its end or that of its version's grace period, while name, nonce and grant stand |
| `RefusalsJustified` | what the service refuses while nothing has changed, the contract would refuse |
| `ServiceKeepsRegistrar` | the contracts keep their invariants when the service's quotes are redeemed too |
| `LedgerTellsTheTruth` | the ledger names only paid fees, and burns that a request found on chain |
| `ServiceKeepsFeeRecords` | `ForwardingRecovery` implements `FeeRecords` |
| `TiedFeesStayTied` | a fee that was tied when it was asked about is not offered |
| `HistoryOnlyOfSettled` | the history attributes to a request only payments that settled a link of it |
| `SettlementsAreFinal` | a stored link keeps the payment that settled it first |
| `RevokedRowsStayUnpaid` | a row revoked or cancelled before it is paid is never settled |
| `CancelledNeverPaid` | no checkout opened after a cancellation sends a payment |
| `PayLinksTyped` | the types of the browser and the store; the queue keeps to its limit |
| `CompletionsNotLost` | a completion leaves the queue only recorded, too old, or displaced |
| `CheckoutImplementsStore` | whatever browsers do, the server makes only steps of the store's specification (refinement) |
| `PaymentsBuyOneTerm` | recorded transfers and purchased entitlements correspond one to one |
| `RetriesAreHonoured` | a completed purchase is not refused when it is asked for again, while its challenge is kept |
| `TermsAlwaysAddUp` | access ends no earlier than what was bought and granted says, if no change of the entitlements fell into a recording statement |
| `FeesSecuredBeforeBurn` | no burn is signed for forwarding before its fee is on record, unless payments overlap |
| `TransferTyped` | the types of component, jobs, checkpoints and chain; the list keeps to its limit |
| `CheckpointsKept` | a burn is forgotten only by completion, by the payer, by age or by the limit |
| `TransferKeepsRecords` | beside the browser's transfer the server makes only steps of `FeeRecords` (refinement) |
| `KeptInOrder` | what a filter leaves of a list stands in the order it had |

**Assumptions**, all named in the module that declares the constants and evaluated by
TLC in every run that uses them: top-level nodes
and subdomain nodes are disjoint and each subdomain has a parent (`NodesAssumption`; the
registrar hashes names), no registrar, account, fee or burn is the null value, bounds
are natural numbers, and the records V2 starts with are well formed
(`LegacyAssumption`); the null value is no network and no text (`ChainsAssumption`);
the configurations proposed pass the contract's validation, the null configuration has no
signer, and the grace period is shorter than the delay, as five minutes are than two days
(`PolicyAssumption`); a price is positive and a token is set, as the contract requires of
a configuration (`ValidConfig`, `XNSPricingPolicyV2.sol:241`); the registrar is one of the registrars, an authorization has the
fields the contract hashes, and the null signer has signed none
(`RegistrarAssumption`); no subdomain of the retired module outlives its parent in V2 at
the start (`LegacySubAssumption`); a transaction pays one request
and the retention is positive (`StoreAssumption`); the queue has room for one completion
(`PayLinkAssumption`); the requests a quote route goes on with are well formed, and the
quotes it signs no longer than the contract allows (`ServiceAssumption`: ten minutes of
fifteen); plans and grants have a positive
number of years (`ArchiveAssumption`).

**Argument for the registry.**

* *Types.* `TypeOK` is inductive. Almost every action writes one name, so a lemma
  (`NameStepType`) does the work once: a step that writes a record, anchors a name and
  advances a generation by so many keeps the types. Each action then shows that the
  record it writes is one.
* *Nesting.* `ChildWithinParent` is not inductive: nothing in it prevents the parent from
  ending earlier. What keeps it true is that no call ever shortens the term of a top-level
  name; for a name not yet anchored this rests on what V2 can do. `NamesInv` adds
  `TopShape` (an anchored top-level node holds a top-level record with an owner) and
  `LegacyShape` (V2 never holds a subdomain, and an absent record has no term). Three
  lemmas (`TopWriteKeepsNames`, `SubWriteKeepsNames`, `LegacyWriteKeepsNames`) cover the
  three kinds of change, and each action is one of them.
* *Tenures.* Ownership is computed: of a record, its term, and for a subdomain its
  parent's. `OwnersAreSimple` shows that under `NamesInv` the parent does not matter,
  because the child ends first. Then every step that writes a name is a `NameWrite`: it
  advances the generation, or it leaves a name in term with its owner. `RegistryInv` (types,
  names, generations) makes this hold in every reachable state; the last two theorems
  about names follow from the same invariant, action by action.
* *Rotation.* `RotationInv` ties the proposal to the announcement in force, so the deadline
  that `activateRegistrar` compares is the one of that very proposal.

**Argument for the pricing policy.** An activation leaves nothing pending, so what the next
one brings into force was proposed after it, at least `UpdateDelay` earlier than it takes
effect. Replacements are therefore at least a delay apart (`ChangesApart`), and since the
grace period is shorter, at most one version was replaced within it: the last one retired,
which is the one the contract keeps (`KeepsLast`). `InForceIs` concludes that the two
versions the contract compares with are exactly those in force.

**Argument for the resolver.** What `addressFor` compares is a stamp, an owner and a
generation; what the properties speak of is the history of ownership. `Tells` says that
the two agree for one record: its stamp is that of the present ownership exactly while
the tenure it was written under lasts. A step of the registry either leaves a name with
its owner and its generation (`Lasting`), leaves it without an owner, or begins a tenure
under a new generation (`NewTenure`, from the registry's proofs). `TellsStays` shows that
such a step (`Follows`) preserves `Tells` for every record at once, so that only the calls
that write a record remain. `RecordsInv` adds that a chosen name is the one stored for the account as long as
it lasts, which is why `initializePrimaryName` finds it active and leaves it.

**Argument for the registrar.** The invariant of the composed system is the conjunction of
those of registry, resolver and policy with `RegistrarInv`. `RegistryMovesUnified` shows that every handler moves
the registry by one of the registry's own operations, so that the registry's lemmas apply
as they are; the handlers that also write records are compared with the resolver's
operations in the same way. What a sale adds (a nonce, the use of an authorization, a line
of the history) is treated once for all four sales. `ImportsNeverStuck` needs an
invariant of its own: a subdomain that the retired module still holds in term has a parent
that, in both registries, has an owner and a term no shorter (`ImportsStand`); it is
carried by every call of the registry, since none shortens a top-level name and Registry
V2 only hands one on when its term is over. That every step is one of the registry's, or
one of the policy's, also gives the two refinements, so that whatever is proved of
either alone holds in the composed system.

**Argument for the quote service.** A handler knows what it has read in blocks that are
past. `JobRight` says, stage by stage, what of it is still true as long as its request is
followed, which is until another step changes its basis: the nonce and the grant are those
of now, the name and the parent are as the checks left them, the price is that of the
configuration in force. Only the pricing may change under a signed quote;
`PricedBy` therefore says that the quote is right for the version it names, be that
the current or a retired one, and `GraceIsExact` that the contract still honours that
version during its grace period. `RefusalRight` says for each refusal why the contract
would refuse as well. The service does not add to what can happen to the contracts: a
redemption is a sale like any other (`SaleKeepsInv` needs nothing of the quote but its
owner), so `UnifiedInv` goes on holding.

**Argument for the recovery service.** The abstract promises are kept statement by
statement, so what has to be known is what a request still remembers of the statements
before: which fee it has verified, which burn it has found on chain, what it has been
told. The inductive invariant says this of every request pointwise, by its stage, and of
the tables: a recorded fee is a paid one, a tied burn is a verified one and tied to one
fee only, an entry of the ledger belongs to a paid fee. Each handler step changes one
request and at most one row, so one lemma about an updated function (`Becomes`) carries
the other requests over. For the refinement every statement is shown to be `Record`,
`Tie`, `Release` or to leave both abstract variables alone.

**Argument for the Pay Link store.** Whatever the step, a row is left as it is, removed,
stored for the first time, revoked, or settled while it is neither paid nor revoked
(`RowStep`, shown statement by statement); both action properties are read off this.
For the history it has to be known what a completion learned before it saves: its
request is the one its transaction pays, and from the stages `save` on the pair is among
the settled ones (`Knows`). `StoreInv` adds that every paid row was settled by its payer
(`RowsPaid`), which is what the handler that loses the race relies on when it reads the
row again. The step of one handler leaves what the others know true, since nothing is
ever taken back from `settled`. For the checkout, `Barred` follows the answers under way: a
status request of a checkout opened after the cancellation can have read anything but
"not cancelled", since cancellations are never undone, and a closed checkout leaves no
request behind (`Untouched`), so its view never becomes "active".

The queue is a list from which entries are filtered by payment and by age, and cut at its
limit. `SelectSeq` is recursive and nothing can be proved of it here, so both browser
modules say filtering by the positions kept (`KeepAt`), and `Subsequences_proofs` shows
what stays, where, and in which order: of a list cut at its limit it is always the oldest
entry that goes. `PayInv` adds that what tabs and queue hold is about the request its
transaction pays (`TabsRight`, `QueueRight`) and that a completion answered as recorded is
in the history (`AnswersRecorded`), which is why the page may drop it. A completion posted
by the browser is thus one that `StoreSpec` allows, which is what the refinement
`CheckoutImplementsStore` comes down to.

**Argument for the transfer.** The component keeps one fee and one flag for all its attempts.
Unless two payments or verifications overlap, the flag is down while a fee is being paid
(`FlagKnown`), so that the fee shown is replaced only when nothing relies on it; what is
shown as ready has been on record; and an attempt that brought its fee along took it from
there (`Knows`). A component that is left behind writes nothing, so a fresh one starts
with the flag down. What comes from a checkpoint is of any value in the proof: only the
shape of the component's state is used.

For the checkpoints the opposite is needed: that whatever the browser holds names a burn
whose hash some page has received (`ClientRight`). It is stated over a set of received
burns that only grows, so that each step is shown once for the set before it and once
carried to the set after it (`MoreSeen`). Every write of the list then lets go of nothing
that is not counted as let go (`LetGo`), by what `Subsequences_proofs` says of the
positions a save keeps: the saved burn replaces its own entry, older ones go by age, and
the last by the limit.

**Argument for archive purchases.** That payments and purchased entitlements correspond
(`Bought`) is kept by every step once it is known what a handler between its statements
may rely on. `JobOK` says this stage by stage: which challenge and transfer it works on,
that the transfer it verified pays for the plan of the challenge, and that a retry which
must be honoured has not been refused. `Marked` says that a challenge is marked with a
transfer of its plan and keeps the mark as long as its row is stored, which is what the
retry is let through by; `Apart` that a challenge being created is known to one handler
alone, so that storing its row overwrites nothing a retry relies on. `UpToDate`
says what a handler between the reading and the writing of the recording statement has
read: unless something overlapped it, at least what was earned. `LatestEnd` is
a `CHOOSE` over a finite sequence; that it exists is shown by a least counterexample on
the number of rows (`SomeRowEndsLast`), since induction theorems are out of reach.

The abstraction of bounds matters for reading the theorems: a call that would exceed
`MaxGeneration` is disabled, so they are about runs that stay within whatever bound is
chosen, and the bound may be chosen as large as the 256 bits of the contract.

**Only model-checked:** `SettledIsRecorded`, the liveness property, since fairness and
`ENABLED` are out of the prover's reach; and `CompletionReported`, which is violated.
Recursive definitions are out of reach as well, which is why no module here has any:
what a filter does is said by positions, and the end of an access by a `CHOOSE`.

## 5. Not modelled, and plan

Not modelled: the deployed V2 registrars, the compatibility adapter, the
first-generation contracts and the older resolvers, all of which the unified stack
replaces; administrator and private-vault sign-in, where one conditional `UPDATE`
consumes a challenge; the read API and the indexes, which only read; the verification of
settlement receipts, which compares what the chains answer; retention, trial and
reporting of the archive; the discount dashboard; user interface, SDK, scripts and the
consoles for deployment. The console for the unified stack is resumable step by step, but
refuses a partially deployed stack when it connects
(`ApothemUnifiedDeploymentClient.tsx:508`), which a reload in the middle leads to.

These are most of the repository's lines: pages, address tables, client code and
superseded contracts. What is modelled is the core logic that state and order make hard.

Next, in this order:

1. **Composition** — `UsdcTransfer` under `PayLinks`, so that the finding above becomes a
   statement about the stored link; storage shared by two tabs.
2. **Deployed V2 stack** — the sales of `RegistrarV2` with `DiscountAuthorization`.
