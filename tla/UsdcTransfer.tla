----------------------------- MODULE UsdcTransfer -----------------------------
(***************************************************************************)
(* One payment of USDC from a browser tab, composed with what the server   *)
(* promises about paid fees (FeeRecords) and with the chains:              *)
(*                                                                         *)
(*   frontend/components/MultichainUsdcExecutor.tsx  the component         *)
(*   frontend/lib/pendingCctpTransfers.ts            its checkpoints       *)
(*   frontend/app/send/page.tsx, app/pay/[name]/page.tsx  what mounts it   *)
(*                                                                         *)
(* A click starts a job, an asynchronous function that waits for the       *)
(* wallet, the chain, the server or Circle between its steps.  A job goes  *)
(* on when its component is unmounted, and then writes no component state; *)
(* a reload ends every job.  Amounts, balances, gas and the content of the *)
(* quote are left out; one payer, one recipient, one amount.               *)
(***************************************************************************)
EXTENDS Clock, FeeRecords, Subsequences

CONSTANTS
  Jobs,                 \* asynchronous functions
  Pages,                \* the pages to start from: view, route and lock, and
                        \*   bounds on the jobs that run at a time, on the fees
                        \*   and burns signed from it, and on time
  MaxPendingTransfers,  \* MAX_PENDING_TRANSFERS
  PendingTtl            \* PENDING_TRANSFER_TTL_MS, in ticks

ASSUME TransferAssumption ==
  /\ Pages \subseteq [view : {"send", "checkout"}, route : {"direct", "cross"},
                      lock : {"payer-choice", "standard", "automatic"},
                      maxJobs : Nat, maxFees : Nat, maxBurns : Nat,
                      lastTick : Nat]
  /\ MaxPendingTransfers \in Nat \ {0} /\ PendingTtl \in Nat

VARIABLES
  page,       \* the page, its route and the requested mode
  wallet,     \* the network the wallet is on
  ui,         \* the state of the mounted component
  jobs,       \* the asynchronous functions that have not returned
  pending,    \* localStorage: the checkpoints, newest first
  everHeld,   \* history: the fees that were ever on record
  released,   \* history: the burns whose checkpoint was let go
  paidWith,   \* history: the fee each burn was signed with
  unreported, \* history: the payments that completed with nobody there
  overlapped  \* history: did two payments or verifications of a fee overlap?

clientVars == <<page, wallet, ui, jobs, pending, released, paidWith, unreported>>
transferVars == <<now, feeRecordsVars, everHeld, clientVars, overlapped>>

-----------------------------------------------------------------------------
(* Values *)

Modes == {"standard", "forwarded"}
\* The phases of a running job are one: no button is enabled in any of them.
Phases == {"idle", "working", "ready", "complete"}
Ui == [mounted : BOOLEAN, phase : Phases, mode : Modes,
       burn : Burns \cup {None}, fee : Fees \cup {None},
       recoveryReady : BOOLEAN, verifying : Fees \cup {None},
       attested : Burns \cup {None}]
Steps == {"none", "probe", "checking", "approving", "payFee", "feeReceipt",
          "register", "sign", "receipt", "consume", "await", "switch", "mint",
          "mintReceipt"}
Job == [step : Steps, live : BOOLEAN, mode : Modes, prepaid : BOOLEAN,
        fee : Fees \cup {None}, burn : Burns \cup {None}]
NoJob == [step |-> "none", live |-> FALSE, mode |-> "standard",
          prepaid |-> FALSE, fee |-> None, burn |-> None]
Checkpoint == [burn : Burns, mode : Modes, fee : Fees \cup {None},
               updatedAt : 0..MaxTime]

Cross == page.route = "cross"

\* The hashes the page has received.
Seen == {b \in Burns : burnTx[b] # UnsentBurn}

-----------------------------------------------------------------------------
(* Checkpoints *)

\* readPendingCctpTransfers: what is not older than thirty days.
LivePending ==
  KeepAt(pending,
         {i \in DOMAIN pending : now - pending[i].updatedAt <= PendingTtl})

WithoutBurn(entries, b) ==
  KeepAt(entries, {i \in DOMAIN entries : entries[i].burn # b})
Remembered(entries) == {entries[i].burn : i \in DOMAIN entries}

\* A list that is never cut.
SavedAll(b, mode, fee) ==
  <<[burn |-> b, mode |-> mode, fee |-> fee, updatedAt |-> now]>>
    \o WithoutBurn(LivePending, b)

\* savePendingCctpTransfer: a known burn keeps its mode, and its fee unless a
\* new one is given; the list is cut to its limit.
Saved(b, mode, fee) ==
  LET before == {i \in DOMAIN LivePending : LivePending[i].burn = b}
      entry == IF before = {}
               THEN [burn |-> b, mode |-> mode, fee |-> fee, updatedAt |-> now]
               ELSE [LivePending[CHOOSE i \in before : \A j \in before : i <= j]
                       EXCEPT !.updatedAt = now,
                              !.fee = IF fee = None THEN @ ELSE fee]
      entries == <<entry>> \o WithoutBurn(LivePending, b)
  IN IF Len(entries) > MaxPendingTransfers
     THEN SubSeq(entries, 1, MaxPendingTransfers) ELSE entries

\* rememberPendingTransfer
RememberTransfer(b, mode, fee) ==
  /\ pending' = Saved(b, mode, fee)
  /\ released' = (released \ {b})
       \cup (Remembered(pending) \ Remembered(Saved(b, mode, fee)))

\* removePendingCctpTransfer
DropTransfer(b) ==
  /\ pending' = WithoutBurn(LivePending, b)
  /\ released' = released \cup (Remembered(pending)
                                  \ Remembered(WithoutBurn(LivePending, b)))

-----------------------------------------------------------------------------
(* Mounting *)

LockedMode == IF page.lock = "automatic" THEN "forwarded" ELSE "standard"

\* The component mounts: effects set the requested mode, then restore the
\* newest checkpoint of the same payment unless its mode is locked out.
MountedUi ==
  LET fresh == [mounted |-> TRUE, phase |-> "idle", mode |-> LockedMode,
                burn |-> None, fee |-> None, recoveryReady |-> FALSE,
                verifying |-> None, attested |-> None]
  IN IF ~Cross \/ LivePending = <<>> THEN fresh
     ELSE LET newest == LivePending[1] IN
          IF page.lock # "payer-choice" /\ newest.mode # LockedMode THEN fresh
          ELSE [fresh EXCEPT !.burn = newest.burn, !.fee = newest.fee,
                             !.mode = newest.mode]
UnmountedUi == [mounted |-> FALSE, phase |-> "idle", mode |-> "standard",
                burn |-> None, fee |-> None, recoveryReady |-> FALSE,
                verifying |-> None, attested |-> None]

Forwarding == Cross /\ ui.mode = "forwarded"

\* The checkout page renders the component only while the wallet is on the
\* source network; the send page whenever there is a destination.
MountedOn(network) == page.view = "send" \/ network = "source"

\* The wallet changes network.  A component that goes leaves its jobs behind.
SwitchWallet(network, running) ==
  /\ wallet' = network
  /\ IF MountedOn(network) = ui.mounted
     THEN UNCHANGED ui /\ jobs' = running
     ELSE IF ui.mounted
     THEN /\ ui' = UnmountedUi
          /\ jobs' = [j \in Jobs |-> [running[j] EXCEPT !.live = FALSE]]
     ELSE ui' = MountedUi /\ jobs' = running

\* The state of the component after a job wrote to it, if it still is there.
View(j, view) == ui' = IF jobs[j].live THEN view ELSE ui

At(j, step) == jobs[j].step = step
Step(j, step) == [jobs[j] EXCEPT !.step = step]
Proceed(j, job) == jobs' = [jobs EXCEPT ![j] = job]
Started(j, job) ==
  /\ jobs[j] = NoJob
  /\ Cardinality({k \in Jobs : jobs[k] # NoJob}) < page.maxJobs
  /\ Proceed(j, [job EXCEPT !.live = TRUE])

\* A job that pays its fee on its own and has not registered it yet, and two
\* of them, or one and a verification, of one component.
Paying(j) ==
  /\ jobs[j].live /\ jobs[j].mode = "forwarded" /\ ~jobs[j].prepaid
  /\ jobs[j].step \in {"probe", "checking", "approving", "payFee",
                       "feeReceipt", "register"}
Overlap ==
  \E j \in Jobs : /\ Paying(j)
                  /\ ui.verifying # None \/ \E k \in Jobs \ {j} : Paying(k)

\* What most steps of a job leave alone.
KeepBrowser == UNCHANGED <<pending, released>>
KeepPage == UNCHANGED <<wallet, ui>>

-----------------------------------------------------------------------------
(* startTransfer *)

\* The button that starts a transfer: in the checkout it is also there while
\* an attestation is ready, once the payer has chosen automatic forwarding.
CanStart ==
  /\ ui.mounted
  /\ \/ ui.phase = "idle"
     \/ page.view = "checkout" /\ ui.phase = "ready" /\ Forwarding

\* The click clears the last attempt.  The phase changes only after the
\* availability of the recovery store has been asked for.  A quote that has
\* not arrived or is too old ends the job (Fail).
Start(j) ==
  LET prepaid == Forwarding /\ ui.recoveryReady
      step == IF Forwarding /\ ~prepaid THEN "probe" ELSE "checking"
  IN
  /\ CanStart
  /\ Started(j, [NoJob EXCEPT !.step = step, !.mode = ui.mode,
                   !.prepaid = prepaid, !.fee = IF prepaid THEN ui.fee ELSE None])
  /\ ui' = [ui EXCEPT !.attested = None,
                      !.fee = IF ui.recoveryReady THEN @ ELSE None,
                      !.phase = IF step = "probe" THEN @ ELSE "working"]
  /\ KeepBrowser /\ UNCHANGED <<wallet, unreported>>

\* An await throws: the server refuses, the payer rejects, a wait times out.
Fail(j) ==
  /\ jobs[j].step \notin {"none", "consume"}
  /\ View(j, [ui EXCEPT !.phase =
       IF jobs[j].step \in {"switch", "mint", "mintReceipt"}
       THEN "ready" ELSE "idle"])
  /\ Proceed(j, NoJob)
  /\ KeepBrowser /\ UNCHANGED <<wallet, unreported>>

\* The store answers; the quote must still be fresh (Fail covers both).
Probed(j) ==
  /\ At(j, "probe")
  /\ View(j, [ui EXCEPT !.phase = "working"])
  /\ Proceed(j, Step(j, "checking"))
  /\ KeepBrowser /\ UNCHANGED <<wallet, unreported>>

AfterApproval(j) ==
  IF jobs[j].mode = "forwarded" /\ ~jobs[j].prepaid THEN "payFee" ELSE "sign"

\* The balance is enough and the wallet is brought to the source network; an
\* allowance too low is raised first.
Checked(j) ==
  /\ At(j, "checking")
  /\ \E step \in {AfterApproval(j)} \cup (IF Cross THEN {"approving"} ELSE {}) :
       SwitchWallet("source", [jobs EXCEPT ![j] = Step(j, step)])
  /\ KeepBrowser /\ UNCHANGED unreported

Approved(j) ==
  /\ At(j, "approving")
  /\ Proceed(j, Step(j, AfterApproval(j)))
  /\ KeepPage /\ KeepBrowser /\ UNCHANGED unreported

\* The payer signs the convenience fee.
SignFee(j) ==
  \E f \in Fees :
    /\ At(j, "payFee") /\ wallet = "source"
    /\ Cardinality({g \in Fees : feeTx[g] # "unsent"}) < page.maxFees
    /\ SendFee(f)
    /\ View(j, [ui EXCEPT !.fee = f])
    /\ Proceed(j, [Step(j, "feeReceipt") EXCEPT !.fee = f])
    /\ KeepBrowser /\ UNCHANGED <<wallet, paidWith, unreported>>

\* A receipt, of whatever status.
FeeReceipt(j) ==
  /\ At(j, "feeReceipt") /\ feeTx[jobs[j].fee] \in {"success", "reverted"}
  /\ Proceed(j, Step(j, "register"))
  /\ KeepPage /\ KeepBrowser /\ UNCHANGED unreported

\* A burn signed whether or not its fee could be registered.
RegisteredOrNot(j) ==
  /\ At(j, "register")
  /\ Record(jobs[j].fee) \/ UNCHANGED recordVars
  /\ View(j, [ui EXCEPT !.recoveryReady = TRUE])
  /\ Proceed(j, Step(j, "sign"))
  /\ KeepBrowser /\ UNCHANGED <<wallet, unreported>>

\* The server has the fee on record before the burn is signed.  An answer
\* that is lost or refused ends the job (Fail).
Registered(j) ==
  /\ At(j, "register")
  /\ Record(jobs[j].fee)
  /\ View(j, [ui EXCEPT !.recoveryReady = TRUE])
  /\ Proceed(j, Step(j, "sign"))
  /\ KeepBrowser /\ UNCHANGED <<wallet, unreported>>

KindOf(j) == IF ~Cross THEN "direct" ELSE jobs[j].mode

\* A burn remembered once its receipt is there, which Fail may forestall.
SignForgetful(j) ==
  \E b \in Burns :
    /\ At(j, "sign") /\ wallet = "source"
    /\ jobs[j].mode = "forwarded" => jobs[j].fee # None
    /\ Cardinality(Seen) < page.maxBurns
    /\ SendBurn(b, KindOf(j))
    /\ paidWith' = [paidWith EXCEPT ![b] = jobs[j].fee]
    /\ Proceed(j, [Step(j, "receipt") EXCEPT !.burn = b])
    /\ View(j, [ui EXCEPT !.burn = b])
    /\ KeepBrowser /\ UNCHANGED <<wallet, unreported>>

\* The payer signs the transfer or the burn, whose hash is kept in the
\* browser before its receipt is awaited.
Sign(j) ==
  \E b \in Burns :
    /\ At(j, "sign") /\ wallet = "source"
    /\ jobs[j].mode = "forwarded" => jobs[j].fee # None
    /\ Cardinality(Seen) < page.maxBurns
    /\ SendBurn(b, KindOf(j))
    /\ paidWith' = [paidWith EXCEPT ![b] = jobs[j].fee]
    /\ Proceed(j, [Step(j, "receipt") EXCEPT !.burn = b])
    /\ IF Cross
       THEN /\ View(j, [ui EXCEPT !.burn = b])
            /\ RememberTransfer(b, jobs[j].mode, jobs[j].fee)
       ELSE UNCHANGED ui /\ KeepBrowser
    /\ UNCHANGED <<wallet, unreported>>

\* The completion effects: the checkpoint of the burn shown goes, and the page
\* that mounted the component is told.
Complete(j) ==
  /\ Proceed(j, NoJob)
  /\ IF jobs[j].live
     THEN /\ ui' = [ui EXCEPT !.phase = "complete"]
          /\ IF ui.burn = None THEN KeepBrowser ELSE DropTransfer(ui.burn)
          /\ UNCHANGED unreported
     ELSE /\ unreported' = unreported \cup {jobs[j].burn}
          /\ UNCHANGED ui /\ KeepBrowser
  /\ UNCHANGED wallet

SourceReceipt(j) ==
  At(j, "receipt") /\ burnTx[jobs[j].burn].status \in {"success", "reverted"}

\* The receipt of the source transaction, of whatever status.
DirectReceipt(j) == ~Cross /\ SourceReceipt(j) /\ Complete(j)

BurnReceipt(j) ==
  /\ Cross /\ SourceReceipt(j)
  /\ Proceed(j, Step(j, IF jobs[j].mode = "standard" THEN "await" ELSE "consume"))
  /\ KeepPage /\ KeepBrowser /\ UNCHANGED unreported

\* The server ties the fee to the burn, or had done so.
Consumed(j) ==
  LET f == jobs[j].fee
      b == jobs[j].burn
  IN
  /\ At(j, "consume")
  /\ Tie(f, b) \/ (tied[f] = b /\ UNCHANGED recordVars)
  /\ View(j, [ui EXCEPT !.recoveryReady = FALSE])
  /\ Proceed(j, Step(j, "await"))
  /\ KeepBrowser /\ UNCHANGED <<wallet, unreported>>

\* A refused or failed request is only shown: the fee stays ready for use.
NotConsumed(j) ==
  /\ At(j, "consume")
  /\ Proceed(j, Step(j, "await"))
  /\ KeepPage /\ KeepBrowser /\ UNCHANGED unreported

\* waitForForwardedMint: Circle mints a forwarded burn in its own time.
Forwarded(j) ==
  /\ At(j, "await") /\ jobs[j].mode = "forwarded"
  /\ BurnVerified(jobs[j].burn)
  /\ Complete(j)

\* waitForMainnetAttestation
Attested(j) ==
  /\ At(j, "await") /\ jobs[j].mode = "standard"
  /\ burnTx[jobs[j].burn].status = "success"
  /\ View(j, [ui EXCEPT !.attested = jobs[j].burn, !.phase = "ready"])
  /\ Proceed(j, NoJob)
  /\ KeepBrowser /\ UNCHANGED <<wallet, unreported>>

-----------------------------------------------------------------------------
(* resumeAttestation, mintOnDestination, recoverPaidForwardingFee *)

\* The payer pastes a burn hash; the checkout has no such field.
PasteBurn(b) ==
  /\ ui.mounted /\ page.view = "send" /\ Cross
  /\ ui.phase \in {"idle", "ready"}
  /\ b \in Seen /\ ui.burn # b
  /\ ui' = [ui EXCEPT !.burn = b]
  /\ KeepBrowser /\ UNCHANGED <<wallet, jobs, unreported>>

Resume(j) ==
  /\ ui.mounted /\ page.view = "send" /\ Cross
  /\ ui.phase \in {"idle", "ready"} /\ ui.burn # None
  /\ Started(j, [NoJob EXCEPT !.step = "await", !.mode = ui.mode,
                              !.burn = ui.burn])
  /\ RememberTransfer(ui.burn, ui.mode, ui.fee)
  /\ ui' = [ui EXCEPT !.attested = None, !.phase = "working"]
  /\ UNCHANGED <<wallet, unreported>>

Mint(j) ==
  /\ ui.mounted /\ ui.phase = "ready" /\ ~Forwarding /\ ui.attested # None
  /\ Started(j, [NoJob EXCEPT !.step = "switch", !.burn = ui.attested])
  /\ ui' = [ui EXCEPT !.phase = "working"]
  /\ KeepBrowser /\ UNCHANGED <<wallet, unreported>>

MintSwitch(j) ==
  /\ At(j, "switch")
  /\ SwitchWallet("destination", [jobs EXCEPT ![j] = Step(j, "mint")])
  /\ KeepBrowser /\ UNCHANGED unreported

SignMint(j) ==
  /\ At(j, "mint") /\ wallet = "destination"
  /\ Proceed(j, Step(j, "mintReceipt"))
  /\ KeepPage /\ KeepBrowser /\ UNCHANGED unreported

\* The receipt of the mint, of whatever status.
MintReceipt(j) == At(j, "mintReceipt") /\ Complete(j)

\* The payer asks to verify a fee already paid: the one the page has kept, or
\* another, by giving its hash.
VerifyFee(f) ==
  /\ ui.mounted /\ page.view = "send" /\ Forwarding
  /\ ui.phase # "working" /\ ui.verifying = None
  /\ feeTx[f] # "unsent"
  /\ ui' = [ui EXCEPT !.verifying = f, !.recoveryReady = @ /\ f = ui.fee]
  /\ KeepBrowser /\ UNCHANGED <<wallet, jobs, unreported>>

\* A fee used before brings its burn back; one on record can be used again.
Verified ==
  LET f == ui.verifying
      done == [ui EXCEPT !.verifying = None, !.fee = f]
  IN
  /\ f # None /\ Record(f)
  /\ ui' = IF tied[f] = None THEN [done EXCEPT !.recoveryReady = TRUE]
           ELSE [done EXCEPT !.burn = tied[f], !.recoveryReady = FALSE]
  /\ KeepBrowser /\ UNCHANGED <<wallet, jobs, unreported>>

NotVerified ==
  /\ ui.verifying # None
  /\ ui' = [ui EXCEPT !.verifying = None, !.recoveryReady = FALSE]
  /\ KeepBrowser /\ UNCHANGED <<wallet, jobs, unreported>>

-----------------------------------------------------------------------------
(* The page, the browser and the chains *)

\* The payer chooses a mode; a mode requested by the link hides the choice.
ChooseMode(mode) ==
  /\ ui.mounted /\ Cross /\ page.lock = "payer-choice"
  /\ ui.phase # "working" /\ ui.mode # mode
  /\ ui' = [ui EXCEPT !.mode = mode]
  /\ KeepBrowser /\ UNCHANGED <<wallet, jobs, unreported>>

\* "Remove this pending reference"
Forget(b) ==
  /\ page.view = "send" /\ b \in Remembered(LivePending)
  /\ DropTransfer(b)
  /\ KeepPage /\ UNCHANGED <<jobs, unreported>>

\* The payer changes the network in the wallet.
PayerSwitches(network) ==
  /\ wallet # network
  /\ SwitchWallet(network, jobs)
  /\ KeepBrowser /\ UNCHANGED unreported

\* The send page keys the component by the payment's details: editing them
\* away and back mounts another one, without the jobs of the first.
EditDetails ==
  /\ page.view = "send"
  /\ \E j \in Jobs : jobs[j].live
  /\ ui' = MountedUi
  /\ jobs' = [j \in Jobs |-> [jobs[j] EXCEPT !.live = FALSE]]
  /\ KeepBrowser /\ UNCHANGED <<wallet, unreported>>

\* A reload: every job ends; the page starts from what the browser kept.
Reload ==
  /\ ui' = IF MountedOn(wallet) THEN MountedUi ELSE UnmountedUi
  /\ jobs' = [j \in Jobs |-> NoJob]
  /\ KeepBrowser /\ UNCHANGED <<wallet, unreported>>

-----------------------------------------------------------------------------
(* The system *)

TransferInit ==
  /\ now = 0
  /\ FeeRecordsInit
  /\ everHeld = {}
  /\ page \in Pages
  /\ wallet = "source"
  /\ pending = <<>>
  /\ ui = MountedUi
  /\ jobs = [j \in Jobs |-> NoJob]
  /\ released = {} /\ unreported = {} /\ overlapped = FALSE
  /\ paidWith = [b \in Burns |-> None]

\* Steps that touch neither a chain nor the server.
PageStep ==
  \/ \E j \in Jobs :
       \/ Start(j) \/ Fail(j) \/ Probed(j) \/ Checked(j) \/ Approved(j)
       \/ FeeReceipt(j) \/ DirectReceipt(j) \/ BurnReceipt(j) \/ NotConsumed(j)
       \/ Forwarded(j) \/ Attested(j) \/ Resume(j) \/ Mint(j) \/ MintSwitch(j)
       \/ SignMint(j) \/ MintReceipt(j)
  \/ \E b \in Burns : PasteBurn(b) \/ Forget(b)
  \/ \E f \in Fees : VerifyFee(f)
  \/ NotVerified
  \/ \E mode \in Modes : ChooseMode(mode)
  \/ \E network \in {"source", "destination"} : PayerSwitches(network)
  \/ EditDetails \/ Reload

SignStep == \E j \in Jobs : SignFee(j) \/ Sign(j)

ServerStep == Verified \/ \E j \in Jobs : Registered(j) \/ Consumed(j)

TransferNext ==
  \/ /\ \/ /\ PageStep
           /\ UNCHANGED <<feeRecordsVars, everHeld, paidWith>>
        \/ /\ SignStep
           /\ UNCHANGED <<recordVars, everHeld>>
        \/ /\ ServerStep
           /\ everHeld' = everHeld \cup held'
           /\ UNCHANGED <<chainVars, paidWith>>
     /\ overlapped' = (overlapped \/ Overlap')
     /\ UNCHANGED <<now, page>>
  \/ /\ \E f \in Fees : MineFee(f) \/ \E b \in Burns : MineBurn(b)
     /\ UNCHANGED <<now, recordVars, everHeld, clientVars, overlapped>>
  \/ /\ \E f \in held : Release({f})
     /\ UNCHANGED <<now, chainVars, everHeld, clientVars, overlapped>>
  \/ /\ now < page.lastTick /\ ClockTick
     /\ UNCHANGED <<feeRecordsVars, everHeld, clientVars, overlapped>>

TransferSpec == TransferInit /\ [][TransferNext]_transferVars

-----------------------------------------------------------------------------
(* Properties *)

\* The browser's state and the histories hold values of their types, and the
\* checkpoints keep to their limit.
TransferTypeOK ==
  /\ ChainTypeOK /\ held \subseteq Fees /\ tied \in [Fees -> Burns \cup {None}]
  /\ page \in Pages
  /\ wallet \in {"source", "destination"}
  /\ ui \in Ui /\ jobs \in [Jobs -> Job]
  /\ Len(pending) <= MaxPendingTransfers
  /\ Remembered(pending) \cup released \cup unreported \subseteq Seen
  /\ \A i \in DOMAIN pending : pending[i] \in Checkpoint

\* A burn whose hash a page has received is resumable from this browser until
\* its checkpoint is let go by a completed transfer, by the payer, by age or by
\* the limit: reloads, failures and changes of network do not lose it.
CheckpointKept ==
  Cross => Seen \subseteq Remembered(pending) \cup released

\* No burn is signed for automatic forwarding before its fee is on record, so
\* a payer whose burn fails can always get back to the fee; provided that no
\* two payments or verifications of a fee overlapped in one component, which
\* keeps one fee and one flag for all of them.
FeeSecuredBeforeBurn ==
  ~overlapped => \A b \in Burns : burnTx[b].kind = "forwarded" => paidWith[b] \in everHeld

\* A transfer whose last receipt arrived is handed to the page that asked for
\* it, and so to the payer's history and to the Pay Link.
CompletionReported == page.view = "checkout" => unreported = {}
=============================================================================
