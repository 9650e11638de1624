-------------------------- MODULE UsdcTransfer_proofs --------------------------
(***************************************************************************)
(* Theorems about UsdcTransfer, for any number of attempts, fees and burns *)
(* and on every page.                                                      *)
(*                                                                         *)
(* That no burn is signed for automatic forwarding before its fee is on    *)
(* record is followed through the attempts first, and needs only the shape *)
(* of what a checkpoint may bring back.                                    *)
(* The component keeps one fee and one flag that says whether it is ready  *)
(* for use.  The argument follows both through the attempts: unless two    *)
(* payments overlap, the flag is down while a fee is being paid, and what  *)
(* the component shows as ready has been on record.                        *)
(*                                                                         *)
(* The types and the fate of the checkpoints need more: that what the      *)
(* checkpoints, the component and its attempts name are transactions of    *)
(* the chain (TransferRight), and what the list keeps when entries are     *)
(* dropped by age and by number (Subsequences_proofs).                     *)
(***************************************************************************)
EXTENDS UsdcTransfer, Subsequences_proofs

-----------------------------------------------------------------------------
(* Shapes *)

UiFields == {"mounted", "phase", "mode", "burn", "fee", "recoveryReady",
             "verifying", "attested"}
JobFields == {"step", "live", "mode", "prepaid", "fee", "burn"}

IsUi(view) ==
  /\ view = [field \in UiFields |-> view[field]]
  /\ view.mounted \in BOOLEAN /\ view.recoveryReady \in BOOLEAN
IsJob(job) ==
  /\ job = [field \in JobFields |-> job[field]]
  /\ job.live \in BOOLEAN /\ job.prepaid \in BOOLEAN

\* What the component and its jobs hold may come from a checkpoint, so only
\* the shape of it is stated.
ClientShapes ==
  /\ IsUi(ui)
  /\ jobs = [j \in Jobs |-> jobs[j]] /\ \A j \in Jobs : IsJob(jobs[j])
ChainShapes ==
  /\ burnTx = [b \in Burns |-> burnTx[b]]
  /\ \A b \in Burns :
       burnTx[b] = [kind |-> burnTx[b].kind, status |-> burnTx[b].status]
  /\ paidWith = [b \in Burns |-> paidWith[b]]

LEMMA JobShapes ==
  ASSUME NEW job, IsJob(job)
  PROVE  /\ \A step : /\ IsJob([job EXCEPT !.step = step])
                      /\ \A field \in JobFields \ {"step"} :
                           [job EXCEPT !.step = step][field] = job[field]
                      /\ [job EXCEPT !.step = step].step = step
         /\ IsJob([job EXCEPT !.live = FALSE])
         /\ \A field \in JobFields \ {"live"} :
              [job EXCEPT !.live = FALSE][field] = job[field]
         /\ ~[job EXCEPT !.live = FALSE].live
BY DEF IsJob, JobFields

LEMMA FreshShapes ==
  /\ IsUi(MountedUi) /\ IsUi(UnmountedUi) /\ IsJob(NoJob)
  /\ ~MountedUi.recoveryReady /\ ~UnmountedUi.recoveryReady
  /\ MountedUi.mounted /\ MountedUi.verifying = None
  /\ UnmountedUi.verifying = None
  /\ NoJob.step = "none" /\ ~NoJob.live /\ ~NoJob.prepaid
BY DEF IsJob, IsUi, NoJob, MountedUi, UnmountedUi, UiFields, JobFields

-----------------------------------------------------------------------------
(* The invariant *)

PayingSteps == {"probe", "checking", "approving", "payFee", "feeReceipt",
                "register"}

PayingJob(job) ==
  job.live /\ job.mode = "forwarded" /\ ~job.prepaid /\ job.step \in PayingSteps

\* What an attempt relies on: only one that pays its fee itself gets to pay
\* it, what it brought along or has registered has been on record, and the
\* fee it has paid is the one its component shows, if that shows any.
Knows(job, view, secured) ==
  /\ job.step \in {"probe", "payFee", "feeReceipt", "register"}
       => job.mode = "forwarded" /\ ~job.prepaid
  /\ job.prepaid => job.fee \in secured \cup {None}
  /\ job.step = "sign" /\ job.mode = "forwarded"
       => job.fee \in secured \cup {None}
  /\ job.live /\ job.step \in {"feeReceipt", "register"}
       => view.fee \in {job.fee, None}

\* A fee shown as ready has been on record, and none is while one is paid.
FlagKnown ==
  ui.recoveryReady =>
    /\ ui.fee \in everHeld \cup {None}
    /\ \A j \in Jobs : ~PayingJob(jobs[j])

Attempts ==
  /\ \A j \in Jobs : Knows(jobs[j], ui, everHeld)
  /\ FlagKnown
  /\ ~ui.mounted => \A j \in Jobs : ~jobs[j].live
  /\ ~Overlap

BurnsSecured ==
  \A b \in Burns : burnTx[b].kind = "forwarded" => paidWith[b] \in everHeld

TransferInv ==
  /\ ClientShapes /\ ChainShapes
  /\ ~overlapped /\ Cross => Attempts /\ BurnsSecured
  /\ ~Cross => \A b \in Burns : burnTx[b].kind # "forwarded"

LEMMA OverlapIs ==
  Overlap <=> \E j \in Jobs :
                 /\ PayingJob(jobs[j])
                 /\ ui.verifying # None \/ \E k \in Jobs \ {j} : PayingJob(jobs[k])
BY DEF Overlap, Paying, PayingJob, PayingSteps

LEMMA TransferInitInv == TransferInit => TransferInv
<1> SUFFICES ASSUME TransferInit PROVE TransferInv
  OBVIOUS
<1> USE FreshShapes DEF TransferInit
<1>1. ClientShapes /\ ChainShapes
  BY DEF ClientShapes, ChainShapes, FeeRecordsInit, ChainInit, UnsentBurn
<1>2. \A b \in Burns : burnTx[b].kind = "none"
  BY DEF FeeRecordsInit, ChainInit, UnsentBurn
<1>3. \A j \in Jobs : ~PayingJob(jobs[j]) /\ Knows(jobs[j], ui, everHeld)
  BY DEF PayingJob, Knows
<1>4. Attempts /\ BurnsSecured
  BY <1>2, <1>3, OverlapIs DEF Attempts, FlagKnown, BurnsSecured
<1> QED
  BY <1>1, <1>2, <1>4 DEF TransferInv

-----------------------------------------------------------------------------
(* Steps of an attempt *)

\* What every step of the component shows, if no two payments overlap after it.
Kept ==
  /\ ClientShapes'
  /\ Cross /\ Attempts /\ ~Overlap' => Attempts'

\* A step that raises no flag and shows no other fee.
LEMMA QuietStep ==
  ASSUME ClientShapes, NEW j \in Jobs, NEW job, IsJob(job), Proceed(j, job),
         IsUi(ui'), ui'.fee \in {ui.fee, None}, ui'.mounted = ui.mounted,
         ui'.recoveryReady => ui.recoveryReady,
         everHeld \subseteq everHeld',
         Cross /\ Attempts =>
           /\ Knows(job, ui', everHeld')
           /\ job.live => ui.mounted
           /\ PayingJob(job) => ~ui'.recoveryReady
  PROVE  Kept
<1>1. /\ jobs'[j] = job
      /\ \A k \in Jobs \ {j} : jobs'[k] = jobs[k]
      /\ ClientShapes'
  BY DEF ClientShapes, Proceed
<1>2. ASSUME Cross, Attempts, ~Overlap'
      PROVE  Attempts'
  <2>1. \A k \in Jobs : Knows(jobs'[k], ui', everHeld')
    BY <1>1, <1>2 DEF Attempts, Knows
  <2>2. FlagKnown'
    BY <1>1, <1>2 DEF Attempts, FlagKnown
  <2>3. ~ui'.mounted => \A k \in Jobs : ~jobs'[k].live
    BY <1>1, <1>2 DEF Attempts
  <2> QED
    BY <1>2, <2>1, <2>2, <2>3 DEF Attempts
<1> QED
  BY <1>1, <1>2 DEF Kept

\* A job that only goes on to a step at which nothing new is relied on.
LEMMA PlainStep ==
  ASSUME ClientShapes, NEW j \in Jobs, NEW step, Proceed(j, Step(j, step)),
         IsUi(ui'), ui'.fee = ui.fee, ui'.mounted = ui.mounted,
         ui'.recoveryReady => ui.recoveryReady,
         everHeld \subseteq everHeld',
         \/ step \notin PayingSteps \cup {"sign"}
         \/ At(j, "probe") /\ step = "checking"
         \/ At(j, "feeReceipt") /\ step = "register"
         \/ At(j, "approving") /\ step = AfterApproval(j)
  PROVE  Kept
<1>0. IsJob(jobs[j])
  BY DEF ClientShapes
<1>1. /\ IsJob(Step(j, step))
      /\ Step(j, step).step = step
      /\ \A field \in JobFields \ {"step"} : Step(j, step)[field] = jobs[j][field]
  BY <1>0 DEF Step, IsJob, JobFields
<1>2. /\ Step(j, step).live = jobs[j].live /\ Step(j, step).mode = jobs[j].mode
      /\ Step(j, step).prepaid = jobs[j].prepaid
      /\ Step(j, step).fee = jobs[j].fee
  BY <1>1 DEF JobFields
<1>3. ASSUME Cross, Attempts
      PROVE  /\ Knows(Step(j, step), ui', everHeld')
             /\ Step(j, step).live => ui.mounted
             /\ PayingJob(Step(j, step)) => ~ui'.recoveryReady
  <2>1. Knows(jobs[j], ui, everHeld) /\ (jobs[j].live => ui.mounted)
    BY <1>3 DEF Attempts
  <2>2. Knows(Step(j, step), ui', everHeld')
    BY <1>1, <1>2, <2>1 DEF Knows, At, AfterApproval, PayingSteps
  <2>3. PayingJob(Step(j, step)) => PayingJob(jobs[j])
    BY <1>1, <1>2 DEF PayingJob, At, AfterApproval, PayingSteps
  <2> QED
    BY <1>2, <1>3, <2>1, <2>2, <2>3 DEF Attempts, FlagKnown
<1> QED
  BY <1>1, <1>3, QuietStep

\* A job that ends.
LEMMA EndStep ==
  ASSUME ClientShapes, NEW j \in Jobs, Proceed(j, NoJob),
         IsUi(ui'), ui'.fee = ui.fee, ui'.mounted = ui.mounted,
         ui'.recoveryReady => ui.recoveryReady, UNCHANGED everHeld
  PROVE  Kept
<1>1. Knows(NoJob, ui', everHeld') /\ ~PayingJob(NoJob)
  BY FreshShapes DEF Knows, PayingJob
<1> QED
  BY <1>1, FreshShapes, QuietStep

-----------------------------------------------------------------------------
(* The steps of startTransfer *)

LEMMA StartKeeps ==
  ASSUME ClientShapes, NEW j \in Jobs, Start(j), UNCHANGED everHeld
  PROVE  Kept
<1> DEFINE prepaid == Forwarding /\ ui.recoveryReady
           step == IF Forwarding /\ ~prepaid THEN "probe" ELSE "checking"
           job == [NoJob EXCEPT !.step = step, !.mode = ui.mode,
                     !.prepaid = prepaid,
                     !.fee = IF prepaid THEN ui.fee ELSE None, !.live = TRUE]
<1>1. /\ Proceed(j, job)
      /\ ui.mounted
      /\ ui' = [ui EXCEPT !.attested = None,
                          !.fee = IF ui.recoveryReady THEN @ ELSE None,
                          !.phase = IF step = "probe" THEN @ ELSE "working"]
  BY DEF Start, Started, CanStart, NoJob
<1>2. /\ IsJob(job) /\ job.step = step /\ job.mode = ui.mode /\ job.live
      /\ job.prepaid = prepaid /\ job.fee = IF prepaid THEN ui.fee ELSE None
  BY DEF IsJob, NoJob, JobFields, Forwarding
<1>3. /\ IsUi(ui') /\ ui'.fee \in {ui.fee, None} /\ ui'.mounted = ui.mounted
      /\ ui'.recoveryReady = ui.recoveryReady
  BY <1>1 DEF IsUi, UiFields, ClientShapes
<1> HIDE DEF job
<1>4. ASSUME Cross, Attempts
      PROVE  Knows(job, ui', everHeld') /\ (PayingJob(job) => ~ui'.recoveryReady)
  BY <1>2, <1>3, <1>4 DEF Attempts, FlagKnown, Knows, PayingJob, Forwarding
<1> QED
  BY <1>1, <1>2, <1>3, <1>4, QuietStep

LEMMA FailKeeps ==
  ASSUME ClientShapes, NEW j \in Jobs, Fail(j), UNCHANGED everHeld
  PROVE  Kept
<1>1. /\ IsUi(ui') /\ ui'.fee = ui.fee /\ ui'.mounted = ui.mounted
      /\ ui'.recoveryReady = ui.recoveryReady
  BY DEF Fail, View, IsUi, UiFields, ClientShapes
<1> QED
  BY <1>1, EndStep DEF Fail

\* Steps that go on to the next wait, whatever they show.
LEMMA WaitKeeps ==
  ASSUME ClientShapes, NEW j \in Jobs, everHeld \subseteq everHeld',
         \/ Probed(j) \/ Approved(j) \/ FeeReceipt(j) \/ Sign(j)
         \/ BurnReceipt(j) \/ Consumed(j) \/ NotConsumed(j) \/ SignMint(j)
  PROVE  Kept
<1>1. /\ IsUi(ui') /\ ui'.fee = ui.fee /\ ui'.mounted = ui.mounted
      /\ ui'.recoveryReady => ui.recoveryReady
  BY DEF Probed, Approved, FeeReceipt, Sign, BurnReceipt, Consumed,
         NotConsumed, SignMint, KeepPage, View, IsUi, UiFields, ClientShapes
<1>2. CASE Sign(j)
  <2>1. PICK b \in Burns : Proceed(j, [Step(j, "receipt") EXCEPT !.burn = b])
    BY <1>2 DEF Sign
  <2> DEFINE job == [Step(j, "receipt") EXCEPT !.burn = b]
  <2>2. /\ IsJob(job) /\ job.step = "receipt" /\ job.live = jobs[j].live
        /\ job.prepaid = jobs[j].prepaid /\ job.fee = jobs[j].fee
    BY DEF ClientShapes, IsJob, JobFields, Step
  <2>3. ASSUME Attempts
        PROVE  /\ Knows(job, ui', everHeld') /\ ~PayingJob(job)
               /\ job.live => ui.mounted
    BY <2>2, <2>3 DEF Attempts, Knows, PayingJob, PayingSteps
  <2> QED
    BY <1>1, <2>1, <2>2, <2>3, QuietStep
<1>3. CASE Probed(j)
  BY <1>1, <1>3, PlainStep DEF Probed
<1>4. CASE Approved(j)
  BY <1>1, <1>4, PlainStep DEF Approved
<1>5. CASE FeeReceipt(j)
  BY <1>1, <1>5, PlainStep DEF FeeReceipt
<1>6. CASE BurnReceipt(j)
  <2>1. \E step \in {"await", "consume"} : Proceed(j, Step(j, step))
    BY <1>6 DEF BurnReceipt
  <2> QED
    BY <1>1, <2>1, PlainStep DEF PayingSteps
<1>7. CASE Consumed(j) \/ NotConsumed(j) \/ SignMint(j)
  <2>1. \E step \in {"await", "mintReceipt"} : Proceed(j, Step(j, step))
    BY <1>7 DEF Consumed, NotConsumed, SignMint
  <2> QED
    BY <1>1, <2>1, PlainStep DEF PayingSteps
<1> QED
  BY <1>2, <1>3, <1>4, <1>5, <1>6, <1>7

\* Steps after which an attempt is over.
LEMMA CompleteKeeps ==
  ASSUME ClientShapes, NEW j \in Jobs, UNCHANGED everHeld,
         DirectReceipt(j) \/ Forwarded(j) \/ Attested(j) \/ MintReceipt(j)
  PROVE  Kept
<1>1. /\ Proceed(j, NoJob)
      /\ IsUi(ui') /\ ui'.fee = ui.fee /\ ui'.mounted = ui.mounted
      /\ ui'.recoveryReady = ui.recoveryReady
  <2>1. CASE Complete(j)
    BY <2>1 DEF Complete, IsUi, UiFields, ClientShapes
  <2>2. CASE Attested(j)
    BY <2>2 DEF Attested, View, IsUi, UiFields, ClientShapes
  <2> QED
    BY <2>1, <2>2 DEF DirectReceipt, Forwarded, MintReceipt
<1> QED
  BY <1>1, EndStep

\* A transfer resumed, or a mint begun, pays no fee.
LEMMA ResumeKeeps ==
  ASSUME ClientShapes, NEW j \in Jobs, Resume(j) \/ Mint(j), UNCHANGED everHeld
  PROVE  Kept
<1>1. /\ ui.mounted
      /\ IsUi(ui') /\ ui'.fee = ui.fee /\ ui'.mounted = ui.mounted
      /\ ui'.recoveryReady = ui.recoveryReady
  BY DEF Resume, Mint, IsUi, UiFields, ClientShapes
<1>2. PICK job : /\ Proceed(j, job) /\ IsJob(job)
                 /\ job.step \in {"await", "switch"} /\ ~job.prepaid
  <2> DEFINE resumed == [[NoJob EXCEPT !.step = "await", !.mode = ui.mode,
                                       !.burn = ui.burn] EXCEPT !.live = TRUE]
             minting == [[NoJob EXCEPT !.step = "switch", !.burn = ui.attested]
                           EXCEPT !.live = TRUE]
  <2>1. Proceed(j, resumed) \/ Proceed(j, minting)
    BY DEF Resume, Mint, Started
  <2>2. /\ IsJob(resumed) /\ resumed.step = "await" /\ ~resumed.prepaid
        /\ IsJob(minting) /\ minting.step = "switch" /\ ~minting.prepaid
    BY DEF NoJob, IsJob, JobFields
  <2> HIDE DEF resumed, minting
  <2> QED
    BY <2>1, <2>2
<1>3. Knows(job, ui', everHeld') /\ ~PayingJob(job)
  BY <1>2 DEF Knows, PayingJob, PayingSteps
<1> QED
  BY <1>1, <1>2, <1>3, QuietStep

\* Who pays a fee pays it alone, and shows no fee as ready meanwhile.
LEMMA PayingAlone ==
  ASSUME Attempts, NEW j \in Jobs, PayingJob(jobs[j])
  PROVE  /\ \A k \in Jobs \ {j} : ~PayingJob(jobs[k])
         /\ ui.verifying = None /\ ~ui.recoveryReady
BY OverlapIs DEF Attempts, FlagKnown

LEMMA SignFeeKeeps ==
  ASSUME ClientShapes, NEW j \in Jobs, SignFee(j), UNCHANGED everHeld
  PROVE  Kept
<1>1. PICK f \in Fees :
        /\ At(j, "payFee")
        /\ View(j, [ui EXCEPT !.fee = f])
        /\ Proceed(j, [Step(j, "feeReceipt") EXCEPT !.fee = f])
  BY DEF SignFee
<1> DEFINE job == [Step(j, "feeReceipt") EXCEPT !.fee = f]
<1>2. /\ IsJob(job) /\ job.step = "feeReceipt" /\ job.live = jobs[j].live
      /\ job.prepaid = jobs[j].prepaid /\ job.mode = jobs[j].mode /\ job.fee = f
  BY DEF ClientShapes, IsJob, JobFields, Step
<1>3. /\ IsUi(ui') /\ ui'.mounted = ui.mounted
      /\ ui'.recoveryReady = ui.recoveryReady
      /\ IF jobs[j].live THEN ui'.fee = f ELSE ui' = ui
  BY <1>1 DEF View, IsUi, UiFields, ClientShapes
<1> HIDE DEF job
<1>4. /\ jobs'[j] = job
      /\ \A k \in Jobs \ {j} : jobs'[k] = jobs[k]
      /\ ClientShapes'
  BY <1>1, <1>2, <1>3 DEF ClientShapes, Proceed, job
<1>5. ASSUME Cross, Attempts, ~Overlap'
      PROVE  Attempts'
  <2>1. /\ Knows(jobs[j], ui, everHeld)
        /\ jobs[j].mode = "forwarded" /\ ~jobs[j].prepaid
    BY <1>1, <1>5 DEF Attempts, Knows, At
  <2>2. Knows(job, ui', everHeld')
    BY <1>2, <1>3, <2>1 DEF Knows
  <2>3. jobs[j].live => PayingJob(jobs[j])
    BY <1>1, <2>1 DEF PayingJob, PayingSteps, At
  <2>4. ASSUME NEW k \in Jobs \ {j}
        PROVE  Knows(jobs[k], ui', everHeld')
    <3>1. Knows(jobs[k], ui, everHeld)
      BY <1>5 DEF Attempts
    <3>2. CASE jobs[j].live
      <4>1. ~PayingJob(jobs[k])
        BY <1>5, <2>3, <3>2, PayingAlone
      <4> QED
        BY <3>1, <4>1 DEF Knows, PayingJob, PayingSteps
    <3>3. CASE ~jobs[j].live
      BY <1>3, <3>1, <3>3 DEF Knows
    <3> QED
      BY <3>2, <3>3
  <2>5. FlagKnown'
    <3>1. CASE jobs[j].live
      BY <1>3, <1>5, <2>3, <3>1, PayingAlone DEF FlagKnown
    <3>2. CASE ~jobs[j].live
      BY <1>2, <1>3, <1>4, <1>5, <3>2 DEF Attempts, FlagKnown, PayingJob
    <3> QED
      BY <3>1, <3>2
  <2>6. ~ui'.mounted => \A k \in Jobs : ~jobs'[k].live
    BY <1>2, <1>3, <1>4, <1>5 DEF Attempts
  <2> QED
    BY <1>4, <1>5, <2>2, <2>4, <2>5, <2>6 DEF Attempts
<1> QED
  BY <1>4, <1>5 DEF Kept

LEMMA RegisteredKeeps ==
  ASSUME ClientShapes, NEW j \in Jobs, Registered(j),
         everHeld' = everHeld \cup held'
  PROVE  Kept
<1> DEFINE job == Step(j, "sign")
<1>1. /\ At(j, "register") /\ jobs[j].fee \in everHeld'
      /\ View(j, [ui EXCEPT !.recoveryReady = TRUE])
      /\ Proceed(j, job)
  BY DEF Registered, Record
<1>2. /\ IsJob(job) /\ job.step = "sign" /\ job.live = jobs[j].live
      /\ job.prepaid = jobs[j].prepaid /\ job.mode = jobs[j].mode
      /\ job.fee = jobs[j].fee
  BY DEF ClientShapes, IsJob, JobFields, Step
<1>3. /\ IsUi(ui') /\ ui'.mounted = ui.mounted /\ ui'.fee = ui.fee
      /\ ~jobs[j].live => ui'.recoveryReady = ui.recoveryReady
  BY <1>1 DEF View, IsUi, UiFields, ClientShapes
<1>4. /\ jobs'[j] = job
      /\ \A k \in Jobs \ {j} : jobs'[k] = jobs[k]
      /\ ClientShapes'
  BY <1>1, <1>2, <1>3 DEF ClientShapes, Proceed
<1> HIDE DEF job
<1>5. ASSUME Cross, Attempts, ~Overlap'
      PROVE  Attempts'
  <2>1. Knows(jobs[j], ui, everHeld)
    BY <1>5 DEF Attempts
  <2>2. \A k \in Jobs : Knows(jobs'[k], ui', everHeld')
    BY <1>1, <1>2, <1>3, <1>4, <1>5, <2>1 DEF Attempts, Knows
  <2>3. jobs[j].live => PayingJob(jobs[j]) /\ ui.fee \in {jobs[j].fee, None}
    BY <1>1, <2>1 DEF PayingJob, PayingSteps, At, Knows
  <2>4. ~PayingJob(job)
    BY <1>2 DEF PayingJob, PayingSteps
  <2>5. FlagKnown'
    <3>1. CASE jobs[j].live
      <4>1. \A k \in Jobs \ {j} : ~PayingJob(jobs[k])
        BY <1>5, <2>3, <3>1, PayingAlone
      <4> QED
        BY <1>1, <1>3, <1>4, <2>3, <2>4, <3>1, <4>1 DEF FlagKnown
    <3>2. CASE ~jobs[j].live
      BY <1>3, <1>4, <1>5, <2>4, <3>2 DEF Attempts, FlagKnown
    <3> QED
      BY <3>1, <3>2
  <2>6. ~ui'.mounted => \A k \in Jobs : ~jobs'[k].live
    BY <1>2, <1>3, <1>4, <1>5 DEF Attempts
  <2> QED
    BY <1>5, <2>2, <2>5, <2>6 DEF Attempts
<1> QED
  BY <1>4, <1>5 DEF Kept

-----------------------------------------------------------------------------
(* Steps of the page *)

\* A component that is mounted or left behind has no fee ready for use, and no
\* running attempt.
LEMMA FreshKeeps ==
  ASSUME ClientShapes, ui' = MountedUi \/ ui' = UnmountedUi,
         jobs' = [j \in Jobs |-> jobs'[j]],
         \A j \in Jobs : /\ IsJob(jobs'[j]) /\ ~jobs'[j].live
                         /\ Attempts => Knows(jobs'[j], ui', everHeld'),
         UNCHANGED everHeld
  PROVE  Kept
<1>1. IsUi(ui') /\ ~ui'.recoveryReady
  BY FreshShapes
<1> QED
  BY <1>1 DEF Kept, ClientShapes, Attempts, FlagKnown

\* The wallet changes network while one attempt may go on to its next step.
LEMMA SwitchKeeps ==
  ASSUME ClientShapes, NEW network, NEW running, SwitchWallet(network, running),
         running = [j \in Jobs |-> running[j]], UNCHANGED everHeld,
         \A j \in Jobs :
           /\ IsJob(running[j]) /\ running[j].live = jobs[j].live
           /\ Cross /\ Attempts =>
                /\ Knows(running[j], ui, everHeld)
                /\ PayingJob(running[j]) => ~ui.recoveryReady
  PROVE  Kept
<1>1. CASE UNCHANGED ui /\ jobs' = running
  <2>1. ClientShapes'
    BY <1>1 DEF ClientShapes
  <2>2. ASSUME Cross, Attempts, ~Overlap'
        PROVE  Attempts'
    BY <1>1, <2>2 DEF Attempts, FlagKnown
  <2> QED
    BY <2>1, <2>2 DEF Kept
<1>2. CASE /\ ui' = UnmountedUi
           /\ jobs' = [j \in Jobs |-> [running[j] EXCEPT !.live = FALSE]]
  <2>1. ASSUME NEW j \in Jobs
        PROVE  /\ IsJob(jobs'[j]) /\ ~jobs'[j].live
               /\ Cross /\ Attempts => Knows(jobs'[j], ui', everHeld')
    <3>1. /\ IsJob(jobs'[j]) /\ ~jobs'[j].live
          /\ jobs'[j].step = running[j].step /\ jobs'[j].fee = running[j].fee
          /\ jobs'[j].mode = running[j].mode
          /\ jobs'[j].prepaid = running[j].prepaid
      BY <1>2 DEF IsJob, JobFields
    <3> QED
      BY <3>1 DEF Knows
  <2> QED
    BY <1>2, <2>1, FreshShapes
    DEF Kept, ClientShapes, Attempts, FlagKnown
<1>3. CASE ~ui.mounted /\ ui' = MountedUi /\ jobs' = running
  <2>1. ClientShapes'
    BY <1>3, FreshShapes DEF ClientShapes
  <2>2. ASSUME Cross, Attempts, ~Overlap'
        PROVE  Attempts'
    BY <1>3, <2>2, FreshShapes DEF Attempts, FlagKnown, Knows
  <2> QED
    BY <2>1, <2>2 DEF Kept
<1> QED
  BY <1>1, <1>2, <1>3 DEF SwitchWallet

LEMMA NetworkKeeps ==
  ASSUME ClientShapes, UNCHANGED everHeld,
         \/ \E network \in {"source", "destination"} : PayerSwitches(network)
         \/ \E j \in Jobs : Checked(j) \/ MintSwitch(j)
  PROVE  Kept
<1>1. ASSUME NEW network, PayerSwitches(network)
      PROVE  Kept
  <2>1. \A j \in Jobs : Cross /\ Attempts =>
          /\ Knows(jobs[j], ui, everHeld)
          /\ PayingJob(jobs[j]) => ~ui.recoveryReady
    BY DEF Attempts, FlagKnown
  <2> QED
    BY <1>1, <2>1, SwitchKeeps DEF PayerSwitches, ClientShapes
<1>2. ASSUME NEW j \in Jobs, NEW step, NEW network,
             SwitchWallet(network, [jobs EXCEPT ![j] = Step(j, step)]),
             \/ At(j, "switch") /\ step = "mint"
             \/ At(j, "checking") /\ step \in {AfterApproval(j), "approving"}
      PROVE  Kept
  <2> DEFINE running == [jobs EXCEPT ![j] = Step(j, step)]
  <2>1. /\ IsJob(Step(j, step)) /\ Step(j, step).step = step
        /\ Step(j, step).live = jobs[j].live /\ Step(j, step).mode = jobs[j].mode
        /\ Step(j, step).prepaid = jobs[j].prepaid
        /\ Step(j, step).fee = jobs[j].fee
    BY DEF ClientShapes, IsJob, JobFields, Step
  <2>2. /\ running = [k \in Jobs |-> running[k]]
        /\ running[j] = Step(j, step)
        /\ \A k \in Jobs \ {j} : running[k] = jobs[k]
    BY DEF ClientShapes
  <2> HIDE DEF running
  <2>3. ASSUME Cross, Attempts
        PROVE  /\ Knows(Step(j, step), ui, everHeld)
               /\ PayingJob(Step(j, step)) => ~ui.recoveryReady
    <3>1. Knows(jobs[j], ui, everHeld)
      BY <2>3 DEF Attempts
    <3>2. PayingJob(Step(j, step)) => PayingJob(jobs[j])
      BY <1>2, <2>1 DEF PayingJob, PayingSteps, At, AfterApproval
    <3> QED
      BY <1>2, <2>1, <2>3, <3>1, <3>2
      DEF Knows, At, AfterApproval, Attempts, FlagKnown
  <2>4. \A k \in Jobs :
          /\ IsJob(running[k]) /\ running[k].live = jobs[k].live
          /\ Cross /\ Attempts =>
               /\ Knows(running[k], ui, everHeld)
               /\ PayingJob(running[k]) => ~ui.recoveryReady
    BY <2>1, <2>2, <2>3 DEF ClientShapes, Attempts, FlagKnown
  <2> QED
    BY <1>2, <2>2, <2>4, SwitchKeeps DEF running
<1>3. ASSUME NEW j \in Jobs, Checked(j)
      PROVE  Kept
  <2>1. PICK step \in {AfterApproval(j), "approving"} :
          SwitchWallet("source", [jobs EXCEPT ![j] = Step(j, step)])
    BY <1>3 DEF Checked
  <2> QED
    BY <1>2, <1>3, <2>1 DEF Checked
<1> QED
  BY <1>1, <1>2, <1>3 DEF MintSwitch

\* Steps of the payer that only change what the component shows.
LEMMA ShownKeeps ==
  ASSUME ClientShapes, UNCHANGED everHeld,
         \/ \E b \in Burns : PasteBurn(b) \/ Forget(b)
         \/ \E f \in Fees : VerifyFee(f)
         \/ NotVerified
         \/ \E mode \in Modes : ChooseMode(mode)
  PROVE  Kept
<1>1. /\ UNCHANGED jobs
      /\ IsUi(ui') /\ ui'.fee = ui.fee /\ ui'.mounted = ui.mounted
      /\ ui'.recoveryReady => ui.recoveryReady
  BY DEF PasteBurn, Forget, VerifyFee, NotVerified, ChooseMode, KeepPage,
         IsUi, UiFields, ClientShapes
<1>2. ASSUME Cross, Attempts, ~Overlap'
      PROVE  Attempts'
  BY <1>1, <1>2 DEF Attempts, FlagKnown, Knows
<1> QED
  BY <1>1, <1>2 DEF Kept, ClientShapes

LEMMA VerifiedKeeps ==
  ASSUME ClientShapes, Verified, everHeld' = everHeld \cup held'
  PROVE  Kept
<1> DEFINE f == ui.verifying
<1>1. /\ f # None /\ f \in everHeld' /\ UNCHANGED jobs
      /\ IsUi(ui') /\ ui'.fee = f /\ ui'.mounted = ui.mounted
  BY DEF Verified, Record, IsUi, UiFields, ClientShapes
<1>2. ASSUME Cross, Attempts, ~Overlap'
      PROVE  Attempts'
  <2>1. \A j \in Jobs : ~PayingJob(jobs[j])
    BY <1>1, <1>2, OverlapIs DEF Attempts
  <2>2. ASSUME NEW j \in Jobs
        PROVE  Knows(jobs[j], ui', everHeld')
    BY <1>1, <1>2, <2>1 DEF Attempts, Knows, PayingJob, PayingSteps
  <2>3. FlagKnown'
    BY <1>1, <2>1 DEF FlagKnown
  <2> QED
    BY <1>1, <1>2, <2>2, <2>3 DEF Attempts
<1> QED
  BY <1>1, <1>2 DEF Kept, ClientShapes

LEMMA LeaveKeeps ==
  ASSUME ClientShapes, UNCHANGED everHeld, EditDetails \/ Reload
  PROVE  Kept
<1>1. CASE EditDetails
  <2>1. ASSUME NEW j \in Jobs
        PROVE  /\ IsJob(jobs'[j]) /\ ~jobs'[j].live
               /\ Attempts => Knows(jobs'[j], ui', everHeld')
    <3>1. /\ IsJob(jobs'[j]) /\ ~jobs'[j].live
          /\ jobs'[j].step = jobs[j].step /\ jobs'[j].fee = jobs[j].fee
          /\ jobs'[j].mode = jobs[j].mode /\ jobs'[j].prepaid = jobs[j].prepaid
      BY <1>1 DEF EditDetails, ClientShapes, IsJob, JobFields
    <3> QED
      BY <3>1 DEF Knows, Attempts
  <2> QED
    BY <1>1, <2>1, FreshKeeps DEF EditDetails
<1>2. CASE Reload
  <2>1. Knows(NoJob, ui', everHeld')
    BY FreshShapes DEF Knows
  <2> QED
    BY <1>2, <2>1, FreshShapes, FreshKeeps DEF Reload
<1> QED
  BY <1>1, <1>2

-----------------------------------------------------------------------------
(* The system *)

\* A burn is signed with a fee that has been on record.
LEMMA SignSecures ==
  ASSUME ClientShapes, ChainShapes, NEW j \in Jobs, Sign(j), UNCHANGED everHeld
  PROVE  /\ ChainShapes'
         /\ Cross /\ Attempts /\ BurnsSecured => BurnsSecured'
         /\ ~Cross /\ (\A b \in Burns : burnTx[b].kind # "forwarded")
              => \A b \in Burns : burnTx'[b].kind # "forwarded"
<1>1. PICK b \in Burns :
        /\ At(j, "sign")
        /\ jobs[j].mode = "forwarded" => jobs[j].fee # None
        /\ SendBurn(b, KindOf(j))
        /\ paidWith' = [paidWith EXCEPT ![b] = jobs[j].fee]
  BY DEF Sign
<1>2. /\ burnTx'[b].kind = KindOf(j)
      /\ \A c \in Burns \ {b} : burnTx'[c] = burnTx[c] /\ paidWith'[c] = paidWith[c]
      /\ paidWith'[b] = jobs[j].fee
      /\ ChainShapes'
  BY <1>1 DEF SendBurn, ChainShapes
<1>3. ASSUME Cross, Attempts, BurnsSecured
      PROVE  BurnsSecured'
  <2>1. Knows(jobs[j], ui, everHeld)
    BY <1>3 DEF Attempts
  <2> QED
    BY <1>1, <1>2, <1>3, <2>1 DEF BurnsSecured, Knows, At, KindOf
<1> QED
  BY <1>2, <1>3 DEF KindOf

\* The component's own steps, alone.
LEMMA PageStepKeeps ==
  ASSUME ClientShapes, PageStep, UNCHANGED everHeld
  PROVE  Kept
<1>1. ASSUME NEW j \in Jobs,
             \/ Start(j) \/ Fail(j) \/ Probed(j) \/ Approved(j) \/ FeeReceipt(j)
             \/ DirectReceipt(j) \/ BurnReceipt(j) \/ NotConsumed(j)
             \/ Forwarded(j) \/ Attested(j) \/ Resume(j) \/ Mint(j)
             \/ SignMint(j) \/ MintReceipt(j)
      PROVE  Kept
  BY <1>1, StartKeeps, FailKeeps, WaitKeeps, CompleteKeeps, ResumeKeeps
<1> QED
  BY <1>1, NetworkKeeps, ShownKeeps, LeaveKeeps DEF PageStep

LEMMA TransferNextInv ==
  ASSUME TransferInv, [TransferNext]_transferVars
  PROVE  TransferInv'
<1> USE DEF TransferInv
<1>1. ASSUME PageStep, UNCHANGED <<feeRecordsVars, everHeld, paidWith, page>>,
             overlapped' = (overlapped \/ Overlap')
      PROVE  TransferInv'
  <2>1. Kept
    BY <1>1, PageStepKeeps
  <2>2. ChainShapes' /\ (BurnsSecured => BurnsSecured')
    BY <1>1 DEF ChainShapes, BurnsSecured, feeRecordsVars, chainVars
  <2>3. ~overlapped' => ~overlapped /\ ~Overlap'
    BY <1>1, Zenon
  <2> QED
    BY <1>1, <2>1, <2>2, <2>3 DEF Kept, Cross, feeRecordsVars, chainVars
<1>2. ASSUME SignStep, UNCHANGED <<recordVars, everHeld, page>>,
             overlapped' = (overlapped \/ Overlap')
      PROVE  TransferInv'
  <2>1. PICK j \in Jobs : SignFee(j) \/ Sign(j)
    BY <1>2 DEF SignStep
  <2>2. Kept
    BY <1>2, <2>1, SignFeeKeeps, WaitKeeps
  <2>3. ~overlapped' => ~overlapped /\ ~Overlap'
    BY <1>2, Zenon
  <2>4. /\ ChainShapes'
        /\ Cross /\ Attempts /\ BurnsSecured => BurnsSecured'
        /\ ~Cross => \A b \in Burns : burnTx'[b].kind # "forwarded"
    <3>1. CASE Sign(j)
      BY <1>2, <3>1, SignSecures
    <3>2. CASE SignFee(j)
      BY <1>2, <3>2 DEF SignFee, SendFee, ChainShapes, BurnsSecured
    <3> QED
      BY <2>1, <3>1, <3>2
  <2> QED
    BY <1>2, <2>2, <2>3, <2>4 DEF Kept, Cross
<1>3. ASSUME ServerStep, everHeld' = everHeld \cup held',
             UNCHANGED <<chainVars, paidWith, page>>,
             overlapped' = (overlapped \/ Overlap')
      PROVE  TransferInv'
  <2>1. Kept
    BY <1>3, VerifiedKeeps, RegisteredKeeps, WaitKeeps DEF ServerStep
  <2>2. ChainShapes' /\ (BurnsSecured => BurnsSecured')
    BY <1>3 DEF ChainShapes, BurnsSecured, chainVars
  <2>3. ~overlapped' => ~overlapped /\ ~Overlap'
    BY <1>3, Zenon
  <2> QED
    BY <1>3, <2>1, <2>2, <2>3 DEF Kept, Cross, chainVars
<1>4. ASSUME UNCHANGED <<everHeld, clientVars, overlapped>>,
             \/ \E f \in Fees : MineFee(f)
             \/ \E b \in Burns : MineBurn(b)
             \/ UNCHANGED burnTx
      PROVE  TransferInv'
  <2>1. /\ ChainShapes' /\ \A b \in Burns : burnTx'[b].kind = burnTx[b].kind
        /\ UNCHANGED paidWith
    <3>1. UNCHANGED paidWith
      BY <1>4 DEF clientVars
    <3>2. ASSUME NEW b \in Burns, MineBurn(b)
          PROVE  /\ ChainShapes'
                 /\ \A c \in Burns : burnTx'[c].kind = burnTx[c].kind
      <4>1. PICK fate : burnTx' = [burnTx EXCEPT ![b].status = fate]
        BY <3>2 DEF MineBurn
      <4>2. /\ burnTx'[b] = [kind |-> burnTx[b].kind, status |-> fate]
            /\ \A c \in Burns \ {b} : burnTx'[c] = burnTx[c]
        BY <4>1 DEF ChainShapes
      <4> QED
        BY <3>1, <4>1, <4>2 DEF ChainShapes
    <3>3. CASE UNCHANGED burnTx
      BY <3>1, <3>3 DEF ChainShapes
    <3> QED
      BY <1>4, <3>1, <3>2, <3>3 DEF MineFee
  <2>2. ClientShapes' /\ (Attempts => Attempts') /\ Cross' = Cross
    BY <1>4 DEF ClientShapes, Attempts, FlagKnown, Overlap, Paying, Cross,
                clientVars
  <2>3. BurnsSecured => BurnsSecured'
    BY <1>4, <2>1 DEF BurnsSecured
  <2>4. ~overlapped' => ~overlapped
    BY <1>4
  <2> QED
    BY <2>1, <2>2, <2>3, <2>4
<1>5. CASE UNCHANGED transferVars
  BY <1>4, <1>5 DEF transferVars, feeRecordsVars, chainVars
<1> QED
  BY <1>1, <1>2, <1>3, <1>4, <1>5
  DEF TransferNext, Release, feeRecordsVars, chainVars

-----------------------------------------------------------------------------
(* What follows *)

\* No burn is signed for automatic forwarding before its fee has been on
\* record, unless two payments of one component overlapped: however attempts
\* fail, pages reload, networks change and the server lets records go.
THEOREM FeesSecuredBeforeBurn == TransferSpec => []FeeSecuredBeforeBurn
<1>1. TransferSpec => []TransferInv
  BY TransferInitInv, TransferNextInv, PTL DEF TransferSpec
<1>2. TransferInv => FeeSecuredBeforeBurn
  BY DEF TransferInv, FeeSecuredBeforeBurn, BurnsSecured
<1> QED
  BY <1>1, <1>2, PTL

-----------------------------------------------------------------------------
(* Types, and the checkpoints *)

\* What the component, its jobs and its checkpoints may hold, of the burns
\* whose hashes the page has received.
RightUis(seen) ==
  {view \in Ui : {view.burn, view.attested} \subseteq seen \cup {None}}

BurnSteps == {"receipt", "consume", "await", "switch", "mint", "mintReceipt"}

RightJobs(seen) ==
  {job \in Job :
     /\ job.burn \in seen \cup {None}
     /\ job.step \in BurnSteps => job.burn # None
     /\ job.step \in {"feeReceipt", "register"} => job.fee # None}

RightCheckpoints(seen) == {entry \in Checkpoint : entry.burn \in seen}

BrowserRight(seen) ==
  /\ pending \in Seq(RightCheckpoints(seen))
  /\ Len(pending) <= MaxPendingTransfers
  /\ released \subseteq seen

ClientRight(seen) ==
  /\ page \in Pages /\ wallet \in {"source", "destination"}
  /\ now \in 0 .. MaxTime
  /\ ui \in RightUis(seen) /\ jobs \in [Jobs -> RightJobs(seen)]
  /\ BrowserRight(seen)
  /\ unreported \subseteq seen

\* A checkpoint that goes is counted as let go.
LetGo ==
  Remembered(pending) \cup released \subseteq Remembered(pending') \cup released'

\* savePendingCctpTransfer and removePendingCctpTransfer as positions.
LivePositions ==
  {i \in DOMAIN pending : now - pending[i].updatedAt <= PendingTtl}

LEMMA LiveTyped ==
  ASSUME NEW seen, BrowserRight(seen)
  PROVE  LivePending \in Seq(RightCheckpoints(seen))
<1>1. /\ pending \in Seq(RightCheckpoints(seen))
      /\ LivePositions \subseteq DOMAIN pending
  BY DEF BrowserRight, LivePositions
<1>2. LivePending = KeepAt(pending, LivePositions)
  BY DEF LivePending, LivePositions
<1> QED
  BY <1>1, <1>2, KeptTyped

LEMMA WithoutTyped ==
  ASSUME NEW S, NEW entries \in Seq(S), NEW b
  PROVE  /\ WithoutBurn(entries, b) \in Seq(S)
         /\ Len(WithoutBurn(entries, b)) <= Len(entries)
<1> DEFINE others == {i \in DOMAIN entries : entries[i].burn # b}
<1>1. others \subseteq DOMAIN entries
  OBVIOUS
<1>2. WithoutBurn(entries, b) = KeepAt(entries, others)
  BY DEF WithoutBurn
<1> HIDE DEF others
<1> QED
  BY <1>1, <1>2, KeptTyped

LEMMA LiveShorter ==
  ASSUME NEW seen, BrowserRight(seen)
  PROVE  Len(LivePending) <= Len(pending)
<1>1. /\ pending \in Seq(RightCheckpoints(seen))
      /\ LivePositions \subseteq DOMAIN pending
  BY DEF BrowserRight, LivePositions
<1>2. LivePending = KeepAt(pending, LivePositions)
  BY DEF LivePending, LivePositions
<1> QED
  BY <1>1, <1>2, KeptTyped

\* savePendingCctpTransfer keeps to the limit and puts the burn it is given
\* first.
LEMMA SavedTyped ==
  ASSUME NEW seen, BrowserRight(seen), now \in 0 .. MaxTime,
         NEW b \in seen \cap Burns, NEW mode \in Modes,
         NEW fee \in Fees \cup {None}
  PROVE  /\ Saved(b, mode, fee) \in Seq(RightCheckpoints(seen))
         /\ Len(Saved(b, mode, fee)) <= MaxPendingTransfers
         /\ b \in Remembered(Saved(b, mode, fee))
<1> DEFINE before == {i \in DOMAIN LivePending : LivePending[i].burn = b}
           first == CHOOSE i \in before : \A j \in before : i <= j
           entry == IF before = {}
                    THEN [burn |-> b, mode |-> mode, fee |-> fee,
                          updatedAt |-> now]
                    ELSE [LivePending[first] EXCEPT !.updatedAt = now,
                            !.fee = IF fee = None THEN @ ELSE fee]
           rest == WithoutBurn(LivePending, b)
           entries == <<entry>> \o rest
<1>1. LivePending \in Seq(RightCheckpoints(seen)) /\ Len(LivePending) \in Nat
  BY LiveTyped
<1>2. before \subseteq 1 .. Len(LivePending)
  BY <1>1
<1>3. rest \in Seq(RightCheckpoints(seen))
  BY <1>1, WithoutTyped
<1>4. ASSUME before # {} PROVE first \in before
  <2>1. Positions(before)
    BY <1>1, <1>2, PositionsOf
  <2> HIDE DEF before
  <2>2. \E i \in before : \A j \in before : i <= j
    BY <1>4, <2>1, FirstPosition
  <2> QED
    BY <2>2
<1>5. entry \in RightCheckpoints(seen) /\ entry.burn = b
  <2>1. CASE before = {}
    BY <2>1 DEF RightCheckpoints, Checkpoint
  <2>2. CASE before # {}
    <3>1. LivePending[first] \in RightCheckpoints(seen)
      BY <1>1, <1>4, <2>2
    <3>2. LivePending[first].burn = b
      BY <1>4, <2>2
    <3>3. PICK old : old = LivePending[first]
      OBVIOUS
    <3> HIDE DEF first, before
    <3>4. entry = [old EXCEPT !.updatedAt = now,
                              !.fee = IF fee = None THEN @ ELSE fee]
      BY <2>2, <3>3
    <3> QED
      BY <3>1, <3>2, <3>3, <3>4 DEF RightCheckpoints, Checkpoint
  <2> QED
    BY <2>1, <2>2
<1>6. Saved(b, mode, fee) = IF Len(entries) > MaxPendingTransfers
                            THEN SubSeq(entries, 1, MaxPendingTransfers)
                            ELSE entries
  BY DEF Saved
<1> HIDE DEF before, first, entry, rest
<1>7. /\ entries \in Seq(RightCheckpoints(seen)) /\ Len(entries) = Len(rest) + 1
      /\ Len(rest) \in Nat /\ entries[1] = entry
  BY <1>3, <1>5
<1> HIDE DEF entries
<1>8. MaxPendingTransfers \in Nat \ {0}
  BY TransferAssumption
<1>9. PICK saved : saved = Saved(b, mode, fee)
  OBVIOUS
<1>10. /\ saved \in Seq(RightCheckpoints(seen))
       /\ Len(saved) <= MaxPendingTransfers /\ Len(saved) >= 1
       /\ saved[1] = entry
  BY <1>6, <1>7, <1>8, <1>9
<1>11. b \in Remembered(saved)
  BY <1>5, <1>10 DEF Remembered
<1> QED
  BY <1>9, <1>10, <1>11

LEMMA BurnsRemembered ==
  ASSUME NEW seen, NEW entries \in Seq(RightCheckpoints(seen))
  PROVE  Remembered(entries) \subseteq seen
BY DEF Remembered, RightCheckpoints

LEMMA BrowserKeeps ==
  ASSUME NEW seen, BrowserRight(seen), now \in 0 .. MaxTime,
         \/ KeepBrowser
         \/ \E b \in seen \cap Burns, mode \in Modes, fee \in Fees \cup {None} :
              RememberTransfer(b, mode, fee)
         \/ \E b \in Burns : DropTransfer(b)
  PROVE  BrowserRight(seen)' /\ LetGo
<1>1. CASE KeepBrowser
  BY <1>1 DEF KeepBrowser, BrowserRight, LetGo
<1>2. ASSUME NEW b \in seen \cap Burns, NEW mode \in Modes,
             NEW fee \in Fees \cup {None}, RememberTransfer(b, mode, fee)
      PROVE  BrowserRight(seen)' /\ LetGo
  <2>1. /\ pending' \in Seq(RightCheckpoints(seen))
        /\ Len(pending') <= MaxPendingTransfers
        /\ b \in Remembered(pending')
    BY <1>2, SavedTyped DEF RememberTransfer
  <2>2. Remembered(pending) \subseteq seen /\ released \subseteq seen
    BY BurnsRemembered DEF BrowserRight
  <2>3. released' = (released \ {b})
                      \cup (Remembered(pending) \ Remembered(pending'))
    BY <1>2 DEF RememberTransfer
  <2> QED
    BY <2>1, <2>2, <2>3 DEF BrowserRight, LetGo
<1>3. ASSUME NEW b \in Burns, DropTransfer(b)
      PROVE  BrowserRight(seen)' /\ LetGo
  <2>1. pending \in Seq(RightCheckpoints(seen)) /\ Len(pending) \in Nat
        /\ Len(pending) <= MaxPendingTransfers /\ MaxPendingTransfers \in Nat
    BY TransferAssumption DEF BrowserRight
  <2>2. LivePending \in Seq(RightCheckpoints(seen)) /\ Len(LivePending) \in Nat
        /\ Len(LivePending) <= Len(pending)
    BY LiveTyped, LiveShorter
  <2>3. PICK kept : kept = WithoutBurn(LivePending, b)
    OBVIOUS
  <2>4. kept \in Seq(RightCheckpoints(seen)) /\ Len(kept) <= Len(LivePending)
    BY <2>2, <2>3, WithoutTyped
  <2>5. Len(kept) \in Nat /\ Len(kept) <= MaxPendingTransfers
    BY <2>1, <2>2, <2>4
  <2>6. /\ pending' = kept
        /\ released' = released \cup (Remembered(pending) \ Remembered(kept))
    BY <1>3, <2>3 DEF DropTransfer
  <2>7. Remembered(pending) \subseteq seen /\ released \subseteq seen
    BY BurnsRemembered DEF BrowserRight
  <2> QED
    BY <2>4, <2>5, <2>6, <2>7 DEF BrowserRight, LetGo
<1> QED
  BY <1>1, <1>2, <1>3

-----------------------------------------------------------------------------
(* Every step of the page keeps to the types *)

StepRight(seen) ==
  /\ wallet' \in {"source", "destination"}
  /\ ui' \in RightUis(seen) /\ jobs' \in [Jobs -> RightJobs(seen)]
  /\ BrowserRight(seen)'
  /\ unreported' \subseteq seen
  /\ LetGo

LEMMA QuietBrowser ==
  ASSUME NEW seen, ClientRight(seen), KeepBrowser
  PROVE  BrowserRight(seen)' /\ LetGo
BY BrowserKeeps DEF ClientRight

LEMMA FreshRight ==
  ASSUME NEW seen, ClientRight(seen)
  PROVE  /\ MountedUi \in RightUis(seen) /\ UnmountedUi \in RightUis(seen)
         /\ NoJob \in RightJobs(seen)
<1>1. UnmountedUi \in RightUis(seen)
  BY DEF UnmountedUi, RightUis, Ui, Phases, Modes
<1>2. NoJob \in RightJobs(seen)
  BY DEF NoJob, RightJobs, Job, Steps, Modes, BurnSteps
<1>3. LockedMode \in Modes
  BY DEF LockedMode, Modes
<1>4. LivePending # <<>> => LivePending[1] \in RightCheckpoints(seen)
  BY LiveTyped DEF ClientRight
<1> DEFINE fresh == [mounted |-> TRUE, phase |-> "idle", mode |-> LockedMode,
                     burn |-> None, fee |-> None, recoveryReady |-> FALSE,
                     verifying |-> None, attested |-> None]
<1>5. fresh \in RightUis(seen)
  BY <1>3 DEF RightUis, Ui, Phases
<1>6. ASSUME NEW newest \in RightCheckpoints(seen)
      PROVE  [fresh EXCEPT !.burn = newest.burn, !.fee = newest.fee,
                           !.mode = newest.mode] \in RightUis(seen)
  BY <1>3, <1>6 DEF RightUis, Ui, Phases, RightCheckpoints, Checkpoint
<1>7. \/ MountedUi = fresh
      \/ /\ LivePending # <<>>
         /\ MountedUi = [fresh EXCEPT !.burn = LivePending[1].burn,
                                      !.fee = LivePending[1].fee,
                                      !.mode = LivePending[1].mode]
  BY DEF MountedUi
<1> QED
  BY <1>1, <1>2, <1>4, <1>5, <1>6, <1>7

\* A step of one job that shows something and keeps the browser as it is.
LEMMA JobRight ==
  ASSUME NEW seen, ClientRight(seen), NEW j \in Jobs,
         NEW job \in RightJobs(seen), Proceed(j, job), UNCHANGED wallet,
         ui' \in RightUis(seen), KeepBrowser, unreported' \subseteq seen
  PROVE  StepRight(seen)
<1>1. jobs' \in [Jobs -> RightJobs(seen)]
  BY DEF ClientRight, Proceed
<1> QED
  BY <1>1, QuietBrowser DEF StepRight, ClientRight

\* A job that goes on, to a step that needs no more than it has.
LEMMA OnwardRight ==
  ASSUME NEW seen, NEW job \in RightJobs(seen), NEW step \in Steps,
         step \in BurnSteps => job.step \in BurnSteps,
         step = "feeReceipt" => job.step = "feeReceipt",
         step = "register" => job.step = "feeReceipt"
  PROVE  [job EXCEPT !.step = step] \in RightJobs(seen)
BY DEF RightJobs, Job, BurnSteps

LEMMA WaitRight ==
  ASSUME NEW seen, ClientRight(seen), UNCHANGED unreported, NEW j \in Jobs,
         \/ Probed(j) \/ Approved(j) \/ FeeReceipt(j) \/ BurnReceipt(j)
         \/ Consumed(j) \/ NotConsumed(j) \/ SignMint(j)
  PROVE  StepRight(seen)
<1>1. jobs[j] \in RightJobs(seen) /\ ui \in RightUis(seen)
  BY DEF ClientRight
<1>2. /\ UNCHANGED wallet /\ KeepBrowser /\ unreported' \subseteq seen
  BY DEF Probed, Approved, FeeReceipt, BurnReceipt, Consumed, NotConsumed,
         SignMint, KeepPage, ClientRight
<1>3. ui' \in RightUis(seen)
  BY <1>1 DEF Probed, Approved, FeeReceipt, BurnReceipt, Consumed, NotConsumed,
         SignMint, KeepPage, View, RightUis, Ui, Phases
<1>4. PICK step \in Steps :
        /\ Proceed(j, Step(j, step))
        /\ step \in BurnSteps => jobs[j].step \in BurnSteps
        /\ step # "feeReceipt"
        /\ step = "register" => jobs[j].step = "feeReceipt"
  <2>1. CASE Probed(j)
    BY <2>1 DEF Probed, Steps, BurnSteps
  <2>2. CASE Approved(j)
    BY <2>2 DEF Approved, AfterApproval, Steps, BurnSteps
  <2>3. CASE FeeReceipt(j)
    BY <2>3 DEF FeeReceipt, At, Steps, BurnSteps
  <2>4. CASE BurnReceipt(j)
    <3>1. PICK step \in {"await", "consume"} : Proceed(j, Step(j, step))
      BY <2>4 DEF BurnReceipt
    <3> QED
      BY <2>4, <3>1 DEF BurnReceipt, SourceReceipt, At, Steps, BurnSteps
  <2>5. CASE Consumed(j) \/ NotConsumed(j) \/ SignMint(j)
    BY <2>5 DEF Consumed, NotConsumed, SignMint, At, Steps, BurnSteps
  <2> QED
    BY <2>1, <2>2, <2>3, <2>4, <2>5
<1>5. Step(j, step) \in RightJobs(seen)
  BY <1>1, <1>4, OnwardRight DEF Step
<1> QED
  BY <1>2, <1>3, <1>4, <1>5, JobRight

LEMMA StartRight ==
  ASSUME NEW seen, ClientRight(seen), NEW j \in Jobs, Start(j) \/ Mint(j)
  PROVE  StepRight(seen)
<1>1. ui \in RightUis(seen)
  BY DEF ClientRight
<1>2. /\ UNCHANGED wallet /\ KeepBrowser /\ unreported' \subseteq seen
  BY DEF Start, Mint, ClientRight
<1>3. ui' \in RightUis(seen)
  <2>1. CASE Start(j)
    <3>1. PICK phase \in Phases, fee \in {ui.fee, None} :
            ui' = [ui EXCEPT !.attested = None, !.fee = fee, !.phase = phase]
      BY <1>1, <2>1 DEF Start, RightUis, Ui, Phases
    <3> QED
      BY <1>1, <3>1 DEF RightUis, Ui
  <2>2. CASE Mint(j)
    BY <1>1, <2>2 DEF Mint, RightUis, Ui, Phases
  <2> QED
    BY <2>1, <2>2
<1>4. PICK job : Proceed(j, job) /\ job \in RightJobs(seen)
  <2>1. CASE Start(j)
    <3> DEFINE prepaid == Forwarding /\ ui.recoveryReady
               step == IF Forwarding /\ ~prepaid THEN "probe" ELSE "checking"
               job == [[NoJob EXCEPT !.step = step, !.mode = ui.mode,
                         !.prepaid = prepaid,
                         !.fee = IF prepaid THEN ui.fee ELSE None]
                         EXCEPT !.live = TRUE]
    <3>1. Proceed(j, job)
      BY <2>1 DEF Start, Started
    <3>2. prepaid \in BOOLEAN
      BY <1>1 DEF RightUis, Ui, Forwarding, Cross
    <3> HIDE DEF prepaid
    <3>3. job \in RightJobs(seen)
      BY <1>1, <3>2 DEF RightUis, Ui, NoJob, RightJobs, Job, Steps, BurnSteps
    <3> QED
      BY <3>1, <3>3
  <2>2. CASE Mint(j)
    <3> DEFINE job == [[NoJob EXCEPT !.step = "switch", !.burn = ui.attested]
                         EXCEPT !.live = TRUE]
    <3>1. Proceed(j, job) /\ ui.attested # None
      BY <2>2 DEF Mint, Started
    <3>2. job \in RightJobs(seen)
      BY <1>1, <3>1 DEF RightUis, Ui, NoJob, RightJobs, Job, Steps, BurnSteps,
                        Modes
    <3> QED
      BY <3>1, <3>2
  <2> QED
    BY <2>1, <2>2
<1> QED
  BY <1>2, <1>3, <1>4, JobRight

LEMMA FailRight ==
  ASSUME NEW seen, ClientRight(seen), NEW j \in Jobs, Fail(j) \/ Attested(j)
  PROVE  StepRight(seen)
<1>1. ui \in RightUis(seen) /\ jobs[j] \in RightJobs(seen)
  BY DEF ClientRight
<1>2. /\ UNCHANGED wallet /\ KeepBrowser /\ unreported' \subseteq seen
      /\ Proceed(j, NoJob)
  BY DEF Fail, Attested, ClientRight
<1>3. ui' \in RightUis(seen)
  <2>1. CASE Fail(j)
    <3>1. \/ ui' = ui
          \/ \E phase \in Phases : ui' = [ui EXCEPT !.phase = phase]
      BY <2>1 DEF Fail, View, Phases
    <3> QED
      BY <1>1, <3>1 DEF RightUis, Ui
  <2>2. CASE Attested(j)
    <3>1. PICK b \in (seen \cup {None}) \cap (Burns \cup {None}) :
            b = jobs[j].burn
      BY <1>1 DEF RightJobs, Job
    <3>2. PICK ready : ready = [ui EXCEPT !.attested = b, !.phase = "ready"]
      OBVIOUS
    <3>3. ready \in Ui /\ ready.burn = ui.burn /\ ready.attested = b
      BY <1>1, <3>1, <3>2 DEF RightUis, Ui, Phases
    <3>4. ready \in RightUis(seen)
      BY <1>1, <3>1, <3>3 DEF RightUis
    <3>5. ui' \in {ui, ready}
      BY <2>2, <3>1, <3>2 DEF Attested, View
    <3> QED
      BY <1>1, <3>4, <3>5
  <2> QED
    BY <2>1, <2>2
<1> QED
  BY <1>2, <1>3, FreshRight, JobRight

\* The checkpoint of a completed transfer goes, and its burn may be left
\* unreported.
LEMMA CompleteRight ==
  ASSUME NEW seen, ClientRight(seen), NEW j \in Jobs,
         DirectReceipt(j) \/ Forwarded(j) \/ MintReceipt(j)
  PROVE  StepRight(seen)
<1>1. ui \in RightUis(seen) /\ jobs[j] \in RightJobs(seen)
  BY DEF ClientRight
<1>2. Complete(j) /\ jobs[j].step \in BurnSteps
  BY DEF DirectReceipt, SourceReceipt, Forwarded, MintReceipt, At, BurnSteps
<1>3. jobs[j].burn \in seen
  BY <1>1, <1>2 DEF RightJobs
<1>4. ui' \in RightUis(seen)
  BY <1>1, <1>2 DEF Complete, RightUis, Ui, Phases
<1>5. unreported' \subseteq seen
  BY <1>2, <1>3 DEF Complete, ClientRight
<1>6. jobs' \in [Jobs -> RightJobs(seen)]
  BY <1>2, FreshRight DEF Complete, Proceed, ClientRight
<1>7. KeepBrowser \/ \E b \in Burns : DropTransfer(b)
  BY <1>1, <1>2 DEF Complete, RightUis, Ui
<1>8. BrowserRight(seen)' /\ LetGo
  BY <1>7, BrowserKeeps DEF ClientRight
<1> QED
  BY <1>2, <1>4, <1>5, <1>6, <1>8 DEF StepRight, Complete, ClientRight

LEMMA ResumeRight ==
  ASSUME NEW seen, ClientRight(seen), NEW j \in Jobs, Resume(j)
  PROVE  StepRight(seen)
<1>1. ui \in RightUis(seen) /\ ui.burn # None
  BY DEF ClientRight, Resume
<1>2. /\ ui.burn \in seen \cap Burns /\ ui.mode \in Modes
      /\ ui.fee \in Fees \cup {None}
  BY <1>1 DEF RightUis, Ui
<1> DEFINE job == [[NoJob EXCEPT !.step = "await", !.mode = ui.mode,
                                 !.burn = ui.burn] EXCEPT !.live = TRUE]
<1>3. Proceed(j, job)
  BY DEF Resume, Started
<1>4. job \in RightJobs(seen)
  BY <1>1, <1>2 DEF NoJob, RightJobs, Job, Steps, BurnSteps
<1> HIDE DEF job
<1>5. jobs' \in [Jobs -> RightJobs(seen)]
  BY <1>3, <1>4 DEF Proceed, ClientRight
<1>6. ui' \in RightUis(seen)
  BY <1>1 DEF Resume, RightUis, Ui, Phases
<1>7. RememberTransfer(ui.burn, ui.mode, ui.fee)
  BY DEF Resume
<1>8. \E b \in seen \cap Burns, mode \in Modes, fee \in Fees \cup {None} :
        RememberTransfer(b, mode, fee)
  BY <1>2, <1>7
<1>9. BrowserRight(seen)' /\ LetGo
  BY <1>8, BrowserKeeps DEF ClientRight
<1> QED
  BY <1>5, <1>6, <1>9 DEF StepRight, Resume, ClientRight

\* Steps of the payer that only change what the component shows.
LEMMA ShownRight ==
  ASSUME NEW seen, ClientRight(seen), Seen \subseteq seen,
         \/ \E b \in Burns : PasteBurn(b) \/ Forget(b)
         \/ \E f \in Fees : VerifyFee(f)
         \/ NotVerified
         \/ \E mode \in Modes : ChooseMode(mode)
  PROVE  StepRight(seen)
<1>1. ui \in RightUis(seen)
  BY DEF ClientRight
<1>2. UNCHANGED <<wallet, jobs, unreported>>
  BY DEF PasteBurn, Forget, VerifyFee, NotVerified, ChooseMode, KeepPage
<1>3. ui' \in RightUis(seen)
  <2>1. ASSUME NEW b \in Burns, PasteBurn(b)
        PROVE  ui' \in RightUis(seen)
    BY <1>1, <2>1 DEF PasteBurn, RightUis, Ui
  <2>2. ASSUME NEW f \in Fees, VerifyFee(f)
        PROVE  ui' \in RightUis(seen)
    <3>1. \E ready \in BOOLEAN :
            ui' = [ui EXCEPT !.verifying = f, !.recoveryReady = ready]
      BY <1>1, <2>2 DEF VerifyFee, RightUis, Ui
    <3> QED
      BY <1>1, <3>1 DEF RightUis, Ui
  <2>3. CASE NotVerified
    BY <1>1, <2>3 DEF NotVerified, RightUis, Ui
  <2>4. ASSUME NEW mode \in Modes, ChooseMode(mode)
        PROVE  ui' \in RightUis(seen)
    BY <1>1, <2>4 DEF ChooseMode, RightUis, Ui
  <2>5. ASSUME NEW b \in Burns, Forget(b)
        PROVE  ui' \in RightUis(seen)
    BY <1>1, <2>5 DEF Forget, KeepPage
  <2> QED
    BY <2>1, <2>2, <2>3, <2>4, <2>5
<1>4. KeepBrowser \/ \E b \in Burns : DropTransfer(b)
  BY DEF PasteBurn, Forget, VerifyFee, NotVerified, ChooseMode
<1>5. BrowserRight(seen)' /\ LetGo
  BY <1>4, BrowserKeeps DEF ClientRight
<1> QED
  BY <1>2, <1>3, <1>5 DEF StepRight, ClientRight

LEMMA LeftBehind ==
  ASSUME NEW seen, NEW job \in RightJobs(seen)
  PROVE  [job EXCEPT !.live = FALSE] \in RightJobs(seen)
BY DEF RightJobs, Job

LEMMA SwitchRight ==
  ASSUME NEW seen, ClientRight(seen), NEW network \in {"source", "destination"},
         NEW running \in [Jobs -> RightJobs(seen)],
         SwitchWallet(network, running), KeepBrowser, UNCHANGED unreported
  PROVE  StepRight(seen)
<1>1. jobs' \in [Jobs -> RightJobs(seen)]
  BY LeftBehind DEF SwitchWallet
<1>2. ui' \in RightUis(seen)
  BY FreshRight DEF SwitchWallet, ClientRight
<1> QED
  BY <1>1, <1>2, QuietBrowser DEF StepRight, SwitchWallet, ClientRight

LEMMA NetworkRight ==
  ASSUME NEW seen, ClientRight(seen), UNCHANGED unreported,
         \/ \E network \in {"source", "destination"} : PayerSwitches(network)
         \/ \E j \in Jobs : Checked(j) \/ MintSwitch(j)
  PROVE  StepRight(seen)
<1>1. ASSUME NEW network \in {"source", "destination"}, PayerSwitches(network)
      PROVE  StepRight(seen)
  BY <1>1, SwitchRight DEF PayerSwitches, ClientRight
<1>2. ASSUME NEW j \in Jobs, NEW step \in Steps,
             NEW network \in {"source", "destination"},
             SwitchWallet(network, [jobs EXCEPT ![j] = Step(j, step)]),
             KeepBrowser, step \in BurnSteps => jobs[j].step \in BurnSteps,
             step \notin {"feeReceipt", "register"}
      PROVE  StepRight(seen)
  <2>1. Step(j, step) \in RightJobs(seen)
    BY <1>2, OnwardRight DEF Step, ClientRight
  <2>2. [jobs EXCEPT ![j] = Step(j, step)] \in [Jobs -> RightJobs(seen)]
    BY <2>1 DEF ClientRight
  <2> QED
    BY <1>2, <2>2, SwitchRight
<1>3. ASSUME NEW j \in Jobs, Checked(j)
      PROVE  StepRight(seen)
  <2>1. PICK step \in {AfterApproval(j), "approving"} :
          SwitchWallet("source", [jobs EXCEPT ![j] = Step(j, step)])
    BY <1>3 DEF Checked
  <2>2. step \in {"payFee", "sign", "approving"}
    BY <2>1 DEF AfterApproval
  <2> QED
    BY <1>2, <1>3, <2>1, <2>2 DEF Checked, Steps, BurnSteps
<1>4. ASSUME NEW j \in Jobs, MintSwitch(j)
      PROVE  StepRight(seen)
  BY <1>2, <1>4 DEF MintSwitch, At, Steps, BurnSteps
<1> QED
  BY <1>1, <1>3, <1>4

LEMMA LeaveRight ==
  ASSUME NEW seen, ClientRight(seen), EditDetails \/ Reload
  PROVE  StepRight(seen)
<1>1. /\ KeepBrowser /\ UNCHANGED <<wallet, unreported>>
      /\ ui' = MountedUi \/ ui' = UnmountedUi
  BY DEF EditDetails, Reload
<1>2. jobs' \in [Jobs -> RightJobs(seen)]
  BY FreshRight, LeftBehind DEF EditDetails, Reload, ClientRight
<1> QED
  BY <1>1, <1>2, FreshRight, QuietBrowser DEF StepRight, ClientRight

LEMMA PageRight ==
  ASSUME NEW seen, ClientRight(seen), Seen \subseteq seen, PageStep
  PROVE  StepRight(seen)
<1>1. ASSUME NEW j \in Jobs,
             \/ Start(j) \/ Fail(j) \/ Probed(j) \/ Approved(j) \/ FeeReceipt(j)
             \/ DirectReceipt(j) \/ BurnReceipt(j) \/ NotConsumed(j)
             \/ Forwarded(j) \/ Attested(j) \/ Resume(j) \/ Mint(j)
             \/ SignMint(j) \/ MintReceipt(j)
      PROVE  StepRight(seen)
  <2>1. CASE \/ Probed(j) \/ Approved(j) \/ FeeReceipt(j) \/ BurnReceipt(j)
             \/ NotConsumed(j) \/ SignMint(j)
    BY <2>1, WaitRight
    DEF Probed, Approved, FeeReceipt, BurnReceipt, NotConsumed, SignMint
  <2> QED
    BY <1>1, <2>1, StartRight, FailRight, CompleteRight, ResumeRight
<1>2. ASSUME \/ \E network \in {"source", "destination"} : PayerSwitches(network)
             \/ \E j \in Jobs : Checked(j) \/ MintSwitch(j)
      PROVE  StepRight(seen)
  BY <1>2, NetworkRight DEF PayerSwitches, Checked, MintSwitch
<1> QED
  BY <1>1, <1>2, ShownRight, LeaveRight DEF PageStep

-----------------------------------------------------------------------------
(* The server, the chains and the clock *)

ServerRight ==
  /\ ChainTypeOK
  /\ held \subseteq Fees
  /\ tied \in [Fees -> Seen \cup {None}]

TransferRight == ServerRight /\ ClientRight(Seen) /\ CheckpointKept

\* What a page has received it has received.
LEMMA MoreSeen ==
  ASSUME NEW seen, NEW more, seen \subseteq more, ClientRight(seen)
  PROVE  ClientRight(more)
<1>1. /\ RightUis(seen) \subseteq RightUis(more)
      /\ RightJobs(seen) \subseteq RightJobs(more)
      /\ RightCheckpoints(seen) \subseteq RightCheckpoints(more)
  BY DEF RightUis, RightJobs, RightCheckpoints
<1>2. pending \in Seq(RightCheckpoints(more))
  BY <1>1 DEF ClientRight, BrowserRight
<1>3. jobs \in [Jobs -> RightJobs(more)]
  BY <1>1 DEF ClientRight
<1> QED
  BY <1>1, <1>2, <1>3 DEF ClientRight, BrowserRight

LEMMA ServerStepRight ==
  ASSUME TransferRight, ServerStep, UNCHANGED chainVars, NEW seen, seen = Seen
  PROVE  StepRight(seen) /\ ServerRight' /\ UNCHANGED Seen
<1>1. ui \in RightUis(seen) /\ ClientRight(seen) /\ ServerRight
  BY DEF TransferRight, ClientRight
<1>2. UNCHANGED Seen /\ ChainTypeOK'
  BY <1>1 DEF Seen, chainVars, ServerRight, ChainTypeOK
<1>3. ASSUME NEW j \in Jobs, Registered(j)
      PROVE  StepRight(seen) /\ ServerRight'
  <2>1. jobs[j] \in RightJobs(seen) /\ At(j, "register")
    BY <1>1, <1>3 DEF ClientRight, Registered
  <2>2. jobs[j].fee \in Fees
    BY <2>1 DEF RightJobs, Job, At
  <2>3. Step(j, "sign") \in RightJobs(seen)
    BY <2>1, OnwardRight DEF Step, Steps, BurnSteps
  <2>4. ui' \in RightUis(seen)
    BY <1>1, <1>3 DEF Registered, View, RightUis, Ui
  <2>5. StepRight(seen)
    BY <1>1, <1>3, <2>3, <2>4, JobRight DEF Registered, ClientRight
  <2>6. ServerRight'
    BY <1>1, <1>2, <1>3, <2>2 DEF Registered, Record, ServerRight
  <2> QED
    BY <2>5, <2>6
<1>4. ASSUME NEW j \in Jobs, Consumed(j)
      PROVE  StepRight(seen) /\ ServerRight'
  <2>1. jobs[j] \in RightJobs(seen) /\ At(j, "consume")
    BY <1>1, <1>4 DEF ClientRight, Consumed
  <2>2. jobs[j].burn \in seen
    BY <2>1 DEF RightJobs, BurnSteps, At
  <2>3. ServerRight'
    BY <1>1, <1>2, <1>4, <2>2 DEF Consumed, Tie, recordVars, ServerRight
  <2>4. StepRight(seen)
    BY <1>1, <1>4, WaitRight DEF Consumed
  <2> QED
    BY <2>3, <2>4
<1>5. CASE Verified
  <2>1. /\ ui.verifying \in Fees /\ KeepBrowser
        /\ UNCHANGED <<wallet, jobs, unreported, tied>>
        /\ held' = held \cup {ui.verifying}
    BY <1>1, <1>5 DEF Verified, Record, RightUis, Ui
  <2>2. PICK f \in Fees : f = ui.verifying
    BY <2>1
  <2>3. PICK b \in seen \cup {None} : b = tied[f]
    BY <1>1 DEF ServerRight
  <2>4. b \in Burns \cup {None}
    BY DEF Seen
  <2>5. \/ ui' = [[ui EXCEPT !.verifying = None, !.fee = f]
                    EXCEPT !.recoveryReady = TRUE]
        \/ ui' = [[ui EXCEPT !.verifying = None, !.fee = f]
                    EXCEPT !.burn = b, !.recoveryReady = FALSE]
    BY <1>5, <2>2, <2>3 DEF Verified
  <2>6. PICK ready : ready = [[ui EXCEPT !.verifying = None, !.fee = f]
                               EXCEPT !.recoveryReady = TRUE]
    OBVIOUS
  <2>7. PICK back : back = [[ui EXCEPT !.verifying = None, !.fee = f]
                              EXCEPT !.burn = b, !.recoveryReady = FALSE]
    OBVIOUS
  <2>8. ready \in RightUis(seen)
    BY <1>1, <2>6 DEF RightUis, Ui
  <2>9. /\ back \in Ui /\ back.burn = b /\ back.attested = ui.attested
    BY <1>1, <2>4, <2>7 DEF RightUis, Ui
  <2>10. back \in RightUis(seen)
    BY <1>1, <2>9 DEF RightUis
  <2>11. ui' \in RightUis(seen)
    BY <2>5, <2>6, <2>7, <2>8, <2>10
  <2>12. StepRight(seen)
    BY <1>1, <2>1, <2>11, QuietBrowser DEF StepRight, ClientRight
  <2> QED
    BY <1>1, <1>2, <2>1, <2>12 DEF ServerRight
<1> QED
  BY <1>2, <1>3, <1>4, <1>5 DEF ServerStep

\* The fee that is signed is shown, and its receipt awaited.
LEMMA SignFeeRight ==
  ASSUME TransferRight, NEW j \in Jobs, SignFee(j), UNCHANGED recordVars,
         NEW seen, seen = Seen
  PROVE  StepRight(seen) /\ ServerRight' /\ UNCHANGED Seen
<1>1. PICK f \in Fees :
        /\ SendFee(f)
        /\ View(j, [ui EXCEPT !.fee = f])
        /\ Proceed(j, [Step(j, "feeReceipt") EXCEPT !.fee = f])
        /\ KeepBrowser /\ UNCHANGED <<wallet, paidWith, unreported>>
  BY DEF SignFee
<1>2. /\ ClientRight(seen) /\ ui \in RightUis(seen)
      /\ jobs[j] \in RightJobs(seen) /\ f # None
  BY NoneAssumption DEF TransferRight, ClientRight
<1>3. PICK job : job = [Step(j, "feeReceipt") EXCEPT !.fee = f]
  OBVIOUS
<1>4. job \in RightJobs(seen)
  BY <1>2, <1>3 DEF Step, RightJobs, Job, Steps, BurnSteps
<1>5. ui' \in RightUis(seen)
  BY <1>1, <1>2 DEF View, RightUis, Ui
<1>6. StepRight(seen)
  BY <1>1, <1>2, <1>3, <1>4, <1>5, JobRight DEF ClientRight
<1>7. UNCHANGED Seen
  BY <1>1 DEF SendFee, Seen
<1>8. ServerRight'
  BY <1>1, <1>7 DEF TransferRight, ServerRight, SendFee, recordVars,
                    ChainTypeOK, Fates
<1> QED
  BY <1>6, <1>7, <1>8

\* The hash of a burn is kept in the browser by the step that signs it.
LEMMA SignRight ==
  ASSUME TransferRight, NEW j \in Jobs, Sign(j), UNCHANGED recordVars,
         NEW seen, seen = Seen, NEW more, more = Seen'
  PROVE  /\ ServerRight' /\ Seen \subseteq Seen' /\ StepRight(more)
         /\ Cross => Seen' \subseteq Seen \cup Remembered(pending')
<1>1. PICK b \in Burns :
        /\ SendBurn(b, KindOf(j))
        /\ Proceed(j, [Step(j, "receipt") EXCEPT !.burn = b])
        /\ IF Cross
           THEN /\ View(j, [ui EXCEPT !.burn = b])
                /\ RememberTransfer(b, jobs[j].mode, jobs[j].fee)
           ELSE UNCHANGED ui /\ KeepBrowser
        /\ UNCHANGED <<wallet, unreported>>
  BY DEF Sign
<1>2. jobs[j] \in RightJobs(seen) /\ ServerRight /\ ClientRight(seen)
  BY DEF TransferRight, ClientRight
<1>3. /\ jobs[j].mode \in Modes /\ jobs[j].fee \in Fees \cup {None}
  BY <1>2 DEF RightJobs, Job
<1>4. KindOf(j) \in Kinds
  BY <1>3 DEF KindOf, Kinds, Modes
<1>5. PICK signed : signed = [kind |-> KindOf(j), status |-> "sent"]
  OBVIOUS
<1>6. signed \in BurnTx /\ signed # UnsentBurn
  BY <1>4, <1>5 DEF BurnTx, Fates, UnsentBurn
<1>7. burnTx' = [burnTx EXCEPT ![b] = signed] /\ UNCHANGED feeTx
  BY <1>1, <1>5 DEF SendBurn
<1>8. ChainTypeOK' /\ Seen' = Seen \cup {b}
  BY <1>2, <1>6, <1>7 DEF ServerRight, ChainTypeOK, Seen
<1>9. ServerRight'
  BY <1>2, <1>8 DEF ServerRight, recordVars
<1>10. b \in more \cap Burns /\ b # None /\ seen \subseteq more
  BY <1>8, NoneAssumption
<1>11. ClientRight(more)
  BY <1>2, <1>10, MoreSeen
<1>12. PICK job : job = [Step(j, "receipt") EXCEPT !.burn = b]
  OBVIOUS
<1>13. job \in RightJobs(more)
  <2>1. jobs[j] \in RightJobs(more)
    BY <1>11 DEF ClientRight
  <2> QED
    BY <1>10, <1>12, <2>1 DEF Step, RightJobs, Job, Steps, BurnSteps
<1>14. jobs' \in [Jobs -> RightJobs(more)]
  BY <1>1, <1>11, <1>12, <1>13 DEF Proceed, ClientRight
<1>15. ui' \in RightUis(more)
  <2>1. ui \in RightUis(more)
    BY <1>11 DEF ClientRight
  <2>2. \/ ui' = ui
        \/ ui' = [ui EXCEPT !.burn = b]
    BY <1>1 DEF View
  <2> QED
    BY <1>10, <2>1, <2>2 DEF RightUis, Ui
<1>16. BrowserRight(more)' /\ LetGo
  BY <1>1, <1>3, <1>10, <1>11, BrowserKeeps DEF ClientRight
<1>17. StepRight(more)
  BY <1>1, <1>11, <1>14, <1>15, <1>16 DEF StepRight, ClientRight
<1>18. Cross => b \in Remembered(pending')
  BY <1>1, <1>3, <1>10, <1>11, SavedTyped DEF RememberTransfer, ClientRight
<1> QED
  BY <1>8, <1>9, <1>17, <1>18

LEMMA TransferRightInit == TransferInit => TransferRight
<1> SUFFICES ASSUME TransferInit PROVE TransferRight
  OBVIOUS
<1>1. ServerRight /\ Seen = {}
  BY DEF TransferInit, FeeRecordsInit, ChainInit, RecordsInit, ServerRight,
         ChainTypeOK, Seen, UnsentBurn, BurnTx, Kinds, Fates
<1>2. now \in 0 .. MaxTime /\ MaxPendingTransfers \in Nat
  BY TimeAssumption, TransferAssumption DEF TransferInit
<1>3. PICK seen : seen = Seen
  OBVIOUS
<1>4. BrowserRight(seen) /\ Remembered(pending) = {}
  BY <1>2 DEF TransferInit, BrowserRight, Remembered
<1>5. UnmountedUi \in RightUis(seen) /\ NoJob \in RightJobs(seen)
  <2>1. UnmountedUi \in RightUis(seen)
    BY DEF UnmountedUi, RightUis, Ui, Phases, Modes
  <2>2. NoJob \in RightJobs(seen)
    BY DEF NoJob, RightJobs, Job, Steps, Modes, BurnSteps
  <2> QED
    BY <2>1, <2>2
<1>6. MountedUi \in RightUis(seen)
  <2>1. LivePending = <<>>
    <3>1. LivePositions = {} /\ LivePending = KeepAt(pending, LivePositions)
      BY DEF TransferInit, LivePositions, LivePending
    <3>2. KeepAt(pending, {}) = <<>>
      BY FS_EmptySet DEF KeepAt
    <3> QED
      BY <3>1, <3>2
  <2>2. LockedMode \in Modes
    BY DEF LockedMode, Modes
  <2> QED
    BY <2>1, <2>2 DEF MountedUi, RightUis, Ui, Phases
<1>7. ClientRight(seen)
  BY <1>2, <1>4, <1>5, <1>6 DEF TransferInit, ClientRight
<1>8. CheckpointKept
  BY <1>1 DEF CheckpointKept
<1> QED
  BY <1>1, <1>3, <1>7, <1>8 DEF TransferRight

\* The page and the clock stand while the page, the payer or the server acts.
LEMMA ClientRightAfter ==
  ASSUME TransferRight, NEW seen, StepRight(seen), UNCHANGED <<now, page>>
  PROVE  ClientRight(seen)'
BY DEF TransferRight, ClientRight, StepRight

LEMMA TransferRightNext ==
  ASSUME TransferRight, [TransferNext]_transferVars
  PROVE  TransferRight'
<1>1. PICK seen : seen = Seen
  OBVIOUS
<1>2. ClientRight(seen) /\ ServerRight /\ CheckpointKept
  BY <1>1 DEF TransferRight
<1>3. ASSUME PageStep, UNCHANGED <<feeRecordsVars, now, page>>
      PROVE  TransferRight'
  <2>1. StepRight(seen) /\ UNCHANGED Seen /\ ServerRight'
    BY <1>1, <1>2, <1>3, PageRight
    DEF feeRecordsVars, chainVars, recordVars, Seen, ServerRight, ChainTypeOK
  <2>2. ClientRight(seen)'
    BY <1>3, <2>1, ClientRightAfter
  <2>3. CheckpointKept'
    BY <1>2, <1>3, <2>1 DEF CheckpointKept, StepRight, LetGo, Cross
  <2> QED
    BY <1>1, <2>1, <2>2, <2>3 DEF TransferRight
<1>4. ASSUME SignStep, UNCHANGED <<recordVars, now, page>>
      PROVE  TransferRight'
  <2>1. PICK j \in Jobs : SignFee(j) \/ Sign(j)
    BY <1>4 DEF SignStep
  <2>2. CASE SignFee(j)
    <3>1. StepRight(seen) /\ UNCHANGED Seen /\ ServerRight'
      BY <1>1, <1>4, <2>2, SignFeeRight
    <3>2. ClientRight(seen)'
      BY <1>4, <3>1, ClientRightAfter
    <3>3. CheckpointKept'
      BY <1>2, <1>4, <3>1 DEF CheckpointKept, StepRight, LetGo, Cross
    <3> QED
      BY <1>1, <3>1, <3>2, <3>3 DEF TransferRight
  <2>3. CASE Sign(j)
    <3>1. PICK more : more = Seen'
      OBVIOUS
    <3>2. /\ StepRight(more) /\ ServerRight'
          /\ Cross => Seen' \subseteq Seen \cup Remembered(pending')
      BY <1>1, <1>4, <2>3, <3>1, SignRight
    <3>3. ClientRight(more)'
      BY <1>4, <3>2, ClientRightAfter
    <3>4. CheckpointKept'
      BY <1>2, <1>4, <3>2 DEF CheckpointKept, StepRight, LetGo, Cross
    <3> QED
      BY <3>1, <3>2, <3>3, <3>4 DEF TransferRight
  <2> QED
    BY <2>1, <2>2, <2>3
<1>5. ASSUME ServerStep, UNCHANGED <<chainVars, now, page>>
      PROVE  TransferRight'
  <2>1. StepRight(seen) /\ UNCHANGED Seen /\ ServerRight'
    BY <1>1, <1>5, ServerStepRight
  <2>2. ClientRight(seen)'
    BY <1>5, <2>1, ClientRightAfter
  <2>3. CheckpointKept'
    BY <1>2, <1>5, <2>1 DEF CheckpointKept, StepRight, LetGo, Cross
  <2> QED
    BY <1>1, <2>1, <2>2, <2>3 DEF TransferRight
<1>6. ASSUME UNCHANGED clientVars, UNCHANGED Seen, ServerRight',
             now' \in 0 .. MaxTime
      PROVE  TransferRight'
  <2>1. ClientRight(seen)'
    BY <1>2, <1>6 DEF clientVars, ClientRight, BrowserRight
  <2>2. CheckpointKept'
    BY <1>2, <1>6 DEF clientVars, CheckpointKept, Cross, Remembered
  <2> QED
    BY <1>1, <1>6, <2>1, <2>2 DEF TransferRight
<1>7. now \in 0 .. MaxTime
  BY <1>2 DEF ClientRight
<1>8. ASSUME UNCHANGED <<now, recordVars, clientVars>>,
             (\E f \in Fees : MineFee(f)) \/ \E b \in Burns : MineBurn(b)
      PROVE  TransferRight'
  <2>1. CASE \E f \in Fees : MineFee(f)
    <3>1. UNCHANGED Seen
      BY <2>1 DEF MineFee, Seen
    <3>2. ServerRight'
      BY <1>2, <1>8, <2>1, <3>1 DEF MineFee, ServerRight, ChainTypeOK, Fates,
                                    recordVars
    <3> QED
      BY <1>6, <1>7, <1>8, <3>1, <3>2
  <2>2. CASE \E b \in Burns : MineBurn(b)
    <3>1. PICK b \in Burns : MineBurn(b)
      BY <2>2
    <3>2. PICK fate \in {"success", "reverted"} :
            burnTx' = [burnTx EXCEPT ![b].status = fate]
      BY <3>1 DEF MineBurn
    <3>3. PICK mined : mined = [burnTx[b] EXCEPT !.status = fate]
      OBVIOUS
    <3>4. burnTx[b] \in BurnTx /\ burnTx[b].status = "sent"
      BY <1>2, <3>1 DEF ServerRight, ChainTypeOK, MineBurn
    <3>5. mined \in BurnTx /\ mined # UnsentBurn /\ burnTx[b] # UnsentBurn
      BY <3>2, <3>3, <3>4 DEF BurnTx, Fates, UnsentBurn
    <3>6. burnTx' = [burnTx EXCEPT ![b] = mined] /\ UNCHANGED feeTx
      BY <3>1, <3>2, <3>3 DEF MineBurn
    <3>7. UNCHANGED Seen /\ ChainTypeOK'
      BY <1>2, <3>5, <3>6 DEF ServerRight, ChainTypeOK, Seen
    <3>8. ServerRight'
      BY <1>2, <1>8, <3>7 DEF ServerRight, recordVars
    <3> QED
      BY <1>6, <1>7, <1>8, <3>7, <3>8
  <2> QED
    BY <1>8, <2>1, <2>2
<1>9. ASSUME UNCHANGED <<now, chainVars, clientVars>>,
             \E f \in held : Release({f})
      PROVE  TransferRight'
  <2>1. UNCHANGED Seen
    BY <1>9 DEF chainVars, Seen
  <2>2. ServerRight'
    BY <1>2, <1>9, <2>1 DEF Release, ServerRight, ChainTypeOK, chainVars
  <2> QED
    BY <1>6, <1>7, <1>9, <2>1, <2>2
<1>10. ASSUME UNCHANGED <<feeRecordsVars, clientVars>>, ClockTick
       PROVE  TransferRight'
  <2>1. UNCHANGED Seen /\ ServerRight'
    BY <1>2, <1>10
    DEF feeRecordsVars, chainVars, recordVars, Seen, ServerRight, ChainTypeOK
  <2>2. now' \in 0 .. MaxTime
    BY <1>7, <1>10, TimeAssumption DEF ClockTick
  <2> QED
    BY <1>6, <1>10, <2>1, <2>2
<1>11. CASE UNCHANGED transferVars
  <2>1. UNCHANGED <<feeRecordsVars, clientVars, now>>
    BY <1>11 DEF transferVars
  <2>2. UNCHANGED Seen /\ ServerRight'
    BY <1>2, <2>1
    DEF feeRecordsVars, chainVars, recordVars, Seen, ServerRight, ChainTypeOK
  <2> QED
    BY <1>6, <1>7, <2>1, <2>2
<1> QED
  BY <1>3, <1>4, <1>5, <1>8, <1>9, <1>10, <1>11 DEF TransferNext

LEMMA TransferRightAlways == TransferSpec => []TransferRight
BY TransferRightInit, TransferRightNext, PTL DEF TransferSpec

\* The component, its jobs and the browser's checkpoints keep values of their
\* types, the checkpoints keep to their limit, and nothing refers to a burn
\* whose hash the page has not received.
THEOREM TransferTyped == TransferSpec => []TransferTypeOK
<1>1. TransferRight => TransferTypeOK
  <2> SUFFICES ASSUME TransferRight PROVE TransferTypeOK
    OBVIOUS
  <2>1. PICK seen : seen = Seen
    OBVIOUS
  <2>2. ClientRight(seen) /\ ServerRight /\ seen \subseteq Burns
    BY <2>1 DEF TransferRight, Seen
  <2>3. tied \in [Fees -> Burns \cup {None}]
    BY <2>1, <2>2 DEF ServerRight
  <2>4. ui \in Ui /\ jobs \in [Jobs -> Job]
    BY <2>2 DEF ClientRight, RightUis, RightJobs
  <2>5. pending \in Seq(RightCheckpoints(seen))
    BY <2>2 DEF ClientRight, BrowserRight
  <2>6. Remembered(pending) \subseteq seen
    BY <2>5, BurnsRemembered
  <2>7. \A i \in DOMAIN pending : pending[i] \in Checkpoint
    BY <2>5 DEF RightCheckpoints
  <2> QED
    BY <2>1, <2>2, <2>3, <2>4, <2>6, <2>7
    DEF TransferTypeOK, ServerRight, ClientRight, BrowserRight
<1> QED
  BY <1>1, TransferRightAlways, PTL

\* A burn whose hash a page has received can be resumed from this browser
\* until its checkpoint is let go by a completed transfer, by the payer, by age
\* or by the limit: savePendingCctpTransfer runs before the receipt is awaited,
\* and no failure, reload, remounting or change of network takes it back.
THEOREM CheckpointsKept == TransferSpec => []CheckpointKept
<1>1. TransferRight => CheckpointKept
  BY DEF TransferRight
<1> QED
  BY <1>1, TransferRightAlways, PTL

-----------------------------------------------------------------------------
(* What the browser asks of the server *)

LEMMA TransferStepsRecords ==
  ASSUME TransferRight, [TransferNext]_transferVars
  PROVE  [FeeRecordsNext]_feeRecordsVars
<1>1. \A j \in Jobs : jobs[j] \in RightJobs(Seen)
  BY DEF TransferRight, ClientRight
<1>2. CASE UNCHANGED feeRecordsVars
  BY <1>2
<1>3. ASSUME NEW f \in Fees, SendFee(f) \/ MineFee(f), UNCHANGED recordVars
      PROVE  FeeRecordsNext
  BY <1>3 DEF FeeRecordsNext, ChainStep
<1>4. ASSUME NEW b \in Burns, MineBurn(b), UNCHANGED recordVars
      PROVE  FeeRecordsNext
  BY <1>4 DEF FeeRecordsNext, ChainStep
<1>5. ASSUME NEW j \in Jobs, Sign(j), UNCHANGED recordVars
      PROVE  FeeRecordsNext
  <2>1. PICK b \in Burns : SendBurn(b, KindOf(j))
    BY <1>5 DEF Sign
  <2>2. jobs[j].mode \in Modes
    BY <1>1 DEF RightJobs, Job
  <2>3. KindOf(j) \in Kinds \ {"none"}
    BY <2>2 DEF KindOf, Modes, Kinds
  <2> QED
    BY <1>5, <2>1, <2>3 DEF FeeRecordsNext, ChainStep
<1>6. ASSUME NEW f \in Fees, Record(f), UNCHANGED chainVars
      PROVE  FeeRecordsNext
  BY <1>6 DEF FeeRecordsNext
<1>7. ASSUME NEW j \in Jobs, Registered(j), UNCHANGED chainVars
      PROVE  FeeRecordsNext
  <2>1. jobs[j].fee \in Fees
    BY <1>1, <1>7 DEF Registered, At, RightJobs, Job
  <2> QED
    BY <1>6, <1>7, <2>1 DEF Registered
<1>8. ASSUME NEW j \in Jobs, Consumed(j), UNCHANGED chainVars
      PROVE  [FeeRecordsNext]_feeRecordsVars
  <2>1. CASE UNCHANGED recordVars
    BY <1>8, <2>1 DEF feeRecordsVars
  <2>2. CASE Tie(jobs[j].fee, jobs[j].burn)
    <3>1. /\ jobs[j].fee \in Fees
          /\ jobs[j].burn \in Burns
      BY <1>1, <1>8, <2>2
      DEF Consumed, Tie, At, TransferRight, ServerRight, RightJobs, Job,
          BurnSteps
    <3> QED
      BY <1>8, <2>2, <3>1 DEF FeeRecordsNext
  <2> QED
    BY <1>8, <2>1, <2>2 DEF Consumed
<1>9. ASSUME Verified, UNCHANGED chainVars
      PROVE  FeeRecordsNext
  <2>1. ui.verifying \in Fees
    BY <1>9 DEF Verified, TransferRight, ClientRight, RightUis, Ui
  <2> QED
    BY <1>6, <1>9, <2>1 DEF Verified
<1>10. ASSUME NEW f \in held, Release({f}), UNCHANGED chainVars
       PROVE  FeeRecordsNext
  BY <1>10 DEF FeeRecordsNext
<1>11. CASE SignStep /\ UNCHANGED recordVars
  BY <1>3, <1>5, <1>11 DEF SignStep, SignFee
<1>12. CASE ServerStep /\ UNCHANGED chainVars
  BY <1>7, <1>8, <1>9, <1>12 DEF ServerStep
<1>13. CASE UNCHANGED transferVars
  BY <1>2, <1>13 DEF transferVars
<1> QED
  BY <1>2, <1>3, <1>4, <1>10, <1>11, <1>12, <1>13 DEF TransferNext

\* Whatever the component, its jobs and the payer do, the chains and the
\* server's records move only as FeeRecords promises, to which the handlers
\* of ForwardingRecovery keep.
THEOREM TransferKeepsRecords == TransferSpec => FeeRecordsSpec
<1>1. TransferInit => FeeRecordsInit
  BY DEF TransferInit
<1>2. TransferRight /\ [TransferNext]_transferVars
        => [FeeRecordsNext]_feeRecordsVars
  BY TransferStepsRecords
<1> QED
  BY <1>1, <1>2, TransferRightAlways, PTL DEF TransferSpec, FeeRecordsSpec
=============================================================================
