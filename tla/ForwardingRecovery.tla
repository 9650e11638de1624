-------------------------- MODULE ForwardingRecovery --------------------------
(***************************************************************************)
(* The server's record of forwarding fees already paid:                    *)
(*                                                                         *)
(*   frontend/lib/forwardingRecoveryStore.ts           the tables          *)
(*   frontend/app/api/cctp/forwarding-recovery/route.ts  its two actions   *)
(*                                                                         *)
(* A payer of automatic forwarding pays the XDCID fee and burns USDC in    *)
(* two transactions.  "register" records the first, "consume" ties the     *)
(* second to it.  A step is one database statement, so requests interleave *)
(* between statements and may die between them.  Receipts are final and    *)
(* are read in the step that uses them.  Every request is about the same   *)
(* payment, so that a record always matches it; the terms are left out.    *)
(***************************************************************************)
EXTENDS Clock, UsdcChain, FiniteSets

CONSTANTS
  Handlers,     \* requests the server handles at a time (a bound)
  RecoveryTtl,  \* FORWARDING_RECOVERY_TTL_SECONDS, in ticks
  None

Answers == {"available", "used", "refused"}

ASSUME RecoveryAssumption ==
  RecoveryTtl \in Nat /\ None \notin Fees \cup Burns \cup Nat \cup Answers

VARIABLES
  recoveries,   \* forwarding_recoveries: when each fee was recorded
  used,         \* forwarding_recovery_burns: the burn a fee was used with
  ledger,       \* forwarding_fee_events
  requests,     \* the requests being handled
  tiedBefore,   \* history: requests that came when their fee was tied, as it
                \*   has been ever since
  everUsed      \* history: the burns each fee was ever recorded with

tables == <<recoveries, used, ledger>>
recoveryVars == <<now, chainVars, tables, requests, tiedBefore, everUsed>>

-----------------------------------------------------------------------------
(* Requests *)

Stages == {"idle", "verify", "readUse", "sweep", "insert", "event", "reread",
           "find", "mark", "compare", "note", "answer"}
Request == [stage : Stages, fee : Fees \cup {None}, burn : Burns \cup {None},
            created : BOOLEAN, answer : Answers \cup {None}]
Idle == [stage |-> "idle", fee |-> None, burn |-> None, created |-> FALSE,
         answer |-> None]

At(h, stage) == requests[h].stage = stage
Goto(h, stage) == requests' = [requests EXCEPT ![h].stage = stage]
Answer(h, answer) ==
  requests' = [requests EXCEPT ![h].stage = "answer", ![h].answer = answer]

Post(h, stage, f, b) ==
  /\ requests[h] = Idle
  /\ requests' = [requests EXCEPT ![h] =
       [Idle EXCEPT !.stage = stage, !.fee = f, !.burn = b]]
  /\ tiedBefore' = tiedBefore \cup (IF used[f] = None THEN {} ELSE {h})
  /\ UNCHANGED <<tables, everUsed>>

PostRegister(h, f) == Post(h, "verify", f, None)
PostConsume(h, f, b) == Post(h, "find", f, b)

\* The answer is sent; or the handler throws, or its process dies, and what
\* its statements wrote stays.
Return(h) ==
  /\ requests[h] # Idle
  /\ requests' = [requests EXCEPT ![h] = Idle]
  /\ tiedBefore' = tiedBefore \ {h}
  /\ UNCHANGED <<tables, everUsed>>

-----------------------------------------------------------------------------
(* The tables *)

\* getForwardingRecoveryRecord: a record whose term has not ended.
RecordOf(f) == recoveries[f] # None /\ recoveries[f] + RecoveryTtl > now

Expired(f) == recoveries[f] # None /\ recoveries[f] + RecoveryTtl < now

\* removeExpiredForwardingRecoveryData: the delete cascades to the burns.
RemoveExpired ==
  /\ recoveries' = [f \in Fees |-> IF Expired(f) THEN None ELSE recoveries[f]]
  /\ used' = [f \in Fees |-> IF Expired(f) THEN None ELSE used[f]]
  /\ tiedBefore' = {h \in tiedBefore : ~Expired(requests[h].fee)}
  /\ UNCHANGED <<ledger, everUsed>>

\* createSchema, once per process: fees without a ledger entry get one.
Backfill ==
  /\ ledger' = [f \in Fees |->
       IF ledger[f] # "none" \/ recoveries[f] = None THEN ledger[f]
       ELSE IF used[f] = None THEN "verified" ELSE "burned"]
  /\ UNCHANGED <<recoveries, used, tiedBefore, everUsed, requests>>

OnlyRequests == UNCHANGED <<tables, tiedBefore, everUsed>>

-----------------------------------------------------------------------------
(* registerRecovery *)

\* The receipt is verified, then a record is looked for.
RegisterVerify(h) ==
  LET f == requests[h].fee IN
  /\ At(h, "verify")
  /\ IF ~FeeVerified(f) THEN Answer(h, "refused")
     ELSE Goto(h, IF RecordOf(f) THEN "readUse" ELSE "sweep")
  /\ OnlyRequests

\* An answer that does not look at the burns.
RegisterReadRecord(h) ==
  At(h, "readUse") /\ Answer(h, "available") /\ OnlyRequests

RegisterReadUse(h) ==
  /\ At(h, "readUse")
  /\ Answer(h, IF used[requests[h].fee] # None THEN "used" ELSE "available")
  /\ OnlyRequests

\* createForwardingRecoveryRecord: sweep, insert, enter in the ledger.
RegisterSweep(h) ==
  At(h, "sweep") /\ RemoveExpired /\ Goto(h, "insert")

RegisterInsert(h) ==
  LET f == requests[h].fee IN
  /\ At(h, "insert")
  /\ recoveries' = [recoveries EXCEPT ![f] = IF @ = None THEN now ELSE @]
  /\ requests' = [requests EXCEPT ![h].stage = "event",
                                  ![h].created = recoveries[f] = None]
  /\ UNCHANGED <<used, ledger, tiedBefore, everUsed>>

\* The ledger keeps the first entry of a fee (ON CONFLICT DO NOTHING).
RegisterEvent(h) ==
  /\ At(h, "event")
  /\ ledger' = [ledger EXCEPT ![requests[h].fee] =
                  IF @ = "none" THEN "verified" ELSE @]
  /\ IF requests[h].created THEN Answer(h, "available") ELSE Goto(h, "reread")
  /\ UNCHANGED <<recoveries, used, tiedBefore, everUsed>>

RegisterReread(h) ==
  /\ At(h, "reread")
  /\ Answer(h, IF RecordOf(requests[h].fee) THEN "available" ELSE "refused")
  /\ OnlyRequests

-----------------------------------------------------------------------------
(* consumeRecovery *)

\* The record, then the burn on chain.
ConsumeFind(h) ==
  /\ At(h, "find")
  /\ IF RecordOf(requests[h].fee) /\ BurnVerified(requests[h].burn)
     THEN Goto(h, "mark") ELSE Answer(h, "refused")
  /\ OnlyRequests

\* A burn that only has to be free.
ConsumeMarkReplacing(h) ==
  LET f == requests[h].fee
      b == requests[h].burn
  IN
  /\ At(h, "mark")
  /\ IF \E g \in Fees : used[g] = b THEN Goto(h, "compare") /\ OnlyRequests
     ELSE IF recoveries[f] = None THEN Answer(h, "refused") /\ OnlyRequests
     ELSE /\ used' = [used EXCEPT ![f] = b]
          /\ everUsed' = [everUsed EXCEPT ![f] = @ \cup {b}]
          /\ Goto(h, "note")
          /\ UNCHANGED <<recoveries, ledger, tiedBefore>>

\* The burn row refers to its recovery, is the only one of its fee and the
\* only one of its burn.
ConsumeMark(h) ==
  LET f == requests[h].fee
      b == requests[h].burn
  IN
  /\ At(h, "mark")
  /\ IF used[f] # None \/ \E g \in Fees : used[g] = b
     THEN Goto(h, "compare") /\ OnlyRequests
     ELSE IF recoveries[f] = None THEN Answer(h, "refused") /\ OnlyRequests
     ELSE /\ used' = [used EXCEPT ![f] = b]
          /\ everUsed' = [everUsed EXCEPT ![f] = @ \cup {b}]
          /\ Goto(h, "note")
          /\ UNCHANGED <<recoveries, ledger, tiedBefore>>

\* A comparison left out: any conflict is noted as a use.
ConsumeCompareNot(h) == At(h, "compare") /\ Goto(h, "note") /\ OnlyRequests

ConsumeCompare(h) ==
  /\ At(h, "compare")
  /\ IF used[requests[h].fee] = requests[h].burn
     THEN Goto(h, "note") ELSE Answer(h, "refused")
  /\ OnlyRequests

ConsumeNote(h) ==
  /\ At(h, "note")
  /\ ledger' = [ledger EXCEPT ![requests[h].fee] =
                  IF @ = "none" THEN @ ELSE "burned"]
  /\ Answer(h, "used")
  /\ UNCHANGED <<recoveries, used, tiedBefore, everUsed>>

-----------------------------------------------------------------------------
(* The service *)

RecoveryInit ==
  /\ now = 0
  /\ ChainInit
  /\ recoveries = [f \in Fees |-> None]
  /\ used = [f \in Fees |-> None]
  /\ ledger = [f \in Fees |-> "none"]
  /\ requests = [h \in Handlers |-> Idle]
  /\ tiedBefore = {}
  /\ everUsed = [f \in Fees |-> {}]

HandlerStep(h) ==
  \/ \E f \in Fees : PostRegister(h, f) \/ \E b \in Burns : PostConsume(h, f, b)
  \/ RegisterVerify(h) \/ RegisterReadUse(h) \/ RegisterSweep(h)
  \/ RegisterInsert(h) \/ RegisterEvent(h) \/ RegisterReread(h)
  \/ ConsumeFind(h) \/ ConsumeMark(h) \/ ConsumeCompare(h) \/ ConsumeNote(h)
  \/ Return(h)

RecoveryNext ==
  \/ /\ \/ \E h \in Handlers : HandlerStep(h)
        \/ RemoveExpired /\ UNCHANGED requests
        \/ Backfill
     /\ UNCHANGED <<now, chainVars>>
  \/ /\ \/ \E f \in Fees : SendFee(f) \/ MineFee(f)
        \/ \E b \in Burns :
             \/ \E kind \in {"standard", "forwarded"} : SendBurn(b, kind)
             \/ MineBurn(b)
     /\ UNCHANGED <<now, tables, requests, tiedBefore, everUsed>>
  \/ /\ ClockTick
     /\ UNCHANGED <<chainVars, tables, requests, tiedBefore, everUsed>>

RecoverySpec == RecoveryInit /\ [][RecoveryNext]_recoveryVars

-----------------------------------------------------------------------------
(* Properties *)

\* The tables and the requests hold values of their types.
RecoveryTypeOK ==
  /\ ChainTypeOK
  /\ recoveries \in [Fees -> 0..MaxTime \cup {None}]
  /\ used \in [Fees -> Burns \cup {None}]
  /\ ledger \in [Fees -> {"none", "verified", "burned"}]
  /\ requests \in [Handlers -> Request]
  /\ tiedBefore \subseteq Handlers
  /\ everUsed \in [Fees -> SUBSET Burns]

\* However its requests interleave and die, the service keeps the promises of
\* FeeRecords: every statement is one of its steps or changes nothing there.
Records == INSTANCE FeeRecords WITH
  held <- {f \in Fees : recoveries[f] # None}, tied <- used
KeepsFeeRecords == Records!FeeRecordsSpec

\* A payer who asks for a fee that is tied to a burn is never told that the
\* fee may be used, unless its record has been let go since.
NotOfferedAgain ==
  \A h \in tiedBefore : requests[h].answer # "available"

\* The ledger tells the administrator of no fee that was not paid and of no
\* burn that was not tied to its fee by a request that found it on chain.
LedgerTruthful ==
  \A f \in Fees :
    /\ ledger[f] # "none" => FeeVerified(f)
    /\ ledger[f] = "burned" => \E b \in everUsed[f] : BurnVerified(b)
=============================================================================
