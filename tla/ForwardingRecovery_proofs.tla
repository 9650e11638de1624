----------------------- MODULE ForwardingRecovery_proofs -----------------------
(***************************************************************************)
(* What the record of forwarding fees guarantees for any number of fees,   *)
(* burns and requests, however the requests interleave and die: it         *)
(* implements FeeRecords, a fee that is tied is never offered again, and   *)
(* the administrator's ledger tells of nothing that did not happen.        *)
(***************************************************************************)
EXTENDS ForwardingRecovery, TLAPS

-----------------------------------------------------------------------------
(* The steps, sorted by what they may change *)

ChainOrClock ==
  \/ \E f \in Fees : SendFee(f) \/ MineFee(f)
  \/ \E b \in Burns :
       \/ \E kind \in {"standard", "forwarded"} : SendBurn(b, kind)
       \/ MineBurn(b)
  \/ ClockTick /\ UNCHANGED chainVars

\* The chains only move on: what was verified stays verified.
ChainKeeps ==
  /\ \A f \in Fees : FeeVerified(f) => FeeVerified(f)'
  /\ \A b \in Burns : BurnVerified(b) => BurnVerified(b)'

\* A step of the chains or of the clock verifies more, never less.
LEMMA ChainSteps ==
  ASSUME ChainTypeOK, ChainOrClock
  PROVE  ChainTypeOK' /\ ChainKeeps
<1> USE DEF ChainTypeOK, ChainKeeps, FeeVerified, BurnVerified, Fates, Kinds,
            BurnTx, UnsentBurn
<1>1. ASSUME NEW f \in Fees, SendFee(f) \/ MineFee(f)
      PROVE  ChainTypeOK' /\ ChainKeeps
  BY <1>1 DEF SendFee, MineFee
<1>2. ASSUME NEW b \in Burns, NEW kind \in {"standard", "forwarded"},
             SendBurn(b, kind)
      PROVE  ChainTypeOK' /\ ChainKeeps
  BY <1>2 DEF SendBurn
<1>3. ASSUME NEW b \in Burns, MineBurn(b)
      PROVE  ChainTypeOK' /\ ChainKeeps
  BY <1>3 DEF MineBurn
<1>4. CASE ClockTick /\ UNCHANGED chainVars
  BY <1>4 DEF chainVars
<1> QED
  BY <1>1, <1>2, <1>3, <1>4 DEF ChainOrClock

\* A step is one of a request, of the cleanup, of the backfill or of the
\* world around the service.
LEMMA StepKinds ==
  ASSUME [RecoveryNext]_recoveryVars
  PROVE  \/ \E h \in Handlers : HandlerStep(h) /\ UNCHANGED <<now, chainVars>>
         \/ RemoveExpired /\ UNCHANGED <<now, chainVars, requests>>
         \/ Backfill /\ UNCHANGED <<now, chainVars>>
         \/ /\ ChainOrClock
            /\ UNCHANGED <<tables, requests, tiedBefore, everUsed>>
            /\ now' = now \/ ClockTick
         \/ UNCHANGED recoveryVars
BY DEF RecoveryNext, ChainOrClock

-----------------------------------------------------------------------------
(* Types *)

\* The tables and requests of a service that has just started.
LEMMA InitTypes == RecoveryInit => RecoveryTypeOK /\ now \in 0..MaxTime
BY TimeAssumption
DEF RecoveryInit, RecoveryTypeOK, ChainInit, ChainTypeOK, Request, Idle, Stages,
    Fates, BurnTx, UnsentBurn, Kinds

\* What becomes of a request in a step of its handler; the others wait.
Becomes(h, stage, fee, burn, created, answer) ==
  /\ requests' \in [Handlers -> Request]
  /\ requests'[h].stage = stage
  /\ requests'[h].fee = fee /\ requests'[h].burn = burn
  /\ requests'[h].created => created
  /\ requests'[h].answer = answer
  /\ \A k \in Handlers \ {h} : requests'[k] = requests[k]

Moves(h, stage, answer) ==
  Becomes(h, stage, requests[h].fee, requests[h].burn, requests[h].created, answer)

\* Going to a stage keeps everything else of the request.
LEMMA GotoMoves ==
  ASSUME RecoveryTypeOK, NEW h \in Handlers, NEW stage \in Stages,
         Goto(h, stage)
  PROVE  Moves(h, stage, requests[h].answer)
BY DEF RecoveryTypeOK, Goto, Moves, Becomes, Request

\* Answering keeps what the request was about.
LEMMA AnswerMoves ==
  ASSUME RecoveryTypeOK, NEW h \in Handlers, NEW answer \in Answers,
         Answer(h, answer)
  PROVE  Moves(h, "answer", answer)
BY DEF RecoveryTypeOK, Answer, Moves, Becomes, Request, Stages

\* A request is sent with the fee and the burn it names.
LEMMA PostBecomes ==
  ASSUME RecoveryTypeOK, NEW h \in Handlers, NEW stage \in Stages,
         NEW f \in Fees, NEW b \in Burns \cup {None}, Post(h, stage, f, b)
  PROVE  Becomes(h, stage, f, b, FALSE, None)
<1> DEFINE q == [Idle EXCEPT !.stage = stage, !.fee = f, !.burn = b]
<1>1. requests' = [requests EXCEPT ![h] = q]
  BY DEF Post
<1>2. q \in Request
  BY DEF Request, Idle
<1>3. /\ q.stage = stage /\ q.fee = f /\ q.burn = b
      /\ ~q.created /\ q.answer = None
  BY DEF Idle
<1> HIDE DEF q
<1> QED
  BY <1>1, <1>2, <1>3 DEF RecoveryTypeOK, Becomes

\* Sending a request touches no table; it is known as one that came when its
\* fee was tied only if it was.
LEMMA PostKeeps ==
  ASSUME NEW h, NEW stage, NEW f, NEW b, Post(h, stage, f, b)
  PROVE  /\ UNCHANGED <<tables, everUsed>>
         /\ tiedBefore' \subseteq tiedBefore \cup {h}
         /\ used[f] = None => tiedBefore' = tiedBefore
<1>1. tiedBefore' = tiedBefore \cup (IF used[f] = None THEN {} ELSE {h})
  BY DEF Post
<1>2. UNCHANGED <<tables, everUsed>>
  BY DEF Post
<1> QED
  BY <1>1, <1>2

\* A handler that returns or dies is idle.
LEMMA ReturnBecomes ==
  ASSUME RecoveryTypeOK, NEW h \in Handlers, Return(h)
  PROVE  Becomes(h, "idle", None, None, FALSE, None)
<1>1. Idle \in Request
  BY DEF Idle, Request, Stages
<1>2. /\ Idle.stage = "idle" /\ Idle.fee = None /\ Idle.burn = None
      /\ ~Idle.created /\ Idle.answer = None
  BY DEF Idle
<1> QED
  BY <1>1, <1>2 DEF RecoveryTypeOK, Return, Becomes

\* The insert notes whether it created the record.
LEMMA InsertBecomes ==
  ASSUME RecoveryTypeOK, NEW h \in Handlers, RegisterInsert(h)
  PROVE  Becomes(h, "event", requests[h].fee, requests[h].burn,
                 recoveries[requests[h].fee] = None, requests[h].answer)
<1> DEFINE new == recoveries[requests[h].fee] = None
<1>1. requests' = [requests EXCEPT ![h].stage = "event", ![h].created = new]
  BY DEF RegisterInsert
<1>2. new \in BOOLEAN
  OBVIOUS
<1> HIDE DEF new
<1>3. Becomes(h, "event", requests[h].fee, requests[h].burn, new, requests[h].answer)
  BY <1>1, <1>2 DEF RecoveryTypeOK, Becomes, Request, Stages
<1> QED
  BY <1>3 DEF new

\* The cleanup keeps the types.
LEMMA CleanupTypes ==
  ASSUME RecoveryTypeOK, RemoveExpired, UNCHANGED <<chainVars>>,
         requests' \in [Handlers -> Request]
  PROVE  RecoveryTypeOK'
BY DEF RecoveryTypeOK, RemoveExpired, ChainTypeOK, chainVars

\* A request that is handled has a fee, and one that ties it has a burn.
Consuming == {"find", "mark", "compare", "note"}
RequestShape(q) ==
  /\ q.stage # "idle" => q.fee \in Fees
  /\ q.stage \in Consuming => q.burn \in Burns
RequestsOK ==
  requests \in [Handlers -> Request] /\ \A h \in Handlers : RequestShape(requests[h])

\* A step keeps the shapes when what becomes of its request has one.
LEMMA BecomesOK ==
  ASSUME RequestsOK, NEW h \in Handlers, NEW stage, NEW fee, NEW burn,
         NEW created, NEW answer, Becomes(h, stage, fee, burn, created, answer),
         stage # "idle" => fee \in Fees,
         stage \in Consuming => burn \in Burns
  PROVE  RequestsOK'
<1>1. RequestShape(requests'[h])
  BY DEF Becomes, RequestShape
<1>2. \A k \in Handlers \ {h} : RequestShape(requests'[k])
  BY DEF Becomes, RequestsOK
<1> QED
  BY <1>1, <1>2 DEF Becomes, RequestsOK

\* So does a handler that goes on, as long as it does not begin to consume.
LEMMA MovesOK ==
  ASSUME RequestsOK, NEW h \in Handlers, NEW stage, NEW answer,
         Moves(h, stage, answer), requests[h].stage # "idle",
         stage \in Consuming => requests[h].stage \in Consuming
  PROVE  RequestsOK'
<1>1. /\ requests[h].fee \in Fees
      /\ stage \in Consuming => requests[h].burn \in Burns
  BY DEF RequestsOK, RequestShape
<1> QED
  BY <1>1, BecomesOK DEF Moves

\* A statement of a request keeps the types and the shapes of the requests.
LEMMA RequestTypes ==
  ASSUME RecoveryTypeOK, RequestsOK, NEW h \in Handlers, HandlerStep(h)
  PROVE  RequestsOK'
<1>1. ASSUME NEW f \in Fees, PostRegister(h, f)
      PROVE  RequestsOK'
  <2>1. Becomes(h, "verify", f, None, FALSE, None)
    BY <1>1, PostBecomes DEF PostRegister, Stages
  <2> QED
    BY <2>1, BecomesOK DEF Consuming
<1>2. ASSUME NEW f \in Fees, NEW b \in Burns, PostConsume(h, f, b)
      PROVE  RequestsOK'
  <2>1. Becomes(h, "find", f, b, FALSE, None)
    BY <1>2, PostBecomes DEF PostConsume, Stages
  <2> QED
    BY <2>1, BecomesOK
<1>3. CASE RegisterInsert(h)
  <2>1. requests[h].fee \in Fees
    BY <1>3 DEF RegisterInsert, At, RequestsOK, RequestShape
  <2> QED
    BY <1>3, <2>1, InsertBecomes, BecomesOK DEF Consuming
<1>4. CASE Return(h)
  BY <1>4, ReturnBecomes, BecomesOK DEF Consuming
<1>5. ASSUME NEW stage \in Stages, Goto(h, stage), requests[h].stage # "idle",
             stage \in Consuming => requests[h].stage \in Consuming
      PROVE  RequestsOK'
  BY <1>5, GotoMoves, MovesOK
<1>6. ASSUME NEW answer \in Answers, Answer(h, answer), requests[h].stage # "idle"
      PROVE  RequestsOK'
  BY <1>6, AnswerMoves, MovesOK DEF Consuming
<1> USE DEF At, Stages, Answers, Consuming
<1>7. CASE RegisterVerify(h)
  BY <1>5, <1>6, <1>7 DEF RegisterVerify
<1>8. CASE RegisterReadUse(h)
  BY <1>6, <1>8 DEF RegisterReadUse
<1>9. CASE RegisterSweep(h)
  BY <1>5, <1>9 DEF RegisterSweep
<1>10. CASE RegisterEvent(h)
  BY <1>5, <1>6, <1>10 DEF RegisterEvent
<1>11. CASE RegisterReread(h)
  BY <1>6, <1>11 DEF RegisterReread
<1>12. CASE ConsumeFind(h)
  BY <1>5, <1>6, <1>12 DEF ConsumeFind
<1>13. CASE ConsumeMark(h)
  BY <1>5, <1>6, <1>13 DEF ConsumeMark
<1>14. CASE ConsumeCompare(h)
  BY <1>5, <1>6, <1>14 DEF ConsumeCompare
<1>15. CASE ConsumeNote(h)
  BY <1>6, <1>15 DEF ConsumeNote
<1> QED
  BY <1>1, <1>2, <1>3, <1>4, <1>7, <1>8, <1>9, <1>10, <1>11, <1>12, <1>13,
     <1>14, <1>15 DEF HandlerStep

\* A statement notes no request but its own as one about a tied fee.
LEMMA TiedGrows ==
  ASSUME NEW h \in Handlers, HandlerStep(h)
  PROVE  tiedBefore' \subseteq tiedBefore \cup {h}
<1>1. ASSUME NEW f \in Fees, PostRegister(h, f)
      PROVE  tiedBefore' \subseteq tiedBefore \cup {h}
  BY <1>1, PostKeeps DEF PostRegister
<1>2. ASSUME NEW f \in Fees, NEW b \in Burns, PostConsume(h, f, b)
      PROVE  tiedBefore' \subseteq tiedBefore \cup {h}
  BY <1>2, PostKeeps DEF PostConsume
<1>3. CASE RegisterSweep(h) \/ Return(h)
  BY <1>3 DEF RegisterSweep, RemoveExpired, Return
<1>4. CASE \/ RegisterVerify(h) \/ RegisterReadUse(h) \/ RegisterInsert(h)
           \/ RegisterEvent(h) \/ RegisterReread(h)
  BY <1>4 DEF RegisterVerify, RegisterReadUse, RegisterInsert, RegisterEvent,
              RegisterReread, OnlyRequests
<1>5. CASE \/ ConsumeFind(h) \/ ConsumeMark(h) \/ ConsumeCompare(h)
           \/ ConsumeNote(h)
  BY <1>5 DEF ConsumeFind, ConsumeMark, ConsumeCompare, ConsumeNote, OnlyRequests
<1> QED
  BY <1>1, <1>2, <1>3, <1>4, <1>5 DEF HandlerStep

\* A statement of a request keeps the types of the tables.
LEMMA HandlerTypes ==
  ASSUME RecoveryTypeOK, RequestsOK, now \in 0..MaxTime, NEW h \in Handlers,
         HandlerStep(h), UNCHANGED <<now, chainVars>>
  PROVE  RecoveryTypeOK'
<1>1. requests' \in [Handlers -> Request]
  BY RequestTypes DEF RequestsOK
<1>2. ChainTypeOK'
  BY DEF RecoveryTypeOK, ChainTypeOK, chainVars
<1>3. tiedBefore' \subseteq Handlers
  BY TiedGrows DEF RecoveryTypeOK
<1> SUFFICES /\ recoveries' \in [Fees -> 0..MaxTime \cup {None}]
             /\ used' \in [Fees -> Burns \cup {None}]
             /\ ledger' \in [Fees -> {"none", "verified", "burned"}]
             /\ everUsed' \in [Fees -> SUBSET Burns]
  BY <1>1, <1>2, <1>3 DEF RecoveryTypeOK
<1> USE DEF RecoveryTypeOK
<1>4. CASE UNCHANGED <<tables, everUsed>>
  BY <1>4 DEF tables
<1>5. CASE RegisterSweep(h)
  BY <1>5 DEF RegisterSweep, RemoveExpired
<1>6. CASE RegisterInsert(h)
  BY <1>6 DEF RegisterInsert
<1>7. CASE RegisterEvent(h)
  BY <1>7 DEF RegisterEvent
<1>8. CASE ConsumeMark(h)
  <2>1. CASE UNCHANGED <<tables, everUsed>>
    BY <1>4, <2>1
  <2>2. CASE ~UNCHANGED <<tables, everUsed>>
    <3>1. /\ requests[h].burn \in Burns
          /\ used' = [used EXCEPT ![requests[h].fee] = requests[h].burn]
          /\ everUsed' = [everUsed EXCEPT ![requests[h].fee] =
                            @ \cup {requests[h].burn}]
          /\ UNCHANGED <<recoveries, ledger>>
      BY <1>8, <2>2
      DEF ConsumeMark, OnlyRequests, At, RequestsOK, RequestShape, Consuming
    <3> QED
      BY <3>1
  <2> QED
    BY <2>1, <2>2
<1>9. CASE ConsumeNote(h)
  BY <1>9 DEF ConsumeNote
<1>10. ASSUME NEW f \in Fees,
              PostRegister(h, f) \/ \E b \in Burns : PostConsume(h, f, b)
       PROVE  UNCHANGED <<tables, everUsed>>
  BY <1>10, PostKeeps DEF PostRegister, PostConsume
<1>11. CASE \/ RegisterVerify(h) \/ RegisterReadUse(h) \/ RegisterReread(h)
            \/ ConsumeFind(h) \/ ConsumeCompare(h) \/ Return(h)
  <2>1. UNCHANGED <<tables, everUsed>>
    BY <1>11 DEF RegisterVerify, RegisterReadUse, RegisterReread, ConsumeFind,
                 ConsumeCompare, Return, OnlyRequests
  <2> QED
    BY <1>4, <2>1
<1> QED
  BY <1>4, <1>5, <1>6, <1>7, <1>8, <1>9, <1>10, <1>11 DEF HandlerStep

ServiceTypes == RecoveryTypeOK /\ RequestsOK /\ now \in 0..MaxTime

\* They hold at first.
LEMMA InitServiceTypes == RecoveryInit => ServiceTypes
<1>1. RecoveryInit => RequestsOK
  BY DEF RecoveryInit, RequestsOK, RequestShape, Request, Idle, Stages, Consuming
<1> QED
  BY <1>1, InitTypes DEF ServiceTypes

\* Every step keeps the types.
LEMMA NextTypes == ServiceTypes /\ [RecoveryNext]_recoveryVars => ServiceTypes'
<1> SUFFICES ASSUME ServiceTypes, [RecoveryNext]_recoveryVars
             PROVE  ServiceTypes'
  OBVIOUS
<1> USE DEF ServiceTypes
<1>1. ASSUME NEW h \in Handlers, HandlerStep(h), UNCHANGED <<now, chainVars>>
      PROVE  ServiceTypes'
  BY <1>1, HandlerTypes, RequestTypes
<1>2. CASE RemoveExpired /\ UNCHANGED <<now, chainVars, requests>>
  <2>1. requests' \in [Handlers -> Request]
    BY <1>2 DEF RecoveryTypeOK
  <2> QED
    BY <1>2, <2>1, CleanupTypes DEF RequestsOK
<1>3. CASE Backfill /\ UNCHANGED <<now, chainVars>>
  BY <1>3 DEF Backfill, RequestsOK, RecoveryTypeOK, ChainTypeOK, chainVars
<1>4. CASE /\ ChainOrClock
           /\ UNCHANGED <<tables, requests, tiedBefore, everUsed>>
           /\ now' = now \/ ClockTick
  <2>1. ChainTypeOK'
    BY <1>4, ChainSteps DEF RecoveryTypeOK
  <2>2. now' \in 0..MaxTime
    BY <1>4, TimeAssumption DEF ClockTick
  <2> QED
    BY <1>4, <2>1, <2>2 DEF RecoveryTypeOK, RequestsOK, tables
<1>5. CASE UNCHANGED recoveryVars
  BY <1>5
  DEF recoveryVars, RecoveryTypeOK, RequestsOK, ChainTypeOK, chainVars, tables
<1> QED
  BY <1>1, <1>2, <1>3, <1>4, <1>5, StepKinds

-----------------------------------------------------------------------------
(* What stands behind the tables and behind each stage *)

\* A record has its fee on chain, a tie its record and its burn, the ledger
\* what it tells of.
FeeOK(f) ==
  /\ recoveries[f] # None => FeeVerified(f)
  /\ used[f] # None => /\ recoveries[f] # None
                       /\ used[f] \in everUsed[f]
                       /\ BurnVerified(used[f])
  /\ ledger[f] # "none" => FeeVerified(f)
  /\ ledger[f] = "burned" => \E b \in everUsed[f] : BurnVerified(b)
TablesOK == \A f \in Fees : FeeOK(f)

\* A request past the receipt has found it; one that notes a use made it.
Registering == {"readUse", "sweep", "insert", "event", "reread"}
StageOK(q) ==
  /\ q.stage \in Registering => FeeVerified(q.fee)
  /\ q.stage \in {"mark", "compare", "note"} => BurnVerified(q.burn)
  /\ q.stage = "note" => q.burn \in everUsed[q.fee]

EvidenceOK == TablesOK /\ \A h \in Handlers : StageOK(requests[h])

\* Evidence survives a step that takes none of it away.
LEMMA EvidenceKept ==
  ASSUME ServiceTypes, EvidenceOK, ChainKeeps,
         UNCHANGED <<tables, requests, everUsed>>
  PROVE  EvidenceOK'
<1>1. TablesOK'
  <2> SUFFICES ASSUME NEW f \in Fees
               PROVE  FeeOK(f)'
    BY DEF TablesOK
  <2>1. /\ FeeOK(f)
        /\ used[f] # None => used[f] \in Burns
        /\ everUsed[f] \subseteq Burns
    BY DEF EvidenceOK, TablesOK, ServiceTypes, RecoveryTypeOK
  <2>2. /\ FeeVerified(f) => FeeVerified(f)'
        /\ \A b \in Burns : BurnVerified(b) => BurnVerified(b)'
    BY DEF ChainKeeps
  <2>3. /\ recoveries' = recoveries /\ used' = used
        /\ ledger' = ledger /\ everUsed' = everUsed
    BY DEF tables
  <2> QED
    BY <2>1, <2>2, <2>3 DEF FeeOK
<1>2. ASSUME NEW h \in Handlers
      PROVE  StageOK(requests[h])'
  <2>1. StageOK(requests[h]) /\ RequestShape(requests[h])
    BY DEF EvidenceOK, ServiceTypes, RequestsOK
  <2> QED
    BY <2>1
    DEF StageOK, RequestShape, Registering, Consuming, ChainKeeps
<1> QED
  BY <1>1, <1>2 DEF EvidenceOK

\* The others' evidence, and that of the request that moves.
LEMMA StagesKept ==
  ASSUME EvidenceOK, NEW h \in Handlers, UNCHANGED chainVars,
         \A f \in Fees : everUsed[f] \subseteq everUsed'[f],
         RequestsOK, RequestsOK', StageOK(requests[h])',
         \A k \in Handlers \ {h} : requests'[k] = requests[k]
  PROVE  \A k \in Handlers : StageOK(requests[k])'
<1> SUFFICES ASSUME NEW k \in Handlers \ {h}
             PROVE  StageOK(requests[k])'
  OBVIOUS
<1>1. StageOK(requests[k]) /\ RequestShape(requests[k]) /\ requests'[k] = requests[k]
  BY DEF EvidenceOK, RequestsOK
<1> QED
  BY <1>1
  DEF StageOK, RequestShape, FeeVerified, BurnVerified, Registering, Consuming,
      chainVars

\* The cleanup lets records go together with their ties.
LEMMA CleanupEvidence ==
  ASSUME ServiceTypes, TablesOK, RemoveExpired, UNCHANGED chainVars
  PROVE  TablesOK'
<1> SUFFICES ASSUME NEW f \in Fees
             PROVE  FeeOK(f)'
  BY DEF TablesOK
<1>1. \/ recoveries'[f] = None /\ used'[f] = None
      \/ recoveries'[f] = recoveries[f] /\ used'[f] = used[f]
  BY DEF RemoveExpired
<1>2. ledger' = ledger /\ everUsed' = everUsed /\ feeTx' = feeTx /\ burnTx' = burnTx
  BY DEF RemoveExpired, chainVars
<1>3. FeeOK(f)
  BY DEF TablesOK
<1> QED
  BY <1>1, <1>2, <1>3 DEF FeeOK, FeeVerified, BurnVerified

\* Tables that no statement touches keep their evidence.
LEMMA TablesStay ==
  ASSUME TablesOK, UNCHANGED <<tables, everUsed, chainVars>>
  PROVE  TablesOK' /\ \A f \in Fees : everUsed[f] \subseteq everUsed'[f]
BY DEF TablesOK, FeeOK, FeeVerified, BurnVerified, tables, chainVars

\* No statement of a request writes what nothing on chain stands behind.
LEMMA HandlerTables ==
  ASSUME ServiceTypes, EvidenceOK, NEW h \in Handlers, HandlerStep(h),
         UNCHANGED <<now, chainVars>>
  PROVE  TablesOK' /\ \A f \in Fees : everUsed[f] \subseteq everUsed'[f]
<1> DEFINE q == requests[h]
<1>1. TablesOK /\ StageOK(q) /\ RequestShape(q)
  BY DEF EvidenceOK, ServiceTypes, RequestsOK
<1>2. CASE UNCHANGED <<tables, everUsed>>
  BY <1>1, <1>2, TablesStay
<1>3. CASE RegisterSweep(h)
  <2>1. RemoveExpired
    BY <1>3 DEF RegisterSweep
  <2> QED
    BY <1>1, <2>1, CleanupEvidence DEF RemoveExpired
<1> SUFFICES ASSUME NEW f \in Fees
             PROVE  FeeOK(f)' /\ everUsed[f] \subseteq everUsed'[f]
  BY DEF TablesOK
<1>4. FeeOK(f) /\ feeTx' = feeTx /\ burnTx' = burnTx
  BY <1>1 DEF TablesOK, chainVars
<1> USE DEF FeeOK, FeeVerified, BurnVerified
<1>5. CASE RegisterInsert(h)
  <2>1. FeeVerified(q.fee)
    BY <1>1, <1>5 DEF RegisterInsert, At, StageOK, Registering
  <2>2. /\ recoveries' = [recoveries EXCEPT ![q.fee] = IF @ = None THEN now ELSE @]
        /\ UNCHANGED <<used, ledger, everUsed>>
    BY <1>5 DEF RegisterInsert
  <2>3. recoveries'[f] = recoveries[f] \/ (f = q.fee /\ recoveries'[f] = now)
    BY <2>2 DEF ServiceTypes, RecoveryTypeOK
  <2>4. now # None
    BY RecoveryAssumption, TimeAssumption DEF ServiceTypes
  <2> QED
    BY <1>4, <2>1, <2>2, <2>3, <2>4
<1>6. CASE RegisterEvent(h)
  <2>1. FeeVerified(q.fee)
    BY <1>1, <1>6 DEF RegisterEvent, At, StageOK, Registering
  <2>2. /\ ledger' = [ledger EXCEPT ![q.fee] = IF @ = "none" THEN "verified" ELSE @]
        /\ UNCHANGED <<used, recoveries, everUsed>>
    BY <1>6 DEF RegisterEvent
  <2>3. ledger'[f] = ledger[f] \/ (f = q.fee /\ ledger'[f] = "verified")
    BY <2>2 DEF ServiceTypes, RecoveryTypeOK
  <2> QED
    BY <1>4, <2>1, <2>2, <2>3
<1>7. CASE ConsumeMark(h) /\ ~UNCHANGED <<tables, everUsed>>
  <2>1. BurnVerified(q.burn)
    BY <1>1, <1>7 DEF ConsumeMark, At, StageOK
  <2>2. /\ recoveries[q.fee] # None
        /\ used' = [used EXCEPT ![q.fee] = q.burn]
        /\ everUsed' = [everUsed EXCEPT ![q.fee] = @ \cup {q.burn}]
        /\ UNCHANGED <<recoveries, ledger>>
    BY <1>7 DEF ConsumeMark, OnlyRequests
  <2>3. /\ everUsed[f] \subseteq everUsed'[f]
        /\ \/ used'[f] = used[f]
           \/ f = q.fee /\ used'[f] = q.burn /\ q.burn \in everUsed'[f]
    BY <2>2 DEF ServiceTypes, RecoveryTypeOK
  <2> QED
    BY <1>4, <2>1, <2>2, <2>3
<1>8. CASE ConsumeNote(h)
  <2>1. BurnVerified(q.burn) /\ q.burn \in everUsed[q.fee]
    BY <1>1, <1>8 DEF ConsumeNote, At, StageOK
  <2>2. /\ ledger' = [ledger EXCEPT ![q.fee] = IF @ = "none" THEN @ ELSE "burned"]
        /\ UNCHANGED <<used, recoveries, everUsed>>
    BY <1>8 DEF ConsumeNote
  <2>3. \/ ledger'[f] = ledger[f]
        \/ f = q.fee /\ ledger[f] # "none" /\ ledger'[f] = "burned"
    BY <2>2 DEF ServiceTypes, RecoveryTypeOK
  <2> QED
    BY <1>4, <2>1, <2>2, <2>3
<1>9. ASSUME NEW g \in Fees,
             PostRegister(h, g) \/ \E b \in Burns : PostConsume(h, g, b)
      PROVE  UNCHANGED <<tables, everUsed>>
  BY <1>9, PostKeeps DEF PostRegister, PostConsume
<1>10. CASE \/ RegisterVerify(h) \/ RegisterReadUse(h) \/ RegisterReread(h)
            \/ ConsumeFind(h) \/ ConsumeCompare(h) \/ Return(h)
  <2>1. UNCHANGED <<tables, everUsed>>
    BY <1>10 DEF RegisterVerify, RegisterReadUse, RegisterReread, ConsumeFind,
                 ConsumeCompare, Return, OnlyRequests
  <2> QED
    BY <1>2, <2>1 DEF TablesOK
<1> QED
  BY <1>2, <1>3, <1>5, <1>6, <1>7, <1>8, <1>9, <1>10 DEF HandlerStep, TablesOK

\* A request reaches a stage only with what the stage builds on.
LEMMA HandlerStage ==
  ASSUME ServiceTypes, EvidenceOK, NEW h \in Handlers, HandlerStep(h),
         UNCHANGED <<now, chainVars>>
  PROVE  /\ StageOK(requests[h])'
         /\ \A k \in Handlers \ {h} : requests'[k] = requests[k]
<1> USE DEF ServiceTypes
<1>1. StageOK(requests[h]) /\ RequestShape(requests[h])
  BY DEF EvidenceOK, RequestsOK
<1>2. /\ \A f \in Fees : everUsed[f] \subseteq everUsed'[f]
      /\ feeTx' = feeTx /\ burnTx' = burnTx
  BY HandlerTables DEF chainVars
<1> DEFINE Goal == /\ StageOK(requests[h])'
                   /\ \A k \in Handlers \ {h} : requests'[k] = requests[k]
<1> SUFFICES Goal
  OBVIOUS
<1>3. ASSUME NEW stage, NEW fee, NEW burn, NEW created, NEW answer,
             Becomes(h, stage, fee, burn, created, answer),
             stage \in Registering => FeeVerified(fee),
             stage \in {"mark", "compare", "note"} => BurnVerified(burn),
             stage = "note" => burn \in everUsed'[fee]
      PROVE  Goal
  BY <1>2, <1>3 DEF Becomes, StageOK, FeeVerified, BurnVerified
<1>4. ASSUME NEW f \in Fees, PostRegister(h, f)
      PROVE  Goal
  <2>1. Becomes(h, "verify", f, None, FALSE, None)
    BY <1>4, PostBecomes DEF PostRegister, Stages
  <2> QED
    BY <1>3, <2>1 DEF Registering
<1>5. ASSUME NEW f \in Fees, NEW b \in Burns, PostConsume(h, f, b)
      PROVE  Goal
  <2>1. Becomes(h, "find", f, b, FALSE, None)
    BY <1>5, PostBecomes DEF PostConsume, Stages
  <2> QED
    BY <1>3, <2>1 DEF Registering
<1>6. CASE RegisterInsert(h)
  <2>1. FeeVerified(requests[h].fee)
    BY <1>1, <1>6 DEF RegisterInsert, At, StageOK, Registering
  <2> QED
    BY <1>3, <1>6, <2>1, InsertBecomes DEF Registering
<1>7. CASE Return(h)
  BY <1>3, <1>7, ReturnBecomes DEF Registering
<1>8. ASSUME NEW answer \in Answers, Answer(h, answer)
      PROVE  Goal
  BY <1>3, <1>8, AnswerMoves DEF Moves, Registering
<1>9. ASSUME NEW stage \in Stages, Goto(h, stage),
             stage \in Registering => FeeVerified(requests[h].fee),
             stage \in {"mark", "compare", "note"} => BurnVerified(requests[h].burn),
             stage = "note" => requests[h].burn \in everUsed'[requests[h].fee]
      PROVE  Goal
  BY <1>3, <1>9, GotoMoves DEF Moves
<1> HIDE DEF Goal
<1> USE DEF Stages, Answers, At
<1>10. CASE RegisterVerify(h)
  BY <1>8, <1>9, <1>10 DEF RegisterVerify
<1>11. CASE RegisterReadUse(h) \/ RegisterReread(h)
  BY <1>8, <1>11 DEF RegisterReadUse, RegisterReread
<1>12. CASE RegisterSweep(h)
  BY <1>1, <1>9, <1>12 DEF RegisterSweep, StageOK, Registering
<1>13. CASE RegisterEvent(h)
  BY <1>1, <1>8, <1>9, <1>13 DEF RegisterEvent, StageOK, Registering
<1>14. CASE ConsumeFind(h)
  BY <1>8, <1>9, <1>14 DEF ConsumeFind, Registering
<1>15. CASE ConsumeMark(h)
  <2>1. BurnVerified(requests[h].burn)
    BY <1>1, <1>15 DEF ConsumeMark, StageOK
  <2>2. CASE Goto(h, "compare") \/ Answer(h, "refused")
    BY <1>8, <1>9, <2>1, <2>2 DEF Registering
  <2>3. CASE ~(Goto(h, "compare") \/ Answer(h, "refused"))
    <3>1. /\ Goto(h, "note")
          /\ everUsed' = [everUsed EXCEPT ![requests[h].fee] = @ \cup {requests[h].burn}]
      BY <1>15, <2>3 DEF ConsumeMark
    <3>2. requests[h].fee \in Fees
      BY <1>1, <1>15 DEF ConsumeMark, RequestShape
    <3>3. requests[h].burn \in everUsed'[requests[h].fee]
      BY <3>1, <3>2 DEF RecoveryTypeOK
    <3> QED
      BY <1>9, <2>1, <3>1, <3>3 DEF Registering
  <2> QED
    BY <2>2, <2>3
<1>16. CASE ConsumeCompare(h)
  <2>1. CASE Answer(h, "refused")
    BY <1>8, <2>1
  <2>2. CASE ~Answer(h, "refused")
    <3>1. Goto(h, "note") /\ used[requests[h].fee] = requests[h].burn
      BY <1>16, <2>2 DEF ConsumeCompare
    <3>2. requests[h].fee \in Fees /\ requests[h].burn \in Burns
      BY <1>1, <1>16 DEF ConsumeCompare, RequestShape, Consuming
    <3>3. requests[h].burn \in everUsed[requests[h].fee]
      BY <3>1, <3>2, RecoveryAssumption DEF EvidenceOK, TablesOK, FeeOK
    <3>4. BurnVerified(requests[h].burn)
      BY <1>1, <1>16 DEF ConsumeCompare, StageOK
    <3> QED
      BY <1>2, <1>9, <3>1, <3>2, <3>3, <3>4 DEF Registering
  <2> QED
    BY <2>1, <2>2
<1>17. CASE ConsumeNote(h)
  BY <1>8, <1>17 DEF ConsumeNote
<1> QED
  BY <1>4, <1>5, <1>6, <1>7, <1>10, <1>11, <1>12, <1>13, <1>14, <1>15, <1>16,
     <1>17 DEF HandlerStep

\* The evidence is there at first, when nothing has been written.
LEMMA InitEvidence == RecoveryInit => EvidenceOK
BY DEF RecoveryInit, EvidenceOK, TablesOK, FeeOK, StageOK, Registering, Idle

\* Every step keeps the evidence.
LEMMA NextEvidence ==
  ServiceTypes /\ EvidenceOK /\ [RecoveryNext]_recoveryVars => EvidenceOK'
<1> SUFFICES ASSUME ServiceTypes, EvidenceOK, [RecoveryNext]_recoveryVars
             PROVE  EvidenceOK'
  OBVIOUS
<1>1. ASSUME NEW h \in Handlers, HandlerStep(h), UNCHANGED <<now, chainVars>>
      PROVE  EvidenceOK'
  <2>1. RequestsOK'
    BY <1>1, RequestTypes DEF ServiceTypes
  <2>2. /\ TablesOK' /\ StageOK(requests[h])'
        /\ \A f \in Fees : everUsed[f] \subseteq everUsed'[f]
        /\ \A k \in Handlers \ {h} : requests'[k] = requests[k]
    BY <1>1, HandlerTables, HandlerStage
  <2>3. \A k \in Handlers : StageOK(requests[k])'
    BY <1>1, <2>1, <2>2, StagesKept DEF ServiceTypes
  <2> QED
    BY <2>2, <2>3 DEF EvidenceOK
<1>2. CASE RemoveExpired /\ UNCHANGED <<now, chainVars, requests>>
  <2>1. TablesOK'
    BY <1>2, CleanupEvidence DEF EvidenceOK
  <2>2. everUsed' = everUsed
    BY <1>2 DEF RemoveExpired
  <2> QED
    BY <1>2, <2>1, <2>2
    DEF EvidenceOK, StageOK, FeeVerified, BurnVerified, chainVars
<1>3. CASE Backfill /\ UNCHANGED <<now, chainVars>>
  <2> SUFFICES ASSUME NEW f \in Fees
               PROVE  FeeOK(f)'
    BY <1>3
    DEF EvidenceOK, TablesOK, StageOK, FeeVerified, BurnVerified, chainVars, Backfill
  <2>1. FeeOK(f) /\ feeTx' = feeTx /\ burnTx' = burnTx
    BY <1>3 DEF EvidenceOK, TablesOK, chainVars
  <2>2. /\ UNCHANGED <<recoveries, used, everUsed>>
        /\ \/ ledger'[f] = ledger[f]
           \/ recoveries[f] # None /\ used[f] = None /\ ledger'[f] = "verified"
           \/ recoveries[f] # None /\ used[f] # None /\ ledger'[f] = "burned"
    BY <1>3 DEF Backfill
  <2> QED
    BY <2>1, <2>2 DEF FeeOK, FeeVerified, BurnVerified
<1>4. CASE /\ ChainOrClock
           /\ UNCHANGED <<tables, requests, tiedBefore, everUsed>>
           /\ now' = now \/ ClockTick
  <2>1. ChainKeeps
    BY <1>4, ChainSteps DEF ServiceTypes, RecoveryTypeOK
  <2> QED
    BY <1>4, <2>1, EvidenceKept
<1>5. CASE UNCHANGED recoveryVars
  <2>1. ChainKeeps
    BY <1>5 DEF ChainKeeps, FeeVerified, BurnVerified, recoveryVars, chainVars
  <2> QED
    BY <1>5, <2>1, EvidenceKept DEF recoveryVars
<1> QED
  BY <1>1, <1>2, <1>3, <1>4, <1>5, StepKinds

\* Types and evidence, the invariant behind the theorems.
LEMMA RecoveryInvariant == RecoverySpec => [](ServiceTypes /\ EvidenceOK)
<1>1. RecoveryInit => ServiceTypes /\ EvidenceOK
  BY InitServiceTypes, InitEvidence
<1>2. ServiceTypes /\ EvidenceOK /\ [RecoveryNext]_recoveryVars
        => (ServiceTypes /\ EvidenceOK)'
  BY NextTypes, NextEvidence
<1> QED
  BY <1>1, <1>2, PTL DEF RecoverySpec

\* However requests interleave and die and whenever records are let go, the
\* ledger tells of no fee that was not paid and of no burn that was not tied.
THEOREM LedgerTellsTheTruth == RecoverySpec => []LedgerTruthful
<1>1. EvidenceOK => LedgerTruthful
  BY DEF EvidenceOK, TablesOK, FeeOK, LedgerTruthful
<1> QED
  BY <1>1, RecoveryInvariant, PTL

-----------------------------------------------------------------------------
(* The service implements FeeRecords *)

\* The cleanup lets records go, and with each its tie.
LEMMA CleanupRefines ==
  ASSUME ServiceTypes, RemoveExpired, UNCHANGED chainVars
  PROVE  [Records!FeeRecordsNext]_Records!feeRecordsVars
<1> DEFINE gone == {f \in Fees : Expired(f)}
           onRecord == {f \in Fees : recoveries[f] # None}
<1>1. gone \in SUBSET onRecord
  BY DEF Expired
<1>2. onRecord' = onRecord \ gone
  BY DEF RemoveExpired
<1>3. used' = [f \in Fees |-> IF f \in gone THEN None ELSE used[f]]
  BY DEF RemoveExpired
<1>4. \E fees \in SUBSET onRecord : Records!Release(fees)
  BY <1>1, <1>2, <1>3 DEF Records!Release
<1>5. Records!FeeRecordsNext
  BY <1>4 DEF Records!FeeRecordsNext, Records!chainVars, chainVars
<1> QED
  BY <1>5

\* A statement of a request records a verified fee, ties a free one to a free
\* burn, lets records go, or changes nothing FeeRecords knows of.
LEMMA HandlerRefines ==
  ASSUME ServiceTypes, EvidenceOK, NEW h \in Handlers, HandlerStep(h),
         UNCHANGED <<now, chainVars>>
  PROVE  [Records!FeeRecordsNext]_Records!feeRecordsVars
<1> DEFINE q == requests[h]
           onRecord == {f \in Fees : recoveries[f] # None}
<1> USE DEF ServiceTypes
<1>1. StageOK(q) /\ RequestShape(q)
  BY DEF EvidenceOK, RequestsOK
<1>2. CASE UNCHANGED <<recoveries, used>>
  BY <1>2 DEF Records!feeRecordsVars, Records!recordVars, Records!chainVars,
              chainVars
<1>3. CASE RegisterSweep(h)
  <2>1. RemoveExpired
    BY <1>3 DEF RegisterSweep
  <2> QED
    BY <2>1, CleanupRefines
<1>4. CASE RegisterInsert(h)
  <2>1. q.fee \in Fees /\ FeeVerified(q.fee)
    BY <1>1, <1>4
    DEF RegisterInsert, At, StageOK, RequestShape, Registering
  <2>2. /\ recoveries' = [recoveries EXCEPT ![q.fee] = IF @ = None THEN now ELSE @]
        /\ UNCHANGED used
    BY <1>4 DEF RegisterInsert
  <2>3. now # None
    BY RecoveryAssumption, TimeAssumption
  <2>4. onRecord' = onRecord \cup {q.fee}
    BY <2>1, <2>2, <2>3 DEF RecoveryTypeOK
  <2>5. Records!Record(q.fee)
    BY <2>1, <2>2, <2>4
    DEF Records!Record, Records!FeeVerified, FeeVerified
  <2>6. \E f \in Fees : Records!Record(f)
    BY <2>1, <2>5 DEF Records!Record
  <2>7. Records!FeeRecordsNext
    BY <2>6 DEF Records!FeeRecordsNext, Records!chainVars, chainVars
  <2> QED
    BY <2>7
<1>5. CASE ConsumeMark(h) /\ ~UNCHANGED <<recoveries, used>>
  <2>1. q.fee \in Fees /\ q.burn \in Burns /\ BurnVerified(q.burn)
    BY <1>1, <1>5
    DEF ConsumeMark, At, StageOK, RequestShape, Consuming
  <2>2. /\ recoveries[q.fee] # None /\ used[q.fee] = None
        /\ \A g \in Fees : used[g] # q.burn
        /\ used' = [used EXCEPT ![q.fee] = q.burn]
        /\ UNCHANGED recoveries
    BY <1>5 DEF ConsumeMark, OnlyRequests, tables
  <2>3. Records!Tie(q.fee, q.burn)
    BY <2>1, <2>2 DEF Records!Tie, Records!BurnVerified, BurnVerified
  <2> QED
    BY <2>1, <2>3 DEF Records!FeeRecordsNext, Records!chainVars, chainVars
<1>6. ASSUME NEW f \in Fees,
             PostRegister(h, f) \/ \E b \in Burns : PostConsume(h, f, b)
      PROVE  UNCHANGED <<recoveries, used>>
  BY <1>6, PostKeeps DEF PostRegister, PostConsume, tables
<1>7. CASE \/ RegisterVerify(h) \/ RegisterReadUse(h) \/ RegisterReread(h)
           \/ ConsumeFind(h) \/ ConsumeCompare(h) \/ Return(h)
           \/ RegisterEvent(h) \/ ConsumeNote(h)
  <2>1. UNCHANGED <<recoveries, used>>
    BY <1>7 DEF RegisterVerify, RegisterReadUse, RegisterReread, ConsumeFind,
                ConsumeCompare, Return, RegisterEvent, ConsumeNote,
                OnlyRequests, tables
  <2> QED
    BY <1>2, <2>1
<1> QED
  BY <1>2, <1>3, <1>4, <1>5, <1>6, <1>7 DEF HandlerStep

\* The chains are the same ones; the clock and the ledger are not its concern.
LEMMA WorldRefines ==
  ASSUME ChainOrClock, UNCHANGED <<recoveries, used>>
  PROVE  [Records!FeeRecordsNext]_Records!feeRecordsVars
<1> DEFINE onRecord == {f \in Fees : recoveries[f] # None}
<1>1. onRecord' = onRecord /\ used' = used
  OBVIOUS
<1>2. CASE UNCHANGED chainVars
  BY <1>1, <1>2 DEF Records!feeRecordsVars, Records!recordVars,
                    Records!chainVars, chainVars
<1>3. CASE \E f \in Fees : SendFee(f) \/ MineFee(f)
  <2>1. Records!ChainStep
    BY <1>3 DEF Records!ChainStep, Records!SendFee, Records!MineFee, SendFee, MineFee
  <2> QED
    BY <1>1, <2>1 DEF Records!FeeRecordsNext, Records!recordVars
<1>4. ASSUME NEW b \in Burns, NEW kind \in {"standard", "forwarded"},
             SendBurn(b, kind)
      PROVE  [Records!FeeRecordsNext]_Records!feeRecordsVars
  <2>1. kind \in Records!Kinds \ {"none"} /\ Records!SendBurn(b, kind)
    BY <1>4 DEF Records!Kinds, Records!SendBurn, SendBurn, Records!UnsentBurn,
                UnsentBurn
  <2>2. Records!ChainStep
    BY <2>1 DEF Records!ChainStep
  <2> QED
    BY <1>1, <2>2 DEF Records!FeeRecordsNext, Records!recordVars
<1>5. ASSUME NEW b \in Burns, MineBurn(b)
      PROVE  [Records!FeeRecordsNext]_Records!feeRecordsVars
  <2>1. Records!MineBurn(b)
    BY <1>5 DEF Records!MineBurn, MineBurn
  <2>2. Records!ChainStep
    BY <2>1 DEF Records!ChainStep
  <2> QED
    BY <1>1, <2>2 DEF Records!FeeRecordsNext, Records!recordVars
<1> QED
  BY <1>2, <1>3, <1>4, <1>5 DEF ChainOrClock

\* Every step of the service is a step of FeeRecords or changes nothing there.
LEMMA NextRefines ==
  ServiceTypes /\ EvidenceOK /\ [RecoveryNext]_recoveryVars
    => [Records!FeeRecordsNext]_Records!feeRecordsVars
<1> SUFFICES ASSUME ServiceTypes, EvidenceOK, [RecoveryNext]_recoveryVars
             PROVE  [Records!FeeRecordsNext]_Records!feeRecordsVars
  OBVIOUS
<1>1. ASSUME NEW h \in Handlers, HandlerStep(h), UNCHANGED <<now, chainVars>>
      PROVE  [Records!FeeRecordsNext]_Records!feeRecordsVars
  BY <1>1, HandlerRefines
<1>2. CASE RemoveExpired /\ UNCHANGED <<now, chainVars, requests>>
  BY <1>2, CleanupRefines
<1>3. CASE UNCHANGED <<recoveries, used>> /\ UNCHANGED chainVars
  BY <1>3 DEF Records!feeRecordsVars, Records!recordVars, Records!chainVars,
              chainVars
<1>4. CASE /\ ChainOrClock
           /\ UNCHANGED <<tables, requests, tiedBefore, everUsed>>
           /\ now' = now \/ ClockTick
  BY <1>4, WorldRefines DEF tables
<1>5. Backfill => UNCHANGED <<recoveries, used>>
  BY DEF Backfill
<1>6. UNCHANGED recoveryVars => UNCHANGED <<recoveries, used>> /\ UNCHANGED chainVars
  BY DEF recoveryVars, tables
<1> QED
  BY <1>1, <1>2, <1>3, <1>4, <1>5, <1>6, StepKinds

\* The service keeps the promises of FeeRecords for any number of requests:
\* a verified fee stays on record, tied at most once and to a burn of its own,
\* until its record is let go.
THEOREM ServiceKeepsFeeRecords == RecoverySpec => KeepsFeeRecords
<1>1. RecoveryInit => Records!FeeRecordsInit
  BY DEF RecoveryInit, Records!FeeRecordsInit, Records!ChainInit, ChainInit,
         Records!RecordsInit, Records!UnsentBurn, UnsentBurn
<1> QED
  BY <1>1, NextRefines, RecoveryInvariant, PTL
  DEF RecoverySpec, KeepsFeeRecords, Records!FeeRecordsSpec

-----------------------------------------------------------------------------
(* A tied fee is not offered again *)

\* A request that came when its fee was tied, as it still is, has not been
\* answered that the fee may be used, and will not be: it finds the tie, or
\* it finds the record past its term and does not create it.
Creating == {"sweep", "insert", "event", "reread"}
StillTied(h) ==
  LET q == requests[h] IN
  /\ q.stage # "idle"
  /\ used[q.fee] # None
  /\ q.stage \in Creating => ~RecordOf(q.fee)
  /\ q.stage = "event" => ~q.created
  /\ q.answer # "available"
TiesHold == \A h \in tiedBefore : StillTied(h)
\* A tie and its record only go together, and only with the cleanup.
LEMMA TieKept ==
  ASSUME ServiceTypes, EvidenceOK, [RecoveryNext]_recoveryVars,
         NEW f \in Fees, used[f] # None
  PROVE  \/ used'[f] # None /\ recoveries'[f] = recoveries[f]
         \/ RemoveExpired /\ Expired(f)
<1>1. recoveries[f] # None
  BY DEF EvidenceOK, TablesOK, FeeOK
<1> USE DEF ServiceTypes, RecoveryTypeOK
<1>2. CASE UNCHANGED <<recoveries, used>>
  BY <1>2
<1>3. CASE RemoveExpired
  BY <1>3 DEF RemoveExpired
<1>4. ASSUME NEW h \in Handlers, RegisterInsert(h)
      PROVE  used'[f] # None /\ recoveries'[f] = recoveries[f]
  BY <1>1, <1>4 DEF RegisterInsert
<1>5. ASSUME NEW h \in Handlers, ConsumeMark(h)
      PROVE  used'[f] # None /\ recoveries'[f] = recoveries[f]
  <2>1. requests[h].burn \in Burns
    BY <1>5 DEF ConsumeMark, At, RequestsOK, RequestShape, Consuming
  <2>2. \/ UNCHANGED <<recoveries, used>>
        \/ /\ used' = [used EXCEPT ![requests[h].fee] = requests[h].burn]
           /\ UNCHANGED recoveries
    BY <1>5 DEF ConsumeMark, OnlyRequests, tables
  <2> QED
    BY <2>1, <2>2, RecoveryAssumption
<1>6. ASSUME NEW h \in Handlers, HandlerStep(h)
      PROVE  \/ UNCHANGED <<recoveries, used>> \/ RemoveExpired
             \/ RegisterInsert(h) \/ ConsumeMark(h)
  <2>1. ASSUME NEW g \in Fees,
               PostRegister(h, g) \/ \E b \in Burns : PostConsume(h, g, b)
        PROVE  UNCHANGED <<recoveries, used>>
    BY <2>1, PostKeeps DEF PostRegister, PostConsume, tables
  <2>2. CASE \/ RegisterVerify(h) \/ RegisterReadUse(h) \/ RegisterReread(h)
             \/ ConsumeFind(h) \/ ConsumeCompare(h) \/ Return(h)
             \/ RegisterEvent(h) \/ ConsumeNote(h)
    BY <2>2 DEF RegisterVerify, RegisterReadUse, RegisterReread, ConsumeFind,
                ConsumeCompare, Return, RegisterEvent, ConsumeNote,
                OnlyRequests, tables
  <2>3. RegisterSweep(h) => RemoveExpired
    BY DEF RegisterSweep
  <2> QED
    BY <1>6, <2>1, <2>2, <2>3 DEF HandlerStep
<1>7. Backfill => UNCHANGED <<recoveries, used>>
  BY DEF Backfill
<1>8. UNCHANGED tables \/ UNCHANGED recoveryVars => UNCHANGED <<recoveries, used>>
  BY DEF recoveryVars, tables
<1> QED
  BY <1>2, <1>3, <1>4, <1>5, <1>6, <1>7, <1>8, StepKinds

\* A record past its term stays so.
LEMMA PastStaysPast ==
  ASSUME ServiceTypes, ServiceTypes', [RecoveryNext]_recoveryVars,
         NEW f \in Fees, recoveries'[f] = recoveries[f], ~RecordOf(f)
  PROVE  ~RecordOf(f)'
<1>1. now \in Nat /\ now' \in Nat /\ now' >= now
  BY TimeAssumption DEF ServiceTypes, RecoveryNext, ClockTick, recoveryVars
<1>2. CASE recoveries[f] = None
  BY <1>2 DEF RecordOf
<1>3. CASE recoveries[f] # None
  <2>1. recoveries[f] \in Nat
    BY <1>3, TimeAssumption DEF ServiceTypes, RecoveryTypeOK
  <2> QED
    BY <1>1, <1>3, <2>1, RecoveryAssumption DEF RecordOf
<1> QED
  BY <1>2, <1>3

\* Requests that wait stay tied, or are let go with their records.
LEMMA WaitingStayTied ==
  ASSUME ServiceTypes, ServiceTypes', EvidenceOK, [RecoveryNext]_recoveryVars,
         NEW k \in tiedBefore \cap tiedBefore', StillTied(k),
         requests'[k] = requests[k]
  PROVE  StillTied(k)'
<1> DEFINE f == requests[k].fee
<1>1. f \in Fees /\ used[f] # None
  BY DEF ServiceTypes, RecoveryTypeOK, RequestsOK, RequestShape, StillTied
<1>2. ~(RemoveExpired /\ Expired(f))
  BY DEF RemoveExpired
<1>3. used'[f] # None /\ recoveries'[f] = recoveries[f]
  BY <1>1, <1>2, TieKept
<1>4. ~RecordOf(f) => ~RecordOf(f)'
  BY <1>1, <1>3, PastStaysPast
<1> QED
  BY <1>3, <1>4 DEF StillTied

\* A request that is sent about a tied fee has no answer yet.
LEMMA PostStaysTied ==
  ASSUME ServiceTypes, ServiceTypes', TiesHold, NEW h \in Handlers,
         NEW stage \in {"verify", "find"}, NEW f \in Fees,
         NEW b \in Burns \cup {None}, Post(h, stage, f, b), h \in tiedBefore'
  PROVE  StillTied(h)'
<1>1. Becomes(h, stage, f, b, FALSE, None)
  BY PostBecomes DEF ServiceTypes, Stages
<1>2. h \notin tiedBefore
  BY DEF TiesHold, StillTied, Post, Idle
<1>3. used'[f] # None
  BY <1>2, PostKeeps DEF tables
<1>4. None # "available"
  BY RecoveryAssumption DEF Answers
<1> QED
  BY <1>1, <1>3, <1>4 DEF Becomes, StillTied, Creating

\* A request about a tied fee goes on without being told the fee is free.
LEMMA OwnStepStaysTied ==
  ASSUME ServiceTypes, ServiceTypes', EvidenceOK, TiesHold,
         NEW h \in Handlers, HandlerStep(h), UNCHANGED <<now, chainVars>>,
         h \in tiedBefore'
  PROVE  StillTied(h)'
<1> DEFINE Goal == StillTied(h)'
<1> SUFFICES Goal
  OBVIOUS
<1>1. ASSUME NEW g \in Fees,
             PostRegister(h, g) \/ \E b \in Burns : PostConsume(h, g, b)
      PROVE  Goal
  <2>1. CASE PostRegister(h, g)
    BY <2>1, PostStaysTied DEF PostRegister
  <2>2. ASSUME NEW b \in Burns, PostConsume(h, g, b)
        PROVE  Goal
    BY <2>2, PostStaysTied DEF PostConsume
  <2> QED
    BY <1>1, <2>1, <2>2
<1>2. CASE Return(h)
  BY <1>2 DEF Return
<1> SUFFICES ASSUME ~Return(h),
                    \A g \in Fees : ~PostRegister(h, g)
                      /\ \A b \in Burns : ~PostConsume(h, g, b)
             PROVE  Goal
  BY <1>1, <1>2
<1>3. h \in tiedBefore
  BY DEF HandlerStep, RegisterVerify, RegisterReadUse, RegisterSweep,
         RegisterInsert, RegisterEvent, RegisterReread, ConsumeFind, ConsumeMark,
         ConsumeCompare, ConsumeNote, RemoveExpired, OnlyRequests
<1>4. PICK f \in Fees : f = requests[h].fee
  BY <1>3 DEF TiesHold, StillTied, ServiceTypes, RequestsOK, RequestShape
<1>5. /\ requests[h].stage # "idle" /\ used[f] # None
      /\ requests[h].stage \in Creating => ~RecordOf(f)
      /\ requests[h].stage = "event" => ~requests[h].created
      /\ requests[h].answer # "available"
  BY <1>4, <1>3 DEF TiesHold, StillTied, ServiceTypes, RequestsOK, RequestShape
<1>6. used'[f] # None /\ recoveries'[f] = recoveries[f]
  <2>1. [RecoveryNext]_recoveryVars
    BY DEF RecoveryNext
  <2>2. ~(RemoveExpired /\ Expired(f))
    BY <1>4 DEF RemoveExpired
  <2> QED
    BY <1>5, <2>1, <2>2, TieKept
<1>7. ~RecordOf(f) => ~RecordOf(f)'
  BY <1>6 DEF RecordOf
<1>8. ASSUME NEW stage, NEW created, NEW answer,
             Becomes(h, stage, f, requests[h].burn, created, answer),
             stage # "idle", stage \in Creating => ~RecordOf(f),
             stage = "event" => ~created, answer # "available"
      PROVE  Goal
  BY <1>4, <1>6, <1>7, <1>8 DEF Becomes, StillTied
<1> HIDE DEF Goal
<1>9. ASSUME NEW answer \in {"used", "refused"}, Answer(h, answer)
      PROVE  Goal
  BY <1>4, <1>8, <1>9, AnswerMoves DEF Moves, Answers, Creating, ServiceTypes
<1>10. ASSUME NEW stage \in Stages \ {"idle", "event"}, Goto(h, stage),
             stage \in Creating => ~RecordOf(f)
      PROVE  Goal
  BY <1>4, <1>5, <1>8, <1>10, GotoMoves DEF Moves, ServiceTypes
<1> USE DEF At, Stages, Creating
<1>11. CASE RegisterVerify(h)
  BY <1>4, <1>9, <1>10, <1>11 DEF RegisterVerify
<1>12. CASE RegisterReadUse(h)
  BY <1>4, <1>5, <1>9, <1>12 DEF RegisterReadUse
<1>13. CASE RegisterSweep(h)
  BY <1>4, <1>5, <1>10, <1>13 DEF RegisterSweep
<1>14. CASE RegisterInsert(h)
  <2>1. recoveries[f] # None
    BY <1>5 DEF EvidenceOK, TablesOK, FeeOK
  <2>2. Becomes(h, "event", f, requests[h].burn, recoveries[f] = None,
                requests[h].answer)
    BY <1>4, <1>14, InsertBecomes DEF ServiceTypes
  <2>3. requests[h].stage = "insert"
    BY <1>14 DEF RegisterInsert
  <2> QED
    BY <1>5, <1>8, <2>1, <2>2, <2>3
<1>15. CASE RegisterEvent(h)
  BY <1>4, <1>5, <1>10, <1>15 DEF RegisterEvent
<1>16. CASE RegisterReread(h)
  BY <1>4, <1>5, <1>9, <1>16 DEF RegisterReread
<1>17. CASE ConsumeFind(h)
  BY <1>4, <1>9, <1>10, <1>17 DEF ConsumeFind
<1>18. CASE ConsumeMark(h)
  BY <1>4, <1>9, <1>10, <1>18 DEF ConsumeMark
<1>19. CASE ConsumeCompare(h)
  BY <1>4, <1>9, <1>10, <1>19 DEF ConsumeCompare
<1>20. CASE ConsumeNote(h)
  BY <1>9, <1>20 DEF ConsumeNote
<1> QED
  BY <1>11, <1>12, <1>13, <1>14, <1>15, <1>16, <1>17, <1>18, <1>19, <1>20
  DEF HandlerStep

\* Every step leaves the requests about tied fees without an offer.
LEMMA NextTied ==
  /\ ServiceTypes /\ ServiceTypes' /\ EvidenceOK
  /\ TiesHold /\ [RecoveryNext]_recoveryVars
  => TiesHold'
<1> SUFFICES ASSUME ServiceTypes, ServiceTypes', EvidenceOK, TiesHold,
                    [RecoveryNext]_recoveryVars, NEW k \in tiedBefore'
             PROVE  StillTied(k)'
  BY DEF TiesHold
<1>1. k \in Handlers
  BY DEF ServiceTypes, RecoveryTypeOK
<1>2. CASE k \in tiedBefore /\ requests'[k] = requests[k]
  BY <1>2, WaitingStayTied DEF TiesHold
<1>3. ASSUME NEW h \in Handlers, HandlerStep(h), UNCHANGED <<now, chainVars>>
      PROVE  StillTied(k)'
  <2>1. CASE k = h
    BY <1>3, <2>1, OwnStepStaysTied
  <2>2. CASE k # h
    <3>1. requests'[k] = requests[k]
      BY <1>1, <1>3, <2>2, HandlerStage
    <3>2. tiedBefore' \subseteq tiedBefore \cup {h}
      BY <1>3, TiedGrows
    <3> QED
      BY <1>2, <2>2, <3>1, <3>2
  <2> QED
    BY <2>1, <2>2
<1>4. CASE RemoveExpired /\ UNCHANGED <<now, chainVars, requests>>
  BY <1>2, <1>4 DEF RemoveExpired
<1>5. CASE UNCHANGED <<requests, tiedBefore>>
  BY <1>2, <1>5
<1>6. Backfill \/ UNCHANGED recoveryVars => UNCHANGED <<requests, tiedBefore>>
  BY DEF Backfill, recoveryVars
<1> QED
  BY <1>3, <1>4, <1>5, <1>6, StepKinds

\* A payer who asks about a fee that is tied to a burn is never told that it
\* may be used, however the requests interleave with each other and with the
\* cleanup, unless the record has been let go since.
THEOREM TiedFeesStayTied == RecoverySpec => []NotOfferedAgain
<1>1. RecoveryInit => TiesHold
  BY DEF RecoveryInit, TiesHold
<1>2. TiesHold => NotOfferedAgain
  BY DEF TiesHold, StillTied, NotOfferedAgain
<1> QED
  BY <1>1, <1>2, NextTied, RecoveryInvariant, PTL DEF RecoverySpec
=============================================================================
