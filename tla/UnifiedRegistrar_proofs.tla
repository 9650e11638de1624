------------------------ MODULE UnifiedRegistrar_proofs ------------------------
(***************************************************************************)
(* Theorems about the pricing policy, and about the registrar composed     *)
(* with it, the registry, the resolver and the retired subdomain module,   *)
(* for any number of names, accounts, quotes, versions and authorizations. *)
(*                                                                         *)
(* The policy keeps one replaced version; the history keeps them all.      *)
(* They agree because a change cannot come sooner than the delay after the *)
(* last one, when the grace period of the version before is over.          *)
(*                                                                         *)
(* Every handler of the registrar moves the registry by one of the         *)
(* registry's own operations, so that its invariant is kept here too; the  *)
(* invariants of the other parts follow handler by handler.                *)
(***************************************************************************)
EXTENDS UnifiedRegistrar, UniversalResolver_proofs

-----------------------------------------------------------------------------
(* The pricing policy *)

\* The version the contract keeps is the last one retired.
KeepsLast ==
  /\ previousVersion = version - 1
  /\ IF version = 1
     THEN /\ previousConfig = NoConfig
          /\ previousQuoteSigner = NoSigner
     ELSE /\ previousConfig = retired[version - 1].config
          /\ previousConfig \in Configs
          /\ previousQuoteSigner = previousConfig.quoteSigner
          /\ previousQuoteValidUntil = retired[version - 1].at + QuoteGracePeriod

\* Changes are a delay apart.
ChangesApart ==
  /\ \A v \in 1 .. version - 2 : retired[v].at + UpdateDelay <= now
  /\ \A v \in 1 .. version - 1 : retired[v].config \in Configs /\ retired[v].at <= now
  /\ hasPendingConfig /\ version > 1 =>
       retired[version - 1].at + UpdateDelay <= pendingActivationTime

PolicyInv == PolicyTypeOK /\ KeepsLast /\ ChangesApart

LEMMA PolicyInitInv == now = 0 /\ PolicyInit => PolicyInv
<1> SUFFICES ASSUME now = 0, PolicyInit PROVE PolicyInv
  OBVIOUS
<1> USE PolicyAssumption, TimeAssumption DEF PolicyInit
<1>1. PolicyTypeOK
  <2>1. retired \in [1 .. MaxVersion ->
          [config : Configs \cup {NoConfig}, at : 0 .. MaxTime]]
    OBVIOUS
  <2>2. /\ config \in Configs /\ 1 \in 1 .. MaxVersion
        /\ 0 \in 0 .. MaxTime + UpdateDelay
        /\ 0 \in 0 .. MaxTime + QuoteGracePeriod
    BY DEF Configs
  <2>3. hasPendingConfig \in BOOLEAN /\ (hasPendingConfig <=> pendingConfig # NoConfig)
    BY Zenon
  <2> QED
    BY <2>1, <2>2, <2>3 DEF PolicyTypeOK
<1>2. KeepsLast /\ ChangesApart
  BY DEF KeepsLast, ChangesApart
<1> QED
  BY <1>1, <1>2 DEF PolicyInv

LEMMA ProposeConfigInv ==
  ASSUME PolicyInv, NEW c \in Proposals, ProposeConfig(c), UNCHANGED now
  PROVE  PolicyInv'
<1> USE PolicyAssumption, TimeAssumption DEF ProposeConfig, activeVars
<1>1. PolicyTypeOK'
  BY DEF PolicyInv, PolicyTypeOK, Configs
<1>2. KeepsLast'
  BY DEF PolicyInv, KeepsLast
<1>3. ASSUME version > 1
      PROVE  retired[version - 1].at + UpdateDelay <= now + UpdateDelay
  <2>1. /\ version \in Nat /\ version - 1 \in 1 .. version - 1 /\ now \in Nat
        /\ version - 1 \in 1 .. MaxVersion
    BY <1>3 DEF PolicyInv, PolicyTypeOK
  <2>2. retired[version - 1].at <= now /\ retired[version - 1].at \in Nat
    BY <2>1 DEF PolicyInv, PolicyTypeOK, ChangesApart
  <2> QED
    BY <2>1, <2>2
<1>4. ChangesApart'
  BY <1>3 DEF PolicyInv, ChangesApart
<1> QED
  BY <1>1, <1>2, <1>4 DEF PolicyInv

LEMMA CancelPendingConfigInv ==
  ASSUME PolicyInv, CancelPendingConfig, UNCHANGED now
  PROVE  PolicyInv'
<1> USE PolicyAssumption, TimeAssumption DEF CancelPendingConfig, activeVars
<1>1. PolicyTypeOK'
  <2>1. hasPendingConfig' \in BOOLEAN
        /\ (hasPendingConfig' <=> pendingConfig' # NoConfig)
    BY Zenon
  <2> QED
    BY <2>1 DEF PolicyInv, PolicyTypeOK
<1>2. KeepsLast' /\ ChangesApart'
  BY DEF PolicyInv, KeepsLast, ChangesApart
<1> QED
  BY <1>1, <1>2 DEF PolicyInv

LEMMA ActivatePendingConfigInv ==
  ASSUME PolicyInv, ActivatePendingConfig, UNCHANGED now
  PROVE  PolicyInv'
<1> USE PolicyAssumption, TimeAssumption
<1>1. /\ version \in Nat /\ version > 0 /\ version < MaxVersion /\ now \in Nat
      /\ MaxVersion \in Nat /\ now \in 0 .. MaxTime
      /\ config \in Configs /\ pendingConfig \in Configs
      /\ config.quoteSigner \in QuoteSigners
      /\ version' = version + 1
      /\ UNCHANGED now
  BY DEF PolicyInv, PolicyTypeOK, ActivatePendingConfig, ValidConfig
<1>2. /\ retired'[version] = [config |-> config, at |-> now]
      /\ \A v \in 1 .. version - 1 : retired'[v] = retired[v]
      /\ retired' \in [1 .. MaxVersion ->
           [config : Configs \cup {NoConfig}, at : 0 .. MaxTime]]
  BY <1>1 DEF PolicyInv, PolicyTypeOK, ActivatePendingConfig, Retire
<1>3. PolicyTypeOK'
  <2>1. hasPendingConfig' \in BOOLEAN
        /\ (hasPendingConfig' <=> pendingConfig' # NoConfig)
    BY Zenon DEF ActivatePendingConfig
  <2> QED
    BY <1>1, <1>2, <2>1 DEF PolicyInv, PolicyTypeOK, ActivatePendingConfig
<1>4. KeepsLast'
  BY <1>1, <1>2 DEF KeepsLast, ActivatePendingConfig
<1>5. \A v \in 1 .. version - 1 : retired[v].at + UpdateDelay <= now
  <2>1. \A v \in 1 .. version - 2 : retired[v].at + UpdateDelay <= now
    BY DEF PolicyInv, ChangesApart
  <2>2. CASE version = 1
    BY <2>2
  <2>3. CASE version > 1
    <3>1. /\ retired[version - 1].at + UpdateDelay <= pendingActivationTime
          /\ pendingActivationTime <= now
          /\ retired[version - 1].at \in Nat /\ pendingActivationTime \in Nat
      BY <1>1, <2>3 DEF PolicyInv, ChangesApart, ActivatePendingConfig, PolicyTypeOK
    <3>2. retired[version - 1].at + UpdateDelay <= now
      BY <1>1, <3>1
    <3>3. \A v \in 1 .. version - 1 : v \in 1 .. version - 2 \/ v = version - 1
      BY <1>1
    <3> QED
      BY <2>1, <3>2, <3>3
  <2> QED
    BY <1>1, <2>2, <2>3
<1>6. ChangesApart'
  <2>1. \A v \in 1 .. version' - 1 : v \in 1 .. version - 1 \/ v = version
    BY <1>1
  <2>2. \A v \in 1 .. version - 1 :
          retired[v].config \in Configs /\ retired[v].at <= now
    BY DEF PolicyInv, ChangesApart
  <2>3. \A v \in 1 .. version' - 1 :
          retired'[v].config \in Configs /\ retired'[v].at <= now'
    <3>1. retired'[version].config = config /\ retired'[version].at = now
      BY <1>2
    <3>2. Configs' = Configs
      BY DEF Configs
    <3> SUFFICES ASSUME NEW v \in 1 .. version' - 1
                 PROVE  retired'[v].config \in Configs /\ retired'[v].at <= now'
      BY <3>2
    <3>3. CASE v \in 1 .. version - 1
      BY <1>1, <1>2, <2>2, <3>3
    <3>4. CASE v = version
      BY <1>1, <3>1, <3>4
    <3> QED
      BY <2>1, <3>3, <3>4
  <2>4. version' - 2 = version - 1 /\ ~hasPendingConfig'
    BY <1>1 DEF ActivatePendingConfig
  <2>5. \A v \in 1 .. version' - 2 : retired'[v].at + UpdateDelay <= now'
    BY <1>1, <1>2, <1>5, <2>4
  <2> QED
    BY <2>3, <2>4, <2>5 DEF ChangesApart
<1> QED
  BY <1>3, <1>4, <1>6 DEF PolicyInv

LEMMA PolicyTickInv ==
  ASSUME PolicyInv, UNCHANGED policyVars, now' \in 0 .. MaxTime, now' >= now
  PROVE  PolicyInv'
<1> USE PolicyAssumption, TimeAssumption DEF policyVars
<1>1. PolicyTypeOK'
  BY DEF PolicyInv, PolicyTypeOK
<1>2. KeepsLast'
  BY DEF PolicyInv, KeepsLast
<1>3. /\ now \in Nat /\ now' \in Nat
      /\ \A v \in 1 .. version - 1 : retired[v].at \in Nat
      /\ version \in Nat
  BY DEF PolicyInv, PolicyTypeOK
<1>4. ChangesApart'
  <2>1. \A v \in 1 .. version - 2 : v \in 1 .. version - 1
    BY <1>3
  <2>2. \A v \in 1 .. version - 2 : retired[v].at + UpdateDelay <= now'
    BY <1>3, <2>1 DEF PolicyInv, ChangesApart
  <2>3. \A v \in 1 .. version - 1 :
          retired[v].config \in Configs /\ retired[v].at <= now'
    BY <1>3 DEF PolicyInv, ChangesApart
  <2> QED
    BY <2>2, <2>3 DEF PolicyInv, ChangesApart
<1> QED
  BY <1>1, <1>2, <1>4 DEF PolicyInv

\* Any step of the policy, alone or in a system that shares its clock.
LEMMA PolicyNextInv ==
  ASSUME PolicyInv,
         \/ PolicyStep /\ UNCHANGED now
         \/ UNCHANGED policyVars /\ now' \in 0 .. MaxTime /\ now' >= now
  PROVE  PolicyInv'
<1>1. CASE PolicyStep /\ UNCHANGED now
  BY <1>1, ProposeConfigInv, CancelPendingConfigInv, ActivatePendingConfigInv
  DEF PolicyStep
<1>2. CASE UNCHANGED policyVars /\ now' \in 0 .. MaxTime /\ now' >= now
  BY <1>2, PolicyTickInv
<1> QED
  BY <1>1, <1>2

LEMMA PolicyInvariant == PolicySpec => []PolicyInv
<1>1. now = 0 /\ PolicyInit => PolicyInv
  BY PolicyInitInv
<1>2. /\ PolicyInv
      /\ [\/ PolicyStep /\ UNCHANGED now
          \/ ClockTick /\ UNCHANGED policyVars]_<<now, policyVars>>
      => PolicyInv'
  <2> SUFFICES ASSUME PolicyInv,
                      [\/ PolicyStep /\ UNCHANGED now
                       \/ ClockTick /\ UNCHANGED policyVars]_<<now, policyVars>>
               PROVE  PolicyInv'
    OBVIOUS
  <2>1. now \in 0 .. MaxTime /\ MaxTime \in Nat
    BY TimeAssumption DEF PolicyInv, PolicyTypeOK
  <2>2. ClockTick => now' \in 0 .. MaxTime /\ now' >= now
    BY <2>1 DEF ClockTick
  <2>3. UNCHANGED now => now' \in 0 .. MaxTime /\ now' >= now
    BY <2>1
  <2> QED
    BY <2>2, <2>3, PolicyNextInv
<1> QED
  BY <1>1, <1>2, PTL DEF PolicySpec

\* A version is in force exactly if it is the present one, or the one the
\* contract keeps, within its grace period.
LEMMA InForceIs ==
  ASSUME PolicyInv, NEW v \in 0 .. MaxVersion, NEW c \in Configs
  PROVE  InForce(v, c) <=>
           \/ v = version /\ c = config
           \/ /\ version > 1 /\ v = previousVersion /\ c = previousConfig
              /\ now <= previousQuoteValidUntil
<1> USE PolicyAssumption, TimeAssumption
<1>1. /\ version \in Nat /\ version > 0 /\ now \in Nat /\ v \in Nat
      /\ UpdateDelay \in Nat /\ QuoteGracePeriod \in Nat
      /\ QuoteGracePeriod < UpdateDelay
      /\ \A w \in 1 .. version - 1 : retired[w].at \in Nat
  BY DEF PolicyInv, PolicyTypeOK
<1>2. ASSUME v \in 1 .. version - 1, v # version - 1
      PROVE  ~(now <= retired[v].at + QuoteGracePeriod)
  <2>1. v \in 1 .. version - 2
    BY <1>1, <1>2
  <2>2. retired[v].at + UpdateDelay <= now
    BY <2>1 DEF PolicyInv, ChangesApart
  <2> QED
    BY <1>1, <1>2, <2>2
<1>3. v = version - 1 /\ version > 1 <=> v \in 1 .. version - 1 /\ v = version - 1
  BY <1>1
<1>4. version > 1 => /\ previousVersion = version - 1
                     /\ previousConfig = retired[version - 1].config
                     /\ previousQuoteValidUntil =
                          retired[version - 1].at + QuoteGracePeriod
  BY <1>1 DEF PolicyInv, KeepsLast
<1> QED
  BY <1>1, <1>2, <1>3, <1>4 DEF InForce

LEMMA GraceFromInv == PolicyInv => GraceIsExact
<1> SUFFICES ASSUME PolicyInv, NEW v \in 0 .. MaxVersion
             PROVE  /\ \A c \in Configs : ConfigForVersion(v) = c <=> InForce(v, c)
                    /\ \A s \in QuoteSigners :
                         IsQuoteAuthorizationValid(s, v)
                           <=> \E c \in Configs :
                                 InForce(v, c) /\ c.quoteSigner = s
  BY DEF GraceIsExact
<1> USE PolicyAssumption
<1>1. /\ version \in Nat /\ version > 0 /\ previousVersion = version - 1
      /\ config \in Configs
      /\ version = 1 => previousConfig = NoConfig /\ previousQuoteSigner = NoSigner
      /\ version > 1 => /\ previousConfig \in Configs
                        /\ previousQuoteSigner = previousConfig.quoteSigner
  BY DEF PolicyInv, PolicyTypeOK, KeepsLast
<1>2. \A c \in Configs : c # NoConfig
  OBVIOUS
<1>3. ASSUME NEW c \in Configs PROVE ConfigForVersion(v) = c <=> InForce(v, c)
  BY <1>1, <1>2, InForceIs DEF ConfigForVersion
<1>4. ASSUME NEW s \in QuoteSigners
      PROVE  IsQuoteAuthorizationValid(s, v)
               <=> \E c \in Configs : InForce(v, c) /\ c.quoteSigner = s
  <2>1. s # NoSigner
    BY DEF NoSigner
  <2> QED
    BY <1>1, <2>1, InForceIs DEF IsQuoteAuthorizationValid
<1> QED
  BY <1>3, <1>4

\* Every variable of the policy keeps its type; in particular no configuration
\* that fails _validateConfig ever comes into force.
THEOREM PolicyTypesKept == PolicySpec => []PolicyTypeOK
<1>1. PolicyInv => PolicyTypeOK
  BY DEF PolicyInv
<1> QED
  BY <1>1, PolicyInvariant, PTL

\* The one replaced version the contract keeps is all that a grace period ever
\* needs: quotes are priced and authenticated by exactly the versions replaced
\* no longer ago than it, however often the configuration changes.
THEOREM GraceIsAlwaysExact == PolicySpec => []GraceIsExact
BY GraceFromInv, PolicyInvariant, PTL

USE DEF Nodes, Expiries

-----------------------------------------------------------------------------
(* What the handlers do to the registry *)

LegacySubsTyped == legacySubs \in [SubNodes -> LegacySub]

\* What a presented quote, and a sale made with it, are known to say.
LEMMA QuoteFields ==
  ASSUME NEW sender \in Accounts, NEW q \in PresentedQuotes(sender)
  PROVE  /\ q.nameOwner \in Accounts /\ q.nameOwner # None
         /\ q.version \in 1 .. MaxVersion /\ q.nonce \in 0 .. MaxNonce
BY NoneAssumption DEF PresentedQuotes

LEMMA SoldTerm ==
  ASSUME NEW sender, NEW q, NEW auth, NEW n, NEW product,
         Sell(sender, q, auth, n, product)
  PROVE  q.termYears * Year \in Nat
<1>1. q.termYears \in Terms
  BY DEF Sell, ValidateQuote
<1>2. \A y \in Terms : y * Year \in Nat
  BY RegistrarAssumption DEF Terms
<1> QED
  BY <1>1, <1>2

\* A sale that is neither refused nor paid for moves nothing but the nonce,
\* the uses of its authorization and the histories.
LEMMA SellLeaves ==
  ASSUME NEW sender, NEW q, NEW auth, NEW n, NEW product,
         Sell(sender, q, auth, n, product)
  PROVE  UNCHANGED <<policyVars, legacySubs, adminVars>>
BY DEF Sell

LEMMA RegisterMoves ==
  ASSUME RegistryInv, NEW sender \in Accounts,
         NEW q, q.nameOwner \in Accounts, NEW auth, NEW n \in TopNodes,
         Register(sender, q, auth, n)
  PROVE  /\ RegistrarCall /\ q.nameOwner \in Accounts
         /\ RegisterTopLevel(n, q.nameOwner, now + q.termYears * Year)
         /\ now + q.termYears * Year \in ExpiryInputs
<1> DEFINE e == now + q.termYears * Year
<1>1. /\ RegisterTopLevel(n, q.nameOwner, e) /\ q.nameOwner \in Accounts
  BY DEF Register
<1>2. now \in Nat /\ q.termYears * Year \in Nat
  BY SoldTerm, TimeAssumption DEF Register, RegistryInv, TypeOK
<1>3. e \in Nat /\ e <= MaxExpiry
  BY <1>1, <1>2 DEF RegisterTopLevel, FutureExpiry
<1>4. e \in ExpiryInputs
  BY <1>3, BoundsAssumption DEF ExpiryInputs
<1> HIDE DEF e
<1> QED
  BY <1>1, <1>4 DEF RegistrarCall, e

LEMMA RenewMoves ==
  ASSUME RegistryInv, NEW sender \in Accounts,
         NEW q, q.nameOwner \in Accounts, NEW auth, NEW n \in TopNodes,
         Renew(sender, q, auth, n)
  PROVE  RegistrarCall
<1> DEFINE e == ExpiryOf(n) + q.termYears * Year
<1>1. RenewTopLevel(n, e)
  BY DEF Renew
<1>2. ExpiryOf(n) \in Nat /\ q.termYears * Year \in Nat
  BY SoldTerm, RecordsType, BoundsAssumption
  DEF Renew, RegistryInv, ExpiryOf, Record
<1>3. e \in Nat /\ e <= MaxExpiry
  BY <1>1, <1>2 DEF RenewTopLevel
<1>4. e \in ExpiryInputs
  BY <1>3, BoundsAssumption DEF ExpiryInputs
<1> HIDE DEF e
<1> QED
  BY <1>1, <1>4 DEF RegistrarCall

LEMMA SellSubdomainMoves ==
  ASSUME RegistryInv, NEW sender \in Accounts,
         NEW q, q.nameOwner \in Accounts, NEW auth, NEW n \in SubNodes,
         SellSubdomain(sender, q, auth, n)
  PROVE  RegistrarCall
<1> DEFINE e == now + q.termYears * Year
<1>1. RegisterSubdomain(n, ParentNode[n], q.nameOwner, e)
      /\ q.nameOwner \in Accounts
  BY DEF SellSubdomain
<1>2. now \in Nat /\ q.termYears * Year \in Nat
  BY SoldTerm, TimeAssumption DEF SellSubdomain, RegistryInv, TypeOK
<1>3. e \in Nat /\ e <= MaxExpiry
  BY <1>1, <1>2 DEF RegisterSubdomain, FutureExpiry
<1>4. e \in ExpiryInputs
  BY <1>3, BoundsAssumption DEF ExpiryInputs
<1> HIDE DEF e
<1> QED
  BY <1>1, <1>4 DEF RegistrarCall

LEMMA SellSubdomainRenewalMoves ==
  ASSUME RegistryInv, NEW sender \in Accounts,
         NEW q, q.nameOwner \in Accounts, NEW auth, NEW n \in SubNodes,
         SellSubdomainRenewal(sender, q, auth, n)
  PROVE  RegistrarCall
<1> DEFINE base == IF Records(n).expiry < now THEN now ELSE Records(n).expiry
           e == base + q.termYears * Year
<1>1. RenewSubdomain(n, e)
  BY DEF SellSubdomainRenewal
<1>2. base \in Nat /\ q.termYears * Year \in Nat
  <2>1. now \in Nat /\ Records(n).expiry \in Nat
    BY RecordsType, BoundsAssumption, TimeAssumption
    DEF RegistryInv, TypeOK, Record
  <2> QED
    BY <2>1, SoldTerm DEF SellSubdomainRenewal
<1> HIDE DEF base
<1>3. e \in Nat /\ e <= MaxExpiry
  BY <1>1, <1>2 DEF RenewSubdomain, FutureExpiry
<1>4. e \in ExpiryInputs
  BY <1>3, BoundsAssumption DEF ExpiryInputs
<1> HIDE DEF e
<1> QED
  BY <1>1, <1>4 DEF RegistrarCall

LEMMA MigrateSubdomainMoves ==
  ASSUME RegistryInv, LegacySubsTyped, NEW n \in SubNodes, MigrateSubdomain(n)
  PROVE  /\ RegistrarCall
         /\ legacySubs[n].owner \in Accounts
         /\ legacySubs[n].expiry \in ExpiryInputs
<1>1. legacySubs[n] \in LegacySub /\ legacySubs[n].owner # None
  BY DEF LegacySubsTyped, MigrateSubdomain
<1>2. legacySubs[n].owner \in Accounts /\ legacySubs[n].expiry \in ExpiryInputs
  BY <1>1, BoundsAssumption DEF LegacySub, ExpiryInputs
<1>3. RegisterSubdomain(n, ParentNode[n], legacySubs[n].owner,
                        legacySubs[n].expiry)
  BY DEF MigrateSubdomain
<1> QED
  BY <1>2, <1>3 DEF RegistrarCall

\* Reassigning, recalling and releasing.
LEMMA ParentStepMoves ==
  ASSUME ParentStep
  PROVE  /\ RegistrarCall /\ AgeRecords
         /\ UNCHANGED <<legacyRoutesImported, registrarSideVars>>
<1>1. ASSUME NEW sender \in Accounts, NEW n \in SubNodes,
             \/ \E newOwner \in Accounts : Reassign(sender, n, newOwner)
             \/ Recall(sender, n)
             \/ Release(sender, n)
      PROVE  /\ RegistrarCall /\ AgeRecords
             /\ UNCHANGED <<legacyRoutesImported, registrarSideVars>>
  <2>1. /\ AgeRecords
        /\ UNCHANGED <<legacyRoutesImported, registrarSideVars>>
    BY <1>1 DEF Reassign, Recall, Release, ByParentOwner
  <2>2. \/ \E a \in Accounts : ReassignSubdomain(n, a)
        \/ ReleaseSubdomain(n)
    BY <1>1 DEF Reassign, Recall, Release
  <2> QED
    BY <2>1, <2>2 DEF RegistrarCall
<1> QED
  BY <1>1 DEF ParentStep

\* The handlers that do no more to the resolver than let its records age.
AgingSale(sender, q, auth, n) ==
  \/ n \in TopNodes /\ Renew(sender, q, auth, n)
  \/ n \in SubNodes /\ SellSubdomain(sender, q, auth, n)
  \/ n \in SubNodes /\ SellSubdomainRenewal(sender, q, auth, n)

LEMMA AgingSaleMoves ==
  ASSUME RegistryInv, NEW sender \in Accounts,
         NEW q, q.nameOwner \in Accounts, NEW auth, NEW n \in Nodes,
         AgingSale(sender, q, auth, n)
  PROVE  RegistrarCall /\ AgeRecords /\ UNCHANGED legacyRoutesImported
<1>1. CASE n \in TopNodes /\ Renew(sender, q, auth, n)
  BY <1>1, RenewMoves DEF Renew
<1>2. CASE n \in SubNodes /\ SellSubdomain(sender, q, auth, n)
  BY <1>2, SellSubdomainMoves DEF SellSubdomain
<1>3. CASE n \in SubNodes /\ SellSubdomainRenewal(sender, q, auth, n)
  BY <1>3, SellSubdomainRenewalMoves DEF SellSubdomainRenewal
<1> QED
  BY <1>1, <1>2, <1>3 DEF AgingSale

\* A sale is a registration of a top-level name, or one of the others.
LEMMA SaleKinds ==
  ASSUME SaleStep
  PROVE  \E sender \in Accounts,
            auth \in Authorizations \cup {NoAuthorization},
            n \in Nodes :
           \E q \in PresentedQuotes(sender) :
             \/ n \in TopNodes /\ Register(sender, q, auth, n)
             \/ AgingSale(sender, q, auth, n)
BY DEF SaleStep, AgingSale

LEMMA NamesStepMoves ==
  NamesStep => /\ Next /\ AgeRecords
               /\ UNCHANGED <<legacyRoutesImported, registrarSideVars>>
BY DEF NamesStep, Next

LEMMA OthersLeaveRegistry ==
  /\ RecordsStep => UNCHANGED registryVars
  /\ PricingStep \/ AdminStep \/ LegacySubStep \/ UNCHANGED unifiedVars
       => UNCHANGED resolverVars
<1>1. RecordStep => UNCHANGED registryVars
  BY DEF RecordStep, SetAddress, ClearAddress, SetText, SetPrimaryName,
         ClearPrimaryName
<1> QED
  BY <1>1 DEF RecordsStep, PricingStep, AdminStep, LegacySubStep, unifiedVars

\* The registry moves only by its own steps.
LEMMA RegistryMovesUnified ==
  ASSUME RegistryInv, LegacySubsTyped, [UnifiedNext]_unifiedVars
  PROVE  [Next]_registryVars
<1>1. CASE NamesStep
  BY <1>1, NamesStepMoves
<1>2. CASE RecordsStep
  BY <1>2, OthersLeaveRegistry
<1>3. CASE PricingStep \/ AdminStep \/ LegacySubStep \/ UNCHANGED unifiedVars
  BY <1>3, OthersLeaveRegistry DEF resolverVars
<1>4. CASE SaleStep
  BY <1>4, SaleKinds, QuoteFields, RegisterMoves, AgingSaleMoves DEF Next
<1>5. CASE ParentStep
  BY <1>5, ParentStepMoves DEF Next
<1>6. CASE \E n \in SubNodes : MigrateSubdomain(n)
  BY <1>6, MigrateSubdomainMoves DEF Next
<1> QED
  BY <1>1, <1>2, <1>3, <1>4, <1>5, <1>6 DEF UnifiedNext

-----------------------------------------------------------------------------
(* The registrar's own variables *)

AdminTyped ==
  /\ authorizationSigner \in AuthorizationSigners
  /\ pendingAuthorizationSigner \in AuthorizationSigners \cup {None}
  /\ signerActivationTime \in 0 .. MaxTime + UpdateDelay
  /\ hasPendingConfiguration <=> pendingAuthorizationSigner # None
  /\ revoked \in [Authorizations -> BOOLEAN]
  /\ paused \in [Switches -> BOOLEAN]

SalesGood ==
  /\ nonces \in [Accounts -> 0 .. MaxNonce]
  /\ uses \in [Authorizations -> Nat]
  /\ \A auth \in Authorizations : uses[auth] \in 0 .. auth.maxUses
  /\ redemptions \in [Accounts -> [0 .. MaxNonce -> Nat]]
  /\ QuoteRedeemedOnce

RegistrarInv == LegacySubsTyped /\ AdminTyped /\ SalesGood

LEMMA RegistrarInitInv == UnifiedInit => RegistrarInv
<1> SUFFICES ASSUME UnifiedInit PROVE RegistrarInv
  OBVIOUS
<1>1. LegacySubsTyped
  BY LegacySubAssumption DEF UnifiedInit, LegacySubsTyped
<1>2. AdminTyped
  <2>1. hasPendingConfiguration <=> pendingAuthorizationSigner # None
    BY Zenon DEF UnifiedInit
  <2> QED
    BY <2>1, RegistrarAssumption, TimeAssumption, PolicyAssumption
    DEF UnifiedInit, AdminTyped
<1>3. SalesGood
  BY RegistrarAssumption
  DEF UnifiedInit, SalesGood, QuoteRedeemedOnce, Authorization
<1> QED
  BY <1>1, <1>2, <1>3 DEF RegistrarInv

\* The handlers of the registrar's owner.
LEMMA AdminStepTyped ==
  ASSUME TypeOK, AdminTyped, AdminStep
  PROVE  AdminTyped'
<1> USE RegistrarAssumption, TimeAssumption, PolicyAssumption
<1>0. now \in 0 .. MaxTime
  BY DEF TypeOK
<1>1. ASSUME NEW signer \in AuthorizationSigners, ProposeConfiguration(signer)
      PROVE  AdminTyped'
  <2>1. hasPendingConfiguration' <=> pendingAuthorizationSigner' # None
    <3>1. signer # None
      OBVIOUS
    <3> QED
      BY <1>1, <3>1, Zenon DEF ProposeConfiguration
  <2> QED
    BY <1>0, <1>1, <2>1 DEF AdminTyped, ProposeConfiguration
<1>2. ASSUME CancelPendingConfiguration
      PROVE  AdminTyped'
  <2>1. hasPendingConfiguration' <=> pendingAuthorizationSigner' # None
    BY <1>2, Zenon DEF CancelPendingConfiguration
  <2> QED
    BY <1>2, <2>1 DEF AdminTyped, CancelPendingConfiguration
<1>3. ASSUME ActivatePendingConfiguration
      PROVE  AdminTyped'
  <2>1. hasPendingConfiguration' <=> pendingAuthorizationSigner' # None
    BY <1>3, Zenon DEF ActivatePendingConfiguration
  <2>2. pendingAuthorizationSigner # None
    BY <1>3, Zenon DEF AdminTyped, ActivatePendingConfiguration
  <2> QED
    BY <1>3, <2>1, <2>2 DEF AdminTyped, ActivatePendingConfiguration
<1>4. ASSUME NEW auth \in Authorizations, RevokeDiscount(auth)
      PROVE  AdminTyped'
  BY <1>4 DEF AdminTyped, RevokeDiscount, signerVars
<1>5. ASSUME NEW state \in PauseStates, SetPauseState(state)
      PROVE  AdminTyped'
  BY <1>5 DEF AdminTyped, SetPauseState, signerVars
<1> QED
  BY <1>1, <1>2, <1>3, <1>4, <1>5 DEF AdminStep

\* The retired module's remaining handlers.
LEMMA LegacySubStepTyped ==
  ASSUME LegacySubsTyped, LegacySubStep
  PROVE  LegacySubsTyped'
<1>1. ASSUME NEW n \in SubNodes, NEW a \in Accounts, LegacySubMove(n, a)
      PROVE  LegacySubsTyped'
  <2>1. [legacySubs[n] EXCEPT !.owner = a, !.routes = NoRoutes] \in LegacySub
    BY DEF LegacySubsTyped, LegacySub, NoRoutes
  <2> QED
    BY <1>1, <2>1 DEF LegacySubMove, LegacySubWrite, LegacySubsTyped
<1>2. ASSUME NEW n \in SubNodes, NEW chain \in Chains,
             NEW a \in Accounts \cup {None}, LegacySubSetAddress(n, chain, a)
      PROVE  LegacySubsTyped'
  <2>1. [legacySubs[n] EXCEPT !.routes[chain] = a] \in LegacySub
    BY DEF LegacySubsTyped, LegacySub
  <2> QED
    BY <1>2, <2>1 DEF LegacySubSetAddress, LegacySubWrite, LegacySubsTyped
<1>3. ASSUME NEW n \in SubNodes, LegacySubRelease(n)
      PROVE  LegacySubsTyped'
  <2>1. EmptyLegacySub \in LegacySub
    BY BoundsAssumption DEF EmptyLegacySub, LegacySub, NoRoutes
  <2> QED
    BY <1>3, <2>1 DEF LegacySubRelease, LegacySubWrite, LegacySubsTyped
<1> QED
  BY <1>1, <1>2, <1>3 DEF LegacySubStep

\* What a sale of one product by one account changes.
LEMMA SellKeepsSales ==
  ASSUME SalesGood, NEW sender \in Accounts, NEW q,
         NEW auth \in Authorizations \cup {NoAuthorization}, NEW n,
         NEW product, Sell(sender, q, auth, n, product)
  PROVE  SalesGood'
<1> USE RegistrarAssumption
<1>1. /\ q.nonce = nonces[sender] /\ q.nonce < MaxNonce
      /\ nonces' = [nonces EXCEPT ![sender] = q.nonce + 1]
      /\ redemptions' = [redemptions EXCEPT ![sender][q.nonce] = @ + 1]
  BY DEF Sell, BumpNonce, ValidateQuote
<1>2. nonces[sender] \in 0 .. MaxNonce /\ q.nonce \in Nat
  BY <1>1 DEF SalesGood
<1>3. nonces' \in [Accounts -> 0 .. MaxNonce]
  BY <1>1, <1>2 DEF SalesGood
<1>4. redemptions' \in [Accounts -> [0 .. MaxNonce -> Nat]]
  <2>1. redemptions[sender] \in [0 .. MaxNonce -> Nat]
    BY DEF SalesGood
  <2>2. [redemptions[sender] EXCEPT ![q.nonce] = @ + 1]
          \in [0 .. MaxNonce -> Nat]
    BY <1>1, <1>2, <2>1
  <2> QED
    BY <1>1, <2>2 DEF SalesGood
<1>5. QuoteRedeemedOnce'
  <2>1. ASSUME NEW a \in Accounts, NEW k \in 0 .. MaxNonce
        PROVE  redemptions'[a][k] = IF k < nonces'[a] THEN 1 ELSE 0
    <3>0. redemptions[a][k] = IF k < nonces[a] THEN 1 ELSE 0
      BY DEF SalesGood, QuoteRedeemedOnce
    <3>1. CASE a # sender
      <4>1. redemptions'[a] = redemptions[a] /\ nonces'[a] = nonces[a]
        BY <1>1, <3>1 DEF SalesGood
      <4> QED
        BY <3>0, <4>1
    <3>2. CASE a = sender
      <4>1. nonces'[a] = nonces[a] + 1 /\ nonces[a] \in Nat
        BY <1>1, <1>2, <3>2 DEF SalesGood
      <4>2. redemptions'[a][k] =
              IF k = nonces[a] THEN redemptions[a][k] + 1
              ELSE redemptions[a][k]
        BY <1>1, <1>2, <3>2 DEF SalesGood
      <4>3. CASE k = nonces[a]
        BY <3>0, <4>1, <4>2, <4>3
      <4>4. CASE k # nonces[a]
        BY <3>0, <4>1, <4>2, <4>4
      <4> QED
        BY <4>3, <4>4
    <3> QED
      BY <3>1, <3>2
  <2> QED
    BY <2>1 DEF QuoteRedeemedOnce
<1>6. /\ uses' \in [Authorizations -> Nat]
      /\ \A b \in Authorizations : uses'[b] \in 0 .. b.maxUses
  <2>1. CASE auth = NoAuthorization
    <3>1. UNCHANGED uses
      BY <2>1 DEF Sell
    <3> QED
      BY <3>1 DEF SalesGood
  <2>2. CASE auth # NoAuthorization
    <3>1. /\ auth \in Authorizations /\ uses[auth] < auth.maxUses
          /\ uses' = [uses EXCEPT ![auth] = @ + 1]
      BY <2>2 DEF Sell, ConsumeDiscount
    <3>2. auth.maxUses \in Nat /\ uses[auth] \in Nat
      BY <3>1 DEF Authorization, SalesGood
    <3> QED
      BY <3>1, <3>2 DEF SalesGood
  <2> QED
    BY <2>1, <2>2
<1> QED
  BY <1>3, <1>4, <1>5, <1>6 DEF SalesGood

\* Every sale is a Sell of one of the products; the clock stands still.
LEMMA SaleSells ==
  ASSUME NEW sender, NEW q, NEW auth, NEW n,
         Register(sender, q, auth, n) \/ AgingSale(sender, q, auth, n)
  PROVE  /\ \E product \in Products : Sell(sender, q, auth, n, product)
         /\ UNCHANGED now
<1>1. CASE Register(sender, q, auth, n)
  BY <1>1 DEF Register, RegisterTopLevel, Products
<1>2. CASE Renew(sender, q, auth, n)
  BY <1>2 DEF Renew, RenewTopLevel, Products
<1>3. CASE SellSubdomain(sender, q, auth, n)
  BY <1>3 DEF SellSubdomain, RegisterSubdomain, Products
<1>4. CASE SellSubdomainRenewal(sender, q, auth, n)
  BY <1>4 DEF SellSubdomainRenewal, RenewSubdomain, Products
<1> QED
  BY <1>1, <1>2, <1>3, <1>4 DEF AgingSale

NoSaleStep ==
  \/ NamesStep \/ RecordsStep \/ PricingStep \/ AdminStep \/ LegacySubStep
  \/ ParentStep \/ \E n \in SubNodes : MigrateSubdomain(n)

LEMMA NoSaleMade ==
  NoSaleStep => UNCHANGED saleVars /\ call'.sale = NoSale
<1>1. ParentStep => UNCHANGED saleVars /\ call'.sale = NoSale
  <2>1. ASSUME NEW sender, NEW n, ByParentOwner(sender, n)
        PROVE  UNCHANGED saleVars /\ call'.sale = NoSale
    BY <2>1 DEF ByParentOwner, registrarSideVars, NoCall
  <2> QED
    BY <2>1 DEF ParentStep, Reassign, Recall, Release
<1> QED
  BY <1>1
  DEF NoSaleStep, NamesStep, RecordsStep, PricingStep, AdminStep,
      LegacySubStep, MigrateSubdomain, registrarSideVars, NoCall

LEMMA NextKinds == UnifiedNext => SaleStep \/ NoSaleStep
BY DEF UnifiedNext, NoSaleStep

LEMMA RegistrarNextInv ==
  ASSUME TypeOK, RegistrarInv, [UnifiedNext]_unifiedVars
  PROVE  RegistrarInv'
<1>1. CASE UNCHANGED <<legacySubs, adminVars, saleVars>>
  <2>1. UNCHANGED <<legacySubs, authorizationSigner,
                    pendingAuthorizationSigner, signerActivationTime,
                    hasPendingConfiguration, revoked, paused>>
    BY <1>1 DEF adminVars, signerVars
  <2>2. UNCHANGED <<nonces, uses, redemptions>>
    BY <1>1 DEF saleVars
  <2>3. AdminTyped'
    BY <2>1 DEF RegistrarInv, AdminTyped
  <2> QED
    BY <2>1, <2>2, <2>3
    DEF RegistrarInv, LegacySubsTyped, SalesGood, QuoteRedeemedOnce
<1>2. CASE AdminStep
  <2>1. AdminTyped'
    BY <1>2, AdminStepTyped DEF RegistrarInv
  <2>2. UNCHANGED legacySubs /\ UNCHANGED <<nonces, uses, redemptions>>
    BY <1>2 DEF AdminStep, saleVars
  <2> QED
    BY <2>1, <2>2
    DEF RegistrarInv, LegacySubsTyped, SalesGood, QuoteRedeemedOnce
<1>3. CASE LegacySubStep
  <2>1. LegacySubsTyped'
    BY <1>3, LegacySubStepTyped DEF RegistrarInv
  <2>2. UNCHANGED <<authorizationSigner, pendingAuthorizationSigner,
                    signerActivationTime, hasPendingConfiguration, revoked,
                    paused>>
    BY <1>3 DEF LegacySubStep, adminVars, signerVars
  <2>3. UNCHANGED <<nonces, uses, redemptions>>
    BY <1>3 DEF LegacySubStep, saleVars
  <2>4. AdminTyped'
    BY <2>2 DEF RegistrarInv, AdminTyped
  <2> QED
    BY <2>1, <2>3, <2>4 DEF RegistrarInv, SalesGood, QuoteRedeemedOnce
<1>4. CASE SaleStep
  <2>1. PICK sender \in Accounts,
             auth \in Authorizations \cup {NoAuthorization},
             n \in Nodes :
          \E q \in PresentedQuotes(sender) :
            \/ n \in TopNodes /\ Register(sender, q, auth, n)
            \/ AgingSale(sender, q, auth, n)
    BY <1>4, SaleKinds
  <2>2. PICK q \in PresentedQuotes(sender) :
          Register(sender, q, auth, n) \/ AgingSale(sender, q, auth, n)
    BY <2>1
  <2>3. PICK product \in Products : Sell(sender, q, auth, n, product)
    BY <2>2, SaleSells
  <2>4. SalesGood'
    BY <2>3, SellKeepsSales DEF RegistrarInv
  <2>5. UNCHANGED <<legacySubs, authorizationSigner,
                    pendingAuthorizationSigner, signerActivationTime,
                    hasPendingConfiguration, revoked, paused>>
    BY <2>3, SellLeaves DEF adminVars, signerVars
  <2>6. AdminTyped'
    BY <2>5 DEF RegistrarInv, AdminTyped
  <2> QED
    BY <2>4, <2>5, <2>6 DEF RegistrarInv, LegacySubsTyped
<1>5. CASE \/ NamesStep \/ RecordsStep \/ PricingStep \/ ParentStep
           \/ \E n \in SubNodes : MigrateSubdomain(n)
           \/ UNCHANGED unifiedVars
  <2>1. UNCHANGED <<legacySubs, adminVars, saleVars>>
    BY <1>5, ParentStepMoves
    DEF NamesStep, RecordsStep, PricingStep, MigrateSubdomain, unifiedVars,
        registrarSideVars
  <2> QED
    BY <1>1, <2>1
<1> QED
  BY <1>2, <1>3, <1>4, <1>5 DEF UnifiedNext

-----------------------------------------------------------------------------
(* The resolver's records under the registrar's handlers *)

\* A name that was just registered is its owner's, under a counted generation.
LEMMA RegisteredOwner ==
  ASSUME RegistryInv, RegistryInv', NEW n \in Nodes, NEW owner \in Accounts,
         NEW r \in Record, r.owner = owner, r.expiry > now, UNCHANGED now,
         Write(n, r), Anchor(n), AdvanceGeneration(n, 1)
  PROVE  /\ OwnerOf(n)' = owner /\ owner # None
         /\ generation'[n] = generation[n] + 1
         /\ generation'[n] \in 1 .. MaxGeneration
<1>1. SimpleOwners'
  BY OwnersStaySimple DEF RegistryInv
<1>2. TypeOK /\ now \in Nat /\ r.expiry \in Nat /\ owner # None
  BY TimeAssumption, BoundsAssumption, NoneAssumption
  DEF RegistryInv, TypeOK, Record
<1>3. Records(n)' = r
  BY <1>2 DEF TypeOK, Write, Anchor, Records
<1>4. /\ generation[n] \in 0 .. MaxGeneration
      /\ generation'[n] = generation[n] + 1
      /\ generation[n] + 1 <= MaxGeneration
  BY <1>2 DEF TypeOK, AdvanceGeneration
<1> QED
  BY <1>1, <1>2, <1>3, <1>4, BoundsAssumption DEF SimpleOwners

\* register, with the primary name it may initialise.
LEMMA RegisterKeepsRecords ==
  ASSUME RegistryInv, RegistryInv', RecordsInv,
         NEW sender \in Accounts, NEW q, q.nameOwner \in Accounts, NEW auth,
         NEW n \in TopNodes, Register(sender, q, auth, n)
  PROVE  RecordsInv'
<1> DEFINE e == now + q.termYears * Year
<1>1. /\ RegistrarCall /\ q.nameOwner \in Accounts
      /\ RegisterTopLevel(n, q.nameOwner, e) /\ e \in ExpiryInputs
  BY RegisterMoves
<1> HIDE DEF e
<1>2. [Next]_registryVars
  BY <1>1 DEF Next
<1>3. /\ addresses' = AgedAddresses /\ texts' = AgedTexts
      /\ chosen' = AgedChosen /\ UNCHANGED legacyRoutesImported
      /\ InitializePrimary(sender, q, n)
  BY DEF Register
<1>4. /\ OwnerOf(n)' = q.nameOwner
      /\ generation'[n] \in 1 .. MaxGeneration
  <2> DEFINE r == TopLevelRecord(q.nameOwner, None, e)
  <2>1. now < e /\ e <= MaxExpiry /\ e \in Nat /\ now \in Nat
    BY <1>1, TimeAssumption, BoundsAssumption
    DEF RegisterTopLevel, FutureExpiry, ExpiryInputs, RegistryInv, TypeOK
  <2>2. r \in Record /\ r.owner = q.nameOwner /\ r.expiry > now
    BY <1>1, <2>1, BoundsAssumption DEF TopLevelRecord, Record
  <2>3. /\ Write(n, r) /\ Anchor(n) /\ AdvanceGeneration(n, 1)
        /\ UNCHANGED now
    BY <1>1 DEF RegisterTopLevel
  <2> HIDE DEF r
  <2> QED
    BY <1>1, <2>2, <2>3, RegisteredOwner
<1>5. AddressesGood' /\ TextsGood'
  BY <1>2, <1>3, AddressesAge, TextsAge
<1>6. AgedPrimary \in [Accounts -> PrimaryRecord]
  BY <1>2, PrimaryAged DEF AgedPrimary
<1>7. chosen' \in [Accounts -> Nodes \cup {None}]
  BY <1>3, ChosenTyped
<1>8. CASE primary' = AgedPrimary
  <2>1. PrimaryGood'
    BY <1>2, <1>8, PrimaryAges
  <2>2. ChosenGood'
    BY <1>2, <1>3, <1>7, <1>8, ChosenAged DEF ChosenGood
  <2> QED
    BY <1>3, <1>5, <2>1, <2>2 DEF RecordsInv
<1>9. ASSUME primary' = [AgedPrimary EXCEPT ![sender] = RegisteredPrimary(n)],
             sender = q.nameOwner,
             NEW record, record = primary[sender],
             ~IsPrimaryActive(sender, record)'
      PROVE  RecordsInv'
  <2> DEFINE p == RegisteredPrimary(n)
  <2>1. /\ p \in PrimaryRecord /\ p.node = n /\ n # None /\ p.inTenure
        /\ Tells(sender, p.generation, p.inTenure, OwnerOf(n)', generation'[n])
    <3>1. n # None /\ sender # None
      BY NoneAssumption
    <3> QED
      BY <1>4, <1>9, <3>1, BoundsAssumption
      DEF RegisteredPrimary, PrimaryRecord, Tells
  <2> HIDE DEF p
  <2>2. \A a \in Accounts :
          primary'[a] = IF a = sender THEN p ELSE AgedPrimary[a]
    BY <1>6, <1>9 DEF p
  <2>3. primary' \in [Accounts -> PrimaryRecord]
    BY <1>6, <1>9, <2>1 DEF p
  <2>4. PrimaryGood'
    <3>1. ASSUME NEW a \in Accounts
          PROVE  /\ primary'[a].node = None => primary'[a] = NoPrimary
                 /\ \A m \in Nodes : primary'[a].node = m =>
                      Tells(a, primary'[a].generation, primary'[a].inTenure,
                            OwnerOf(m)', generation'[m])
      <4>1. CASE a = sender
        BY <2>1, <2>2, <4>1
      <4>2. CASE a # sender
        BY <1>2, <2>2, <4>2, PrimaryAged
      <4> QED
        BY <4>1, <4>2
    <3> QED
      BY <2>3, <3>1 DEF PrimaryGood
  <2>5. AgedChosen[sender] = None
    <3> SUFFICES ASSUME AgedChosen[sender] # None PROVE FALSE
      OBVIOUS
    <3>1. PICK m \in Nodes : m = AgedChosen[sender]
      BY <1>2, ChosenAged
    <3>2. AgedPrimary[sender].node = m /\ AgedPrimary[sender].inTenure
      BY <1>2, <3>1, ChosenAged
    <3>3. /\ record.node = m /\ m # None
          /\ Tells(sender, record.generation, AgedPrimary[sender].inTenure,
                   OwnerOf(m)', generation'[m])
      BY <1>2, <1>9, <3>2, PrimaryAged, NoneAssumption
    <3>4. OwnerOf(m)' = sender /\ record.generation = generation'[m]
      BY <3>2, <3>3 DEF Tells
    <3> QED
      BY <1>9, <3>3, <3>4 DEF IsPrimaryActive
  <2>6. ChosenGood'
    <3>1. ASSUME NEW a \in Accounts, chosen'[a] # None
          PROVE  primary'[a].node = chosen'[a] /\ primary'[a].inTenure
      <4>1. a # sender /\ AgedChosen[a] # None
        BY <1>3, <2>5, <3>1
      <4>2. primary'[a] = AgedPrimary[a]
        BY <2>2, <4>1
      <4> QED
        BY <1>2, <1>3, <4>1, <4>2, ChosenAged
    <3> QED
      BY <1>7, <3>1 DEF ChosenGood
  <2> QED
    BY <1>3, <1>5, <2>4, <2>6 DEF RecordsInv
<1> QED
  BY <1>3, <1>8, <1>9 DEF InitializePrimary

\* The route of an address the retired module answers with is a real one.
LEMMA LegacyAddress ==
  ASSUME LegacySubsTyped, NEW n \in SubNodes, MigrateSubdomain(n),
         NEW chain \in LegacyChains
  PROVE  LegacyAddressOf(n, chain) \in Accounts
<1>1. chain \in Chains
  BY RegistrarAssumption
<1>2. /\ legacySubs[n].owner \in Accounts
      /\ legacySubs[n].routes[chain] \in Accounts \cup {None}
  BY <1>1 DEF LegacySubsTyped, LegacySub, MigrateSubdomain
<1>3. LegacySubOwnerOf(n) = legacySubs[n].owner
  BY DEF MigrateSubdomain
<1> QED
  BY <1>2, <1>3, NoneAssumption DEF LegacyAddressOf

\* migrateSubdomain, up to the records it writes.
LEMMA MigratedName ==
  ASSUME RegistryInv, RegistryInv', LegacySubsTyped, NEW n \in SubNodes,
         MigrateSubdomain(n)
  PROVE  /\ [Next]_registryVars
         /\ OwnerOf(n)' = legacySubs[n].owner
         /\ legacySubs[n].owner \in Accounts
         /\ generation'[n] \in 1 .. MaxGeneration
         /\ stored'[n] = SubdomainRecord(ParentNode[n], legacySubs[n].owner,
                                         legacySubs[n].expiry)
<1> DEFINE r == SubdomainRecord(ParentNode[n], legacySubs[n].owner,
                                legacySubs[n].expiry)
<1>1. /\ RegistrarCall /\ legacySubs[n].owner \in Accounts
      /\ legacySubs[n].expiry \in ExpiryInputs
  BY MigrateSubdomainMoves
<1>2. RegisterSubdomain(n, ParentNode[n], legacySubs[n].owner,
                        legacySubs[n].expiry)
  BY DEF MigrateSubdomain
<1>3. /\ now < legacySubs[n].expiry /\ legacySubs[n].expiry <= MaxExpiry
      /\ legacySubs[n].expiry \in Nat /\ now \in Nat
  BY <1>1, <1>2, TimeAssumption, BoundsAssumption
  DEF RegisterSubdomain, FutureExpiry, ExpiryInputs, RegistryInv, TypeOK
<1>4. /\ r \in Record /\ r.owner = legacySubs[n].owner /\ r.expiry > now
  BY <1>1, <1>3, NodesAssumption, BoundsAssumption DEF SubdomainRecord, Record
<1>5. /\ Write(n, r) /\ Anchor(n) /\ AdvanceGeneration(n, 1) /\ UNCHANGED now
  BY <1>2 DEF RegisterSubdomain
<1> HIDE DEF r
<1>6. /\ OwnerOf(n)' = legacySubs[n].owner
      /\ generation'[n] \in 1 .. MaxGeneration
  BY <1>1, <1>4, <1>5, RegisteredOwner
<1>7. stored'[n] = r
  BY <1>5 DEF Write, RegistryInv, TypeOK
<1> QED
  BY <1>1, <1>6, <1>7 DEF Next, r

\* What migrateSubdomain stores for one chain of one name.
LEMMA MigratedAddress ==
  ASSUME RegistryInv, RegistryInv', RecordsInv, LegacySubsTyped,
         NEW n \in SubNodes, MigrateSubdomain(n),
         NEW m \in Nodes, NEW chain \in Chains
  PROVE  addresses'[m][chain] =
           IF m = n /\ chain \in LegacyChains
           THEN [target |-> LegacyAddressOf(n, chain),
                 stamp |-> ImportedStamp(n)]
           ELSE AgedAddresses[m][chain]
BY DEF MigrateSubdomain, AgedAddresses

LEMMA MigrateKeepsRecords ==
  ASSUME RegistryInv, RegistryInv', RecordsInv, LegacySubsTyped,
         NEW n \in SubNodes, MigrateSubdomain(n)
  PROVE  RecordsInv'
<1>1. /\ [Next]_registryVars
      /\ OwnerOf(n)' = legacySubs[n].owner
      /\ legacySubs[n].owner \in Accounts /\ legacySubs[n].owner # None
      /\ generation'[n] \in 1 .. MaxGeneration
  BY MigratedName, NoneAssumption
<1>2. /\ texts' = AgedTexts /\ primary' = AgedPrimary /\ chosen' = AgedChosen
      /\ legacyRoutesImported' = [legacyRoutesImported EXCEPT ![n] = TRUE]
  BY DEF MigrateSubdomain
<1>3. TextsGood' /\ PrimaryGood'
  BY <1>1, <1>2, TextsAge, PrimaryAges
<1>4. ChosenGood'
  BY <1>1, <1>2, ChosenAged, ChosenTyped DEF ChosenGood
<1>5. ASSUME NEW m \in Nodes, NEW chain \in Chains
      PROVE  /\ addresses'[m][chain] \in AddressRecord
             /\ AddressGood(addresses'[m][chain], OwnerOf(m)', generation'[m])
  <2>1. CASE m = n /\ chain \in LegacyChains
    <3>1. addresses'[m][chain] = [target |-> LegacyAddressOf(n, chain),
                                  stamp |-> ImportedStamp(n)]
      BY <2>1, MigratedAddress
    <3>2. LegacyAddressOf(n, chain) \in Accounts
      BY <2>1, LegacyAddress
    <3>3. /\ ImportedStamp(n) \in Stamp
          /\ Tells(ImportedStamp(n).recordOwner, ImportedStamp(n).generation,
                   ImportedStamp(n).inTenure, OwnerOf(n)', generation'[n])
      BY <1>1, BoundsAssumption DEF ImportedStamp, Stamp, Tells
    <3> HIDE DEF ImportedStamp
    <3>4. LegacyAddressOf(n, chain) # None
      BY <3>2, NoneAssumption
    <3> QED
      BY <2>1, <3>1, <3>2, <3>3, <3>4 DEF AddressGood, AddressRecord
  <2>2. CASE ~(m = n /\ chain \in LegacyChains)
    <3>1. addresses'[m][chain] = AgedAddresses[m][chain]
      BY <2>2, MigratedAddress
    <3>2. AddressGood(AgedAddresses[m][chain], OwnerOf(m)', generation'[m])
      BY <1>1, AddressAged
    <3> QED
      BY <3>1, <3>2 DEF AddressGood
  <2> QED
    BY <2>1, <2>2
<1>6. addresses' \in [Nodes -> [Chains -> AddressRecord]]
  <2> DEFINE row == [chain \in Chains |->
                       IF chain \in LegacyChains
                       THEN [target |-> LegacyAddressOf(n, chain),
                             stamp |-> ImportedStamp(n)]
                       ELSE AgedAddresses[n][chain]]
  <2>1. addresses' = [AgedAddresses EXCEPT ![n] = row]
    BY DEF MigrateSubdomain, AgedAddresses
  <2>2. addresses' = [m \in Nodes |-> IF m = n THEN row ELSE AgedAddresses[m]]
    BY <2>1 DEF AgedAddresses
  <2>3. \A m \in Nodes : addresses'[m] = [chain \in Chains |-> addresses'[m][chain]]
    BY <2>2 DEF AgedAddresses
  <2>4. addresses' = [m \in Nodes |-> [chain \in Chains |-> addresses'[m][chain]]]
    BY <2>2, <2>3
  <2> QED
    BY <1>5, <2>4
<1>7. AddressesGood'
  BY <1>5, <1>6 DEF AddressesGood
<1> QED
  BY <1>2, <1>3, <1>4, <1>7 DEF RecordsInv

LEMMA RecordsNextInv ==
  ASSUME RegistryInv, RegistryInv', RecordsInv, LegacySubsTyped,
         [UnifiedNext]_unifiedVars
  PROVE  RecordsInv'
<1>1. CASE NamesStep
  BY <1>1, NamesStepMoves, RecordsAge
<1>2. CASE RecordsStep
  BY <1>2, RecordStepKeeps DEF RecordsStep
<1>3. CASE PricingStep \/ AdminStep \/ LegacySubStep \/ UNCHANGED unifiedVars
  <2>1. UNCHANGED registryVars /\ UNCHANGED recordVars
    BY <1>3, OthersLeaveRegistry DEF resolverVars
  <2> QED
    BY <2>1, AddressesStay, TextsStay, PrimaryStays DEF recordVars, RecordsInv
<1>4. CASE SaleStep
  <2>1. PICK sender \in Accounts,
             auth \in Authorizations \cup {NoAuthorization},
             n \in Nodes :
          \E q \in PresentedQuotes(sender) :
            \/ n \in TopNodes /\ Register(sender, q, auth, n)
            \/ AgingSale(sender, q, auth, n)
    BY <1>4, SaleKinds
  <2>2. PICK q \in PresentedQuotes(sender) :
          \/ n \in TopNodes /\ Register(sender, q, auth, n)
          \/ AgingSale(sender, q, auth, n)
    BY <2>1
  <2>3. CASE n \in TopNodes /\ Register(sender, q, auth, n)
    BY <2>3, QuoteFields, RegisterKeepsRecords
  <2>4. CASE AgingSale(sender, q, auth, n)
    <3>1. RegistrarCall /\ AgeRecords /\ UNCHANGED legacyRoutesImported
      BY <2>4, QuoteFields, AgingSaleMoves
    <3>2. Next
      BY <3>1 DEF Next
    <3> QED
      BY <3>1, <3>2, RecordsAge
  <2> QED
    BY <2>2, <2>3, <2>4
<1>5. CASE ParentStep
  <2>1. Next /\ AgeRecords /\ UNCHANGED legacyRoutesImported
    BY <1>5, ParentStepMoves DEF Next
  <2> QED
    BY <2>1, RecordsAge
<1>6. CASE \E n \in SubNodes : MigrateSubdomain(n)
  BY <1>6, MigrateKeepsRecords
<1> QED
  BY <1>1, <1>2, <1>3, <1>4, <1>5, <1>6 DEF UnifiedNext

-----------------------------------------------------------------------------
(* The composed invariant *)

UnifiedInv == RegistryInv /\ RecordsInv /\ PolicyInv /\ RegistrarInv

\* Only the clock moves the time.
LEMMA TimeOnlyTicks ==
  ASSUME [Next]_registryVars
  PROVE  UNCHANGED now \/ ClockTick
BY DEF Next, Tick, RegistrarChange, SetRegistrar, ProposeRegistrar,
       CancelRegistrarChange, ActivateRegistrar, OwnerCall, MigrateName,
       TransferName, SetResolver, RegistrarCall, RegisterTopLevel,
       RenewTopLevel, RegisterSubdomain, RenewSubdomain, ReassignSubdomain,
       ReleaseSubdomain, LegacyStep, LegacyRegister, LegacyTransfer,
       LegacySetResolver, registryVars

LEMMA RegistryKeepsClock ==
  ASSUME RegistryInv, [Next]_registryVars
  PROVE  now' \in 0 .. MaxTime /\ now' >= now
<1>1. now \in 0 .. MaxTime /\ MaxTime \in Nat
  BY TimeAssumption DEF RegistryInv, TypeOK
<1> QED
  BY <1>1, TimeOnlyTicks DEF ClockTick

\* The policy changes by its own operations alone, and nothing else happens
\* in that step.
LEMMA PolicyMoves ==
  ASSUME RegistryInv, LegacySubsTyped, [UnifiedNext]_unifiedVars
  PROVE  \/ PolicyStep /\ UNCHANGED now
         \/ UNCHANGED policyVars /\ now' \in 0 .. MaxTime /\ now' >= now
<1>1. now' \in 0 .. MaxTime /\ now' >= now
  BY RegistryMovesUnified, RegistryKeepsClock
<1>2. CASE PricingStep
  BY <1>2 DEF PricingStep, resolverVars, registryVars
<1>3. CASE SaleStep
  <2>1. PICK sender \in Accounts,
             auth \in Authorizations \cup {NoAuthorization},
             n \in Nodes :
          \E q \in PresentedQuotes(sender) :
            \/ n \in TopNodes /\ Register(sender, q, auth, n)
            \/ AgingSale(sender, q, auth, n)
    BY <1>3, SaleKinds
  <2>2. PICK q \in PresentedQuotes(sender), product \in Products :
          Sell(sender, q, auth, n, product)
    BY <2>1, SaleSells
  <2> QED
    BY <1>1, <2>2, SellLeaves
<1>4. CASE \/ NamesStep \/ RecordsStep \/ AdminStep \/ LegacySubStep
           \/ ParentStep \/ \E n \in SubNodes : MigrateSubdomain(n)
           \/ UNCHANGED unifiedVars
  <2>1. UNCHANGED policyVars
    BY <1>4, ParentStepMoves
    DEF NamesStep, RecordsStep, AdminStep, LegacySubStep, MigrateSubdomain,
        unifiedVars, registrarSideVars
  <2> QED
    BY <1>1, <2>1
<1> QED
  BY <1>2, <1>3, <1>4 DEF UnifiedNext

LEMMA UnifiedInitInv == UnifiedInit => UnifiedInv
<1> SUFFICES ASSUME UnifiedInit PROVE UnifiedInv
  OBVIOUS
<1>1. RegistryInv /\ RecordsInv
  BY ResolverInitInv DEF UnifiedInit, ResolverInv
<1>2. now = 0
  BY DEF UnifiedInit, ResolverInit, Init
<1>3. PolicyInv
  BY <1>2, PolicyInitInv DEF UnifiedInit
<1> QED
  BY <1>1, <1>3, RegistrarInitInv DEF UnifiedInv

LEMMA UnifiedNextInv ==
  UnifiedInv /\ [UnifiedNext]_unifiedVars => UnifiedInv'
<1> SUFFICES ASSUME UnifiedInv, [UnifiedNext]_unifiedVars
             PROVE  UnifiedInv'
  OBVIOUS
<1>1. /\ RegistryInv /\ RecordsInv /\ PolicyInv /\ RegistrarInv
      /\ LegacySubsTyped /\ TypeOK
  BY DEF UnifiedInv, RegistrarInv, RegistryInv
<1>2. RegistryInv'
  BY <1>1, RegistryMovesUnified, RegistryKeptByNext
<1>3. RecordsInv'
  BY <1>1, <1>2, RecordsNextInv
<1>4. PolicyInv'
  BY <1>1, PolicyMoves, PolicyNextInv
<1>5. RegistrarInv'
  BY <1>1, RegistrarNextInv
<1> QED
  BY <1>2, <1>3, <1>4, <1>5 DEF UnifiedInv

\* A sale keeps the invariant whatever quote is presented, be it one of
\* PresentedQuotes or one that a service has just signed.
LEMMA SaleKeepsInv ==
  ASSUME UnifiedInv, NEW sender \in Accounts,
         NEW auth \in Authorizations \cup {NoAuthorization},
         NEW n \in Nodes, NEW q, q.nameOwner \in Accounts,
         \/ n \in TopNodes /\ Register(sender, q, auth, n)
         \/ AgingSale(sender, q, auth, n)
  PROVE  UnifiedInv'
<1>1. /\ RegistryInv /\ RecordsInv /\ PolicyInv /\ RegistrarInv
      /\ SalesGood /\ AdminTyped /\ LegacySubsTyped
  BY DEF UnifiedInv, RegistrarInv
<1>2. Next
  BY <1>1, RegisterMoves, AgingSaleMoves DEF Next
<1>3. RegistryInv'
  BY <1>1, <1>2, RegistryKeptByNext
<1>4. RecordsInv'
  <2>1. CASE n \in TopNodes /\ Register(sender, q, auth, n)
    BY <1>1, <1>3, <2>1, RegisterKeepsRecords
  <2>2. CASE AgingSale(sender, q, auth, n)
    BY <1>1, <1>2, <1>3, <2>2, AgingSaleMoves, RecordsAge
  <2> QED
    BY <2>1, <2>2
<1>5. PICK product \in Products : Sell(sender, q, auth, n, product)
  BY SaleSells
<1>6. UNCHANGED <<policyVars, legacySubs, adminVars>> /\ UNCHANGED now
  BY <1>5, SaleSells, SellLeaves
<1>7. PolicyInv'
  <2>1. now' \in 0 .. MaxTime /\ now' >= now
    BY <1>1, <1>2, RegistryKeepsClock
  <2> QED
    BY <1>1, <1>6, <2>1, PolicyNextInv
<1>8. RegistrarInv'
  <2>1. SalesGood'
    BY <1>1, <1>5, SellKeepsSales
  <2>2. AdminTyped' /\ LegacySubsTyped'
    BY <1>1, <1>6 DEF AdminTyped, LegacySubsTyped, adminVars, signerVars
  <2> QED
    BY <2>1, <2>2 DEF RegistrarInv
<1> QED
  BY <1>3, <1>4, <1>7, <1>8 DEF UnifiedInv

LEMMA UnifiedInvariant == UnifiedSpec => []UnifiedInv
BY UnifiedInitInv, UnifiedNextInv, PTL DEF UnifiedSpec

\* Whatever the registrar's handlers do, one after the other, the registry
\* makes only steps of its own specification: every call of theirs passes the
\* registry's guards, and a handler makes at most one that changes a name.
THEOREM RegistrarImplementsRegistry == UnifiedSpec => Spec
<1>1. UnifiedInit => Init
  BY DEF UnifiedInit, ResolverInit
<1>2. UnifiedInv /\ [UnifiedNext]_unifiedVars => [Next]_registryVars
  BY RegistryMovesUnified DEF UnifiedInv, RegistrarInv
<1> QED
  BY <1>1, <1>2, UnifiedInvariant, PTL DEF UnifiedSpec, Spec

\* No sale, import or call of a parent touches the pricing policy: beside the
\* clock, only the policy's own operations do, so that what is proved of the
\* policy alone holds of it in the composed system.
THEOREM RegistrarImplementsPolicy == UnifiedSpec => PolicySpec
<1>1. UnifiedInit => now = 0 /\ PolicyInit
  BY DEF UnifiedInit, ResolverInit, Init
<1>2. UnifiedInv /\ [UnifiedNext]_unifiedVars
        => [\/ PolicyStep /\ UNCHANGED now
            \/ ClockTick /\ UNCHANGED policyVars]_<<now, policyVars>>
  <2> SUFFICES ASSUME UnifiedInv, [UnifiedNext]_unifiedVars
               PROVE  [\/ PolicyStep /\ UNCHANGED now
                       \/ ClockTick /\ UNCHANGED policyVars
                      ]_<<now, policyVars>>
    OBVIOUS
  <2>1. RegistryInv /\ LegacySubsTyped
    BY DEF UnifiedInv, RegistrarInv
  <2>2. (PolicyStep /\ UNCHANGED now) \/ UNCHANGED policyVars
    BY <2>1, PolicyMoves
  <2>3. UNCHANGED now \/ ClockTick
    BY <2>1, RegistryMovesUnified, TimeOnlyTicks
  <2> QED
    BY <2>2, <2>3
<1> QED
  BY <1>1, <1>2, UnifiedInvariant, PTL DEF UnifiedSpec, PolicySpec

\* The registry's type, and its parent and generation rules, hold under the
\* registrar: its handlers only ever make calls the registry allows.
THEOREM RegistrarKeepsRegistry ==
  UnifiedSpec => [](TypeOK /\ ChildWithinParent /\ AnchoredHasGeneration)
<1>1. UnifiedInv => TypeOK /\ ChildWithinParent /\ AnchoredHasGeneration
  BY DEF UnifiedInv, RegistryInv, NamesInv
<1> QED
  BY <1>1, UnifiedInvariant, PTL

\* Addresses, texts, primary names and chosen names, as for the resolver
\* alone: neither register's initialisation of a primary name nor
\* migrateSubdomain's import of routes breaks what the stamps tell.
THEOREM RegistrarKeepsRecords ==
  UnifiedSpec => [](RecordsLiveExactlyInTenure /\ PrimaryLiveExactlyInTenure
                      /\ OwnChoiceStands)
<1>1. UnifiedInv => ResolverInv
  BY DEF UnifiedInv, ResolverInv
<1> QED
  BY <1>1, RecordsTellTenure, PrimaryTellsTenure, ChoicesShown,
     UnifiedInvariant, PTL

\* A quote is redeemed at most once, whatever order the calls come in.
THEOREM QuotesRedeemedOnce == UnifiedSpec => []QuoteRedeemedOnce
<1>1. UnifiedInv => QuoteRedeemedOnce
  BY DEF UnifiedInv, RegistrarInv, SalesGood
<1> QED
  BY <1>1, UnifiedInvariant, PTL

\* Every variable of the registrar keeps its type; no authorization is used
\* more often than it allows.
THEOREM RegistrarTypesKept == UnifiedSpec => []RegistrarTypeOK
<1>1. UnifiedInv => RegistrarTypeOK
  BY DEF UnifiedInv, RegistrarInv, LegacySubsTyped, AdminTyped, SalesGood,
         RegistrarTypeOK
<1> QED
  BY <1>1, UnifiedInvariant, PTL

-----------------------------------------------------------------------------
(* Prices *)

\* What a quote accepted under the policy is priced by.
LEMMA AcceptedQuote ==
  ASSUME PolicyInv, NEW sender, NEW q, q.version \in 1 .. MaxVersion,
         NEW n, NEW product, NEW bps,
         ValidateQuote(sender, q, n, product, bps)
  PROVE  \E c \in Configs :
           /\ InForce(q.version, c)
           /\ q.signer = c.quoteSigner
           /\ q.usdMicros = NetPrice(c, n, product, q.termYears, bps)
<1> DEFINE c == ConfigForVersion(q.version)
<1>1. q.version \in 0 .. MaxVersion
  BY PolicyAssumption
<1>2. GraceIsExact
  BY GraceFromInv
<1>3. PICK signer \in {config.quoteSigner, previousQuoteSigner} :
        /\ signer # NoSigner
        /\ IsQuoteAuthorizationValid(signer, q.version)
        /\ q.signer = signer
  BY DEF ValidateQuote, IsValidQuoteSignature
<1>4. signer \in QuoteSigners
  <2>1. config.quoteSigner \in QuoteSigners
    BY PolicyAssumption DEF PolicyInv, PolicyTypeOK, ValidConfig
  <2>2. previousQuoteSigner \in QuoteSigners \cup {NoSigner}
    BY DEF PolicyInv, PolicyTypeOK
  <2> QED
    BY <1>3, <2>1, <2>2
<1>5. PICK d \in Configs : InForce(q.version, d) /\ d.quoteSigner = signer
  BY <1>1, <1>2, <1>3, <1>4 DEF GraceIsExact
<1>6. c = d
  BY <1>1, <1>2, <1>5 DEF GraceIsExact
<1>7. q.usdMicros = NetPrice(d, n, product, q.termYears, bps)
  BY <1>6 DEF ValidateQuote
<1> QED
  BY <1>3, <1>5, <1>7

\* Sales are made at the price, and on the signature, of a version in force.
THEOREM SalesPricedInForce == UnifiedSpec => []SalePricedInForce
<1>1. UnifiedInit => SalePricedInForce
  BY DEF UnifiedInit, SalePricedInForce, NoCall
<1>2. ASSUME UnifiedInv, SalePricedInForce, [UnifiedNext]_unifiedVars
      PROVE  SalePricedInForce'
  <2>1. CASE NoSaleStep
    BY <2>1, NoSaleMade DEF SalePricedInForce
  <2>2. CASE UNCHANGED unifiedVars
    <3>1. UNCHANGED <<call, now, config, version, retired>>
      BY <2>2 DEF unifiedVars, resolverVars, registryVars, registrarSideVars,
                  policyVars
    <3> QED
      BY <1>2, <3>1 DEF SalePricedInForce, InForce
  <2>3. CASE SaleStep
    <3>1. PICK sender \in Accounts,
               auth \in Authorizations \cup {NoAuthorization},
               n \in Nodes :
            \E q \in PresentedQuotes(sender) :
              \/ n \in TopNodes /\ Register(sender, q, auth, n)
              \/ AgingSale(sender, q, auth, n)
      BY <2>3, SaleKinds
    <3>2. PICK q \in PresentedQuotes(sender), product \in Products :
            Sell(sender, q, auth, n, product) /\ UNCHANGED now
      BY <3>1, SaleSells
    <3> DEFINE bps == IF auth = NoAuthorization THEN 0 ELSE auth.discountBps
    <3>3. ValidateQuote(sender, q, n, product, bps)
      BY <3>2 DEF Sell
    <3>4. PICK c \in Configs :
            /\ InForce(q.version, c)
            /\ q.signer = c.quoteSigner
            /\ q.usdMicros = NetPrice(c, n, product, q.termYears, bps)
      BY <1>2, <3>3, QuoteFields, AcceptedQuote DEF UnifiedInv
    <3>5. InForce(q.version, c)'
      BY <3>2, <3>4 DEF Sell, policyVars, InForce
    <3>6. /\ call'.sale.version = q.version /\ call'.sale.signer = q.signer
          /\ call'.sale.usdMicros = q.usdMicros /\ call'.sale.node = n
          /\ call'.sale.product = product
          /\ call'.sale.termYears = q.termYears
          /\ call'.sale.authorization = auth
      BY <3>2 DEF Sell
    <3> QED
      BY <3>4, <3>5, <3>6 DEF SalePricedInForce
  <2> QED
    BY <1>2, <2>1, <2>2, <2>3, NextKinds
<1> QED
  BY <1>1, <1>2, UnifiedInvariant, PTL DEF UnifiedSpec

-----------------------------------------------------------------------------
(* Who may do what *)

\* What a call does to the uses of one authorization.
GrantHonoured(auth) ==
  IF uses'[auth] = uses[auth]
  THEN call' # call => call'.sale.authorization # auth
  ELSE LET s == call'.sale IN
    /\ s.authorization = auth
    /\ s.node = auth.node /\ s.nameOwner = auth.beneficiary
    /\ s.product = auth.product /\ s.termYears = auth.termYears
    /\ uses'[auth] <= auth.maxUses
    /\ ~revoked[auth]
    /\ authorizationSigner = auth.signer

LEMMA SellHonours ==
  ASSUME SalesGood, NEW auth \in Authorizations, NEW sender, NEW q,
         NEW used \in Authorizations \cup {NoAuthorization}, NEW n,
         NEW product, Sell(sender, q, used, n, product)
  PROVE  GrantHonoured(auth)
<1> USE RegistrarAssumption
<1>1. call'.sale = [product |-> product, node |-> n,
                    nameOwner |-> q.nameOwner, termYears |-> q.termYears,
                    usdMicros |-> q.usdMicros, version |-> q.version,
                    signer |-> q.signer, authorization |-> used]
  BY DEF Sell
<1>2. CASE used = NoAuthorization
  <2>1. uses' = uses /\ auth # NoAuthorization
    BY <1>2 DEF Sell
  <2> QED
    BY <1>1, <1>2, <2>1 DEF GrantHonoured
<1>3. CASE used # NoAuthorization
  <2>1. ConsumeDiscount(used, q, n, product) /\ used \in Authorizations
    BY <1>3 DEF Sell
  <2>2. CASE auth # used
    <3>1. uses'[auth] = uses[auth]
      BY <2>1, <2>2 DEF ConsumeDiscount, SalesGood
    <3> QED
      BY <1>1, <2>2, <3>1 DEF GrantHonoured
  <2>3. CASE auth = used
    <3>1. auth.maxUses \in Nat /\ uses[auth] \in Nat
      BY DEF Authorization, SalesGood
    <3>2. uses'[auth] = uses[auth] + 1 /\ uses[auth] < auth.maxUses
      BY <2>1, <2>3 DEF ConsumeDiscount, SalesGood
    <3>3. uses'[auth] # uses[auth] /\ uses'[auth] <= auth.maxUses
      BY <3>1, <3>2
    <3> QED
      BY <1>1, <2>1, <2>3, <3>3 DEF GrantHonoured, ConsumeDiscount
  <2> QED
    BY <2>2, <2>3
<1> QED
  BY <1>2, <1>3

\* An authorization is spent exactly by the sale it was signed for.
THEOREM GrantsAreHonoured == UnifiedSpec => GrantsHonoured
<1>1. ASSUME UnifiedInv, [UnifiedNext]_unifiedVars, NEW auth \in Authorizations
      PROVE  GrantHonoured(auth)
  <2>1. CASE NoSaleStep
    <3>1. uses' = uses /\ call'.sale = NoSale
      BY <2>1, NoSaleMade DEF saleVars
    <3> QED
      BY <3>1, RegistrarAssumption DEF GrantHonoured, NoSale
  <2>2. CASE UNCHANGED unifiedVars
    BY <2>2 DEF unifiedVars, registrarSideVars, saleVars, GrantHonoured
  <2>3. CASE SaleStep
    <3>1. PICK sender \in Accounts,
               used \in Authorizations \cup {NoAuthorization},
               n \in Nodes :
            \E q \in PresentedQuotes(sender) :
              \/ n \in TopNodes /\ Register(sender, q, used, n)
              \/ AgingSale(sender, q, used, n)
      BY <2>3, SaleKinds
    <3>2. PICK q \in PresentedQuotes(sender), product \in Products :
            Sell(sender, q, used, n, product)
      BY <3>1, SaleSells
    <3> QED
      BY <1>1, <3>2, SellHonours DEF UnifiedInv, RegistrarInv
  <2> QED
    BY <1>1, <2>1, <2>2, <2>3, NextKinds
<1>2. UnifiedInv /\ [UnifiedNext]_unifiedVars
        => \A auth \in Authorizations :
             IF uses'[auth] = uses[auth]
             THEN call' # call => call'.sale.authorization # auth
             ELSE LET s == call'.sale IN
               /\ s.authorization = auth
               /\ s.node = auth.node /\ s.nameOwner = auth.beneficiary
               /\ s.product = auth.product /\ s.termYears = auth.termYears
               /\ uses'[auth] <= auth.maxUses
               /\ ~revoked[auth]
               /\ authorizationSigner = auth.signer
  BY <1>1 DEF GrantHonoured
<1> QED
  BY <1>2, UnifiedInvariant, PTL DEF UnifiedSpec, GrantsHonoured

\* The rules under which the record of a subdomain may change.
GovernedBy(n) ==
  \/ call'.sender # None /\ call'.sender = OwnerOf(ParentNode[n])
  \/ stored'[n] = [stored[n] EXCEPT !.resolver = stored'[n].resolver]
  \/ /\ generation[n] = 0
     /\ stored'[n].owner = LegacySubOwnerOf(n)
     /\ stored'[n].expiry = legacySubs[n].expiry

\* The owners of names may only set resolvers of subdomains.
LEMMA OwnerCallGoverned ==
  ASSUME RegistryInv, OwnerCall, NEW n \in SubNodes, stored'[n] # stored[n]
  PROVE  stored'[n] = [stored[n] EXCEPT !.resolver = stored'[n].resolver]
<1>1. TypeOK /\ NamesInv
  BY DEF RegistryInv
<1>2. ASSUME NEW m \in TopNodes, NEW r, Write(m, r)
      PROVE  stored'[n] = stored[n]
  BY <1>1, <1>2, NodesAssumption DEF Write, TypeOK
<1>3. \A m \in TopNodes, a \in Accounts :
        ~MigrateName(a, m) /\ \A b \in Accounts : ~TransferName(a, m, b)
  BY <1>2 DEF MigrateName, TransferName
<1>4. PICK m \in Nodes, a \in Accounts, x \in Resolvers \cup {None} :
        SetResolver(a, m, x)
  BY <1>3 DEF OwnerCall
<1>5. m = n
  BY <1>1, <1>4, OtherRecordsKept DEF SetResolver
<1>6. Records(n).owner # None /\ stored[n] \in Record
  BY <1>1, <1>4, <1>5 DEF SetResolver, OwnerOf, TypeOK
<1>7. Records(n) = stored[n]
  BY <1>1, <1>6 DEF Records, NamesInv, LegacyShape
<1>8. stored'[n] = [stored[n] EXCEPT !.resolver = x]
  BY <1>1, <1>4, <1>5, <1>7 DEF SetResolver, Write, TypeOK
<1> QED
  BY <1>6, <1>8 DEF Record

\* Nobody but the parent's owner governs a subdomain.
THEOREM ParentsAloneGovern == UnifiedSpec => ParentAloneGoverns
<1>1. ASSUME UnifiedInv, UnifiedInv', [UnifiedNext]_unifiedVars,
             NEW n \in SubNodes, stored'[n] # stored[n]
      PROVE  GovernedBy(n)
  <2>1. /\ RegistryInv /\ RegistryInv' /\ TypeOK /\ LegacySubsTyped
    BY <1>1 DEF UnifiedInv, RegistryInv, RegistrarInv
  <2>2. ASSUME NEW m \in TopNodes, NEW r, Write(m, r)
        PROVE  FALSE
    BY <1>1, <2>1, <2>2, NodesAssumption DEF Write, TypeOK
  <2>3. ASSUME NEW m \in SubNodes, NEW r, Write(m, r)
        PROVE  m = n
    BY <1>1, <2>1, <2>3 DEF Write, TypeOK
  <2>4. CASE NamesStep
    <3>1. CASE OwnerCall
      BY <1>1, <2>1, <3>1, OwnerCallGoverned DEF GovernedBy
    <3>2. CASE Tick \/ RegistrarChange \/ LegacyStep
      BY <1>1, <2>1, <3>2, OtherSteps DEF nameVars
    <3> QED
      BY <2>4, <3>1, <3>2 DEF NamesStep
  <2>5. CASE \/ RecordsStep \/ PricingStep \/ AdminStep \/ LegacySubStep
             \/ UNCHANGED unifiedVars
    BY <1>1, <2>5, OthersLeaveRegistry DEF resolverVars, registryVars
  <2>6. CASE SaleStep
    <3>1. PICK sender \in Accounts,
               auth \in Authorizations \cup {NoAuthorization},
               m \in Nodes :
            \E q \in PresentedQuotes(sender) :
              \/ m \in TopNodes /\ Register(sender, q, auth, m)
              \/ AgingSale(sender, q, auth, m)
      BY <2>6, SaleKinds
    <3>2. PICK q \in PresentedQuotes(sender) :
            \/ m \in TopNodes /\ Register(sender, q, auth, m)
            \/ AgingSale(sender, q, auth, m)
      BY <3>1
    <3>3. call'.sender = sender /\ sender # None
      BY <3>2, SaleSells, NoneAssumption DEF Sell
    <3>4. ~(m \in TopNodes /\ Register(sender, q, auth, m))
      BY <2>2 DEF Register, RegisterTopLevel
    <3>5. ~(m \in TopNodes /\ Renew(sender, q, auth, m))
      BY <2>2 DEF Renew, RenewTopLevel
    <3>6. m = n /\ OwnerOf(ParentNode[n]) = sender
      <4>1. CASE m \in SubNodes /\ SellSubdomain(sender, q, auth, m)
        BY <2>3, <4>1
        DEF SellSubdomain, RegisterSubdomain, RequireParentOwner
      <4>2. CASE m \in SubNodes /\ SellSubdomainRenewal(sender, q, auth, m)
        BY <2>3, <4>2
        DEF SellSubdomainRenewal, RenewSubdomain, RequireParentOwner
      <4> QED
        BY <3>2, <3>4, <3>5, <4>1, <4>2 DEF AgingSale
    <3> QED
      BY <3>3, <3>6 DEF GovernedBy
  <2>7. CASE ParentStep
    <3>1. PICK sender \in Accounts, m \in SubNodes :
            \/ \E newOwner \in Accounts : Reassign(sender, m, newOwner)
            \/ Recall(sender, m)
            \/ Release(sender, m)
      BY <2>7 DEF ParentStep
    <3>2. ByParentOwner(sender, m)
      BY <3>1 DEF Reassign, Recall, Release
    <3>3. m = n
      BY <2>3, <3>1
      DEF Reassign, Recall, Release, ReassignSubdomain, ReleaseSubdomain
    <3> QED
      BY <3>2, <3>3, NoneAssumption
      DEF ByParentOwner, RequireParentOwner, NoCall, GovernedBy
  <2>8. CASE \E m \in SubNodes : MigrateSubdomain(m)
    <3>1. PICK m \in SubNodes : MigrateSubdomain(m)
      BY <2>8
    <3>2. m = n
      BY <2>3, <3>1 DEF MigrateSubdomain, RegisterSubdomain
    <3>3. stored'[n] = SubdomainRecord(ParentNode[n], legacySubs[n].owner,
                                       legacySubs[n].expiry)
      BY <2>1, <3>1, <3>2, MigratedName
    <3>4. generation[n] = 0 /\ LegacySubOwnerOf(n) = legacySubs[n].owner
      BY <3>1, <3>2 DEF MigrateSubdomain
    <3> QED
      BY <3>3, <3>4 DEF SubdomainRecord, GovernedBy
  <2> QED
    BY <1>1, <2>4, <2>5, <2>6, <2>7, <2>8 DEF UnifiedNext
<1>2. UnifiedInv /\ UnifiedInv' /\ [UnifiedNext]_unifiedVars
        => \A n \in SubNodes :
             stored'[n] # stored[n] =>
               \/ call'.sender # None /\ call'.sender = OwnerOf(ParentNode[n])
               \/ stored'[n] = [stored[n] EXCEPT !.resolver = stored'[n].resolver]
               \/ /\ generation[n] = 0
                  /\ stored'[n].owner = LegacySubOwnerOf(n)
                  /\ stored'[n].expiry = legacySubs[n].expiry
  BY <1>1 DEF GovernedBy
<1> QED
  BY <1>2, UnifiedInvariant, PTL DEF UnifiedSpec, ParentAloneGoverns

\* No registrar call sets another account's primary name.
THEOREM PrimaryIsOnesOwn == UnifiedSpec => PrimaryNeverSetForOthers
<1>1. ASSUME UnifiedInv, UnifiedInv', [UnifiedNext]_unifiedVars,
             NEW a \in Accounts, primary'[a].node # primary[a].node
      PROVE  call'.sender \in {a, None}
  <2>1. /\ RegistryInv /\ RegistryInv' /\ RecordsInv /\ LegacySubsTyped
        /\ [Next]_registryVars
    BY <1>1, RegistryMovesUnified DEF UnifiedInv, RegistrarInv
  <2>2. AgedPrimary[a].node = primary[a].node
    BY <2>1, PrimaryAged
  <2>3. primary' # AgedPrimary
    BY <1>1, <2>2
  <2>4. CASE NamesStep \/ ParentStep \/ \E n \in SubNodes : MigrateSubdomain(n)
    BY <2>3, <2>4, NamesStepMoves, ParentStepMoves
    DEF AgeRecords, MigrateSubdomain
  <2>5. CASE PricingStep \/ AdminStep \/ LegacySubStep \/ UNCHANGED unifiedVars
    BY <1>1, <2>5, OthersLeaveRegistry DEF resolverVars, recordVars
  <2>6. CASE RecordsStep
    BY <2>6 DEF RecordsStep, NoCall
  <2>7. CASE SaleStep
    <3>1. PICK sender \in Accounts,
               auth \in Authorizations \cup {NoAuthorization},
               n \in Nodes :
            \E q \in PresentedQuotes(sender) :
              \/ n \in TopNodes /\ Register(sender, q, auth, n)
              \/ AgingSale(sender, q, auth, n)
      BY <2>7, SaleKinds
    <3>2. PICK q \in PresentedQuotes(sender) :
            \/ n \in TopNodes /\ Register(sender, q, auth, n)
            \/ AgingSale(sender, q, auth, n)
      BY <3>1
    <3>3. call'.sender = sender
      BY <3>2, SaleSells DEF Sell
    <3>4. Register(sender, q, auth, n)
      BY <2>1, <2>3, <3>2, QuoteFields, AgingSaleMoves DEF AgeRecords
    <3>5. primary' = [AgedPrimary EXCEPT ![sender] = RegisteredPrimary(n)]
      BY <2>3, <3>4 DEF Register, InitializePrimary
    <3>6. a = sender
      BY <1>1, <2>2, <3>5 DEF AgedPrimary
    <3> QED
      BY <3>3, <3>6
  <2> QED
    BY <1>1, <2>4, <2>5, <2>6, <2>7 DEF UnifiedNext
<1>2. UnifiedInv /\ UnifiedInv' /\ [UnifiedNext]_unifiedVars
        => \A a \in Accounts :
             primary'[a].node # primary[a].node => call'.sender \in {a, None}
  BY <1>1
<1> QED
  BY <1>2, UnifiedInvariant, PTL DEF UnifiedSpec, PrimaryNeverSetForOthers

-----------------------------------------------------------------------------
(* The import of the retired module's subdomains *)

LEMMA OnlyImportsMark ==
  ASSUME RegistryInv, [UnifiedNext]_unifiedVars,
         ~\E n \in SubNodes : MigrateSubdomain(n)
  PROVE  UNCHANGED legacyRoutesImported
<1>1. CASE NamesStep \/ ParentStep
  BY <1>1, NamesStepMoves, ParentStepMoves
<1>2. CASE RecordsStep
  BY <1>2 DEF RecordsStep, RecordStep, SetAddress, ClearAddress, SetText,
              SetPrimaryName, ClearPrimaryName
<1>3. CASE PricingStep \/ AdminStep \/ LegacySubStep \/ UNCHANGED unifiedVars
  BY <1>3, OthersLeaveRegistry DEF resolverVars, recordVars
<1>4. CASE SaleStep
  BY <1>4, SaleKinds, QuoteFields, AgingSaleMoves DEF Register
<1> QED
  BY <1>1, <1>2, <1>3, <1>4 DEF UnifiedNext

\* What an import must preserve of one subdomain.
ImportedExactly(n) ==
  /\ LegacySubOwnerOf(n) # None
  /\ OwnerOf(n)' = LegacySubOwnerOf(n)
  /\ stored'[n].parentNode = ParentNode[n]
  /\ stored'[n].expiry = legacySubs[n].expiry
  /\ \A chain \in LegacyChains : AddressFor(n, chain)' = LegacyAddressOf(n, chain)

\* migrateSubdomain preserves owner, parent, expiry and routes.
THEOREM ImportsAreExact == UnifiedSpec => ImportIsExact
<1>1. ASSUME UnifiedInv, UnifiedInv', [UnifiedNext]_unifiedVars,
             NEW n \in SubNodes,
             legacyRoutesImported'[n] # legacyRoutesImported[n]
      PROVE  ImportedExactly(n)
  <2>1. RegistryInv /\ RegistryInv' /\ RecordsInv /\ LegacySubsTyped
    BY <1>1 DEF UnifiedInv, RegistrarInv
  <2>2. PICK m \in SubNodes : MigrateSubdomain(m)
    BY <1>1, <2>1, OnlyImportsMark
  <2>3. m = n
    BY <1>1, <2>1, <2>2 DEF MigrateSubdomain, RecordsInv
  <2>4. MigrateSubdomain(n)
    BY <2>2, <2>3
  <2>5. /\ LegacySubOwnerOf(n) = legacySubs[n].owner
        /\ legacySubs[n].owner # None
    BY <2>4 DEF MigrateSubdomain
  <2>6. /\ OwnerOf(n)' = legacySubs[n].owner
        /\ stored'[n] = SubdomainRecord(ParentNode[n], legacySubs[n].owner,
                                        legacySubs[n].expiry)
    BY <2>1, <2>4, MigratedName
  <2>7. ASSUME NEW chain \in LegacyChains
        PROVE  AddressFor(n, chain)' = LegacyAddressOf(n, chain)
    <3>1. chain \in Chains
      BY RegistrarAssumption
    <3>2. addresses'[n][chain] = [target |-> LegacyAddressOf(n, chain),
                                  stamp |-> ImportedStamp(n)]
      BY <2>1, <2>4, <3>1, MigratedAddress
    <3>3. LegacyAddressOf(n, chain) # None
      BY <2>1, <2>4, LegacyAddress, NoneAssumption
    <3>4. /\ ImportedStamp(n).recordOwner = OwnerOf(n)'
          /\ ImportedStamp(n).generation = generation'[n]
      BY <2>6 DEF ImportedStamp
    <3>5. AddressActive(n, chain)'
      BY <2>5, <2>6, <3>2, <3>3, <3>4 DEF AddressActive, StampHolds
    <3> QED
      BY <3>2, <3>5 DEF AddressFor
  <2> QED
    BY <2>5, <2>6, <2>7 DEF SubdomainRecord, ImportedExactly
<1>2. UnifiedInv /\ UnifiedInv' /\ [UnifiedNext]_unifiedVars
        => \A n \in SubNodes :
             legacyRoutesImported'[n] # legacyRoutesImported[n] =>
               /\ LegacySubOwnerOf(n) # None
               /\ OwnerOf(n)' = LegacySubOwnerOf(n)
               /\ stored'[n].parentNode = ParentNode[n]
               /\ stored'[n].expiry = legacySubs[n].expiry
               /\ \A chain \in LegacyChains :
                    AddressFor(n, chain)' = LegacyAddressOf(n, chain)
  BY <1>1 DEF ImportedExactly
<1> QED
  BY <1>2, UnifiedInvariant, PTL DEF UnifiedSpec, ImportIsExact

\* The two records of a parent that an unexpired legacy subdomain hangs under.
Carries(p, expiry) ==
  /\ legacy[p].owner # None /\ expiry <= legacy[p].expiry
  /\ Records(p).kind = "TopLevel" /\ Records(p).owner # None
  /\ expiry <= Records(p).expiry

ImportsStand ==
  \A n \in SubNodes :
    legacySubs[n].owner # None /\ now < legacySubs[n].expiry
      => Carries(ParentNode[n], legacySubs[n].expiry)

\* Writing a record of the same or a later expiry.
LEMMA WriteCarries ==
  ASSUME TypeOK, NEW p \in TopNodes, NEW expiry \in Nat, Carries(p, expiry),
         NEW m \in Nodes, NEW r \in Record, Write(m, r),
         Anchor(m) \/ (UNCHANGED migrated /\ (m = p => migrated[m])),
         UNCHANGED legacy,
         m = p => /\ r.kind = "TopLevel" /\ r.owner # None
                  /\ Records(p).expiry <= r.expiry
  PROVE  Carries(p, expiry)'
<1>1. /\ Records(p).expiry \in Nat /\ r.expiry \in Nat
  BY RecordsType, BoundsAssumption DEF Record
<1>2. CASE m = p
  <2>1. Records(p)' = r
    BY <1>2, WrittenRecord
  <2> QED
    BY <1>1, <1>2, <2>1 DEF Carries
<1>3. CASE m # p
  <2>1. Records(p)' = Records(p)
    BY <1>3, OtherRecordsKept
  <2> QED
    BY <2>1 DEF Carries
<1> QED
  BY <1>2, <1>3

LEMMA CallsCarry ==
  ASSUME RegistryInv, OwnerCall \/ RegistrarCall,
         NEW p \in TopNodes, NEW expiry \in Nat, now < expiry,
         Carries(p, expiry)
  PROVE  Carries(p, expiry)'
<1> USE DEF ExpiryInputs
<1>0. /\ TypeOK /\ NamesInv /\ AnchoredHasGeneration /\ SimpleOwners
      /\ now \in Nat
  BY OwnersAreSimple, TimeAssumption DEF RegistryInv, TypeOK
<1>1. /\ Records(p) \in Record /\ Records(p).expiry \in Nat
      /\ \A m \in Nodes : Records(m) \in Record
  BY <1>0, RecordsType, BoundsAssumption DEF Record
<1>2. OwnerOf(p) # None
  BY <1>0, <1>1 DEF SimpleOwners, Carries
<1>3. ASSUME NEW m \in TopNodes, NEW a \in Accounts, MigrateName(a, m)
      PROVE  Carries(p, expiry)'
  <2> DEFINE r == TopLevelRecord(a, legacy[m].resolver, legacy[m].expiry)
  <2>1. r \in Record /\ r.kind = "TopLevel" /\ r.owner # None
    BY <1>0, NoneAssumption
    DEF TypeOK, TopLevelRecord, Record, LegacyRecord
  <2>2. Write(m, r) /\ Anchor(m) /\ UNCHANGED legacy
    BY <1>3 DEF MigrateName
  <2>3. m = p => Records(p).expiry <= r.expiry
    BY <1>1, <1>3 DEF MigrateName, Records, TopLevelRecord
  <2> HIDE DEF r
  <2> QED
    BY <1>0, <2>1, <2>2, <2>3, WriteCarries
<1>4. ASSUME NEW m \in TopNodes, NEW a \in Accounts, NEW b \in Accounts,
             TransferName(a, m, b)
      PROVE  Carries(p, expiry)'
  <2> DEFINE moves == Records(m).owner # b
             t == [Records(m) EXCEPT !.owner = b, !.resolver = None]
             r == IF moves THEN t ELSE Records(m)
  <2>1. Records(m) \in Record
    BY <1>1
  <2>2. /\ t \in Record /\ t.owner = b /\ t.kind = Records(m).kind
        /\ t.expiry = Records(m).expiry
    BY <2>1 DEF Record
  <2>3. Write(m, r) /\ Anchor(m) /\ UNCHANGED legacy
    BY <1>4 DEF TransferName
  <2> HIDE DEF t
  <2>4. r \in Record
    BY <2>1, <2>2
  <2>5. m = p => /\ r.kind = "TopLevel" /\ r.owner # None
                 /\ Records(p).expiry <= r.expiry
    BY <1>1, <2>2, NoneAssumption DEF Carries
  <2> HIDE DEF r, moves
  <2> QED
    BY <1>0, <2>3, <2>4, <2>5, WriteCarries
<1>5. ASSUME NEW m \in Nodes, NEW a \in Accounts,
             NEW x \in Resolvers \cup {None}, SetResolver(a, m, x)
      PROVE  Carries(p, expiry)'
  <2> DEFINE r == [Records(m) EXCEPT !.resolver = x]
  <2>1. Records(m) \in Record
    BY <1>1
  <2>2. /\ r \in Record /\ r.owner = Records(m).owner
        /\ r.kind = Records(m).kind /\ r.expiry = Records(m).expiry
    BY <2>1 DEF Record
  <2>3. Write(m, r) /\ Anchor(m) /\ UNCHANGED legacy
    BY <1>5 DEF SetResolver
  <2> HIDE DEF r
  <2>4. m = p => /\ r.kind = "TopLevel" /\ r.owner # None
                 /\ Records(p).expiry <= r.expiry
    BY <1>1, <2>2 DEF Carries
  <2> QED
    BY <1>0, <2>2, <2>3, <2>4, WriteCarries
<1>6. ASSUME NEW m \in TopNodes, NEW e \in ExpiryInputs, NEW a \in Accounts,
             RegisterTopLevel(m, a, e)
      PROVE  Carries(p, expiry)'
  <2>1. TopLevelRecord(a, None, e) \in Record
    BY <1>0, <1>6, BoundsAssumption
    DEF RegisterTopLevel, FutureExpiry, TopLevelRecord, Record
  <2>2. m # p
    BY <1>2, <1>6 DEF RegisterTopLevel
  <2> QED
    BY <1>0, <1>6, <2>1, <2>2, WriteCarries DEF RegisterTopLevel
<1>7. ASSUME NEW m \in TopNodes, NEW e \in ExpiryInputs, RenewTopLevel(m, e)
      PROVE  Carries(p, expiry)'
  <2> DEFINE r == [Records(m) EXCEPT !.expiry = e]
  <2>1. Records(m) \in Record /\ e \in Expiries /\ Records(m).expiry < e
    BY <1>1, <1>7, BoundsAssumption DEF RenewTopLevel
  <2>2. /\ r \in Record /\ r.owner = Records(m).owner
        /\ r.kind = Records(m).kind /\ r.expiry = e
    BY <2>1 DEF Record
  <2>3. Write(m, r) /\ Anchor(m) /\ UNCHANGED legacy
    BY <1>7 DEF RenewTopLevel
  <2> HIDE DEF r
  <2>4. m = p => /\ r.kind = "TopLevel" /\ r.owner # None
                 /\ Records(p).expiry <= r.expiry
    BY <1>1, <2>1, <2>2, BoundsAssumption DEF Carries
  <2> QED
    BY <1>0, <2>2, <2>3, <2>4, WriteCarries
<1>8. ASSUME NEW m \in SubNodes, NEW r, Write(m, r),
             Anchor(m) \/ UNCHANGED migrated, UNCHANGED legacy
      PROVE  Carries(p, expiry)'
  <2>1. Records(p)' = Records(p)
    BY <1>0, <1>8, OtherRecordsKept, NodesAssumption
  <2> QED
    BY <1>8, <2>1 DEF Carries
<1>9. ASSUME NEW m \in SubNodes,
             \/ \E b \in Accounts, e \in ExpiryInputs :
                  RegisterSubdomain(m, ParentNode[m], b, e)
             \/ \E e \in ExpiryInputs : RenewSubdomain(m, e)
             \/ \E b \in Accounts : ReassignSubdomain(m, b)
             \/ ReleaseSubdomain(m)
      PROVE  Carries(p, expiry)'
  <2>1. ASSUME NEW b \in Accounts, NEW e \in ExpiryInputs,
               RegisterSubdomain(m, ParentNode[m], b, e)
        PROVE  Carries(p, expiry)'
    BY <1>8, <2>1 DEF RegisterSubdomain
  <2>2. ASSUME NEW e \in ExpiryInputs, RenewSubdomain(m, e)
        PROVE  Carries(p, expiry)'
    BY <1>8, <2>2 DEF RenewSubdomain
  <2>3. ASSUME NEW b \in Accounts, ReassignSubdomain(m, b)
        PROVE  Carries(p, expiry)'
    BY <1>8, <2>3 DEF ReassignSubdomain
  <2>4. ASSUME ReleaseSubdomain(m)
        PROVE  Carries(p, expiry)'
    BY <1>8, <2>4 DEF ReleaseSubdomain
  <2> QED
    BY <1>9, <2>1, <2>2, <2>3, <2>4
<1> QED
  BY <1>3, <1>4, <1>5, <1>6, <1>7, <1>9 DEF OwnerCall, RegistrarCall

\* A name in term at Registry V2 is extended or handed on there, never lost.
LEMMA LegacyStepCarries ==
  ASSUME RegistryInv, LegacyStep,
         NEW p \in TopNodes, NEW expiry \in Nat, now < expiry,
         Carries(p, expiry)
  PROVE  Carries(p, expiry)'
<1>1. /\ legacy \in [Nodes -> LegacyRecord] /\ now \in Nat
      /\ legacy[p].expiry \in Nat
  BY BoundsAssumption, TimeAssumption DEF RegistryInv, TypeOK, LegacyRecord
<1>2. LegacyOwnerOf(p) = legacy[p].owner
  BY <1>1 DEF Carries, LegacyOwnerOf
<1>3. UNCHANGED nameVars
  BY OtherSteps DEF RegistryInv
<1>4. legacy'[p].owner # None /\ legacy[p].expiry <= legacy'[p].expiry
      /\ legacy'[p].expiry \in Nat
  <2>1. ASSUME NEW m \in LegacyNodes, NEW a \in Accounts, NEW e \in Expiries,
               LegacyRegister(m, a, e)
        PROVE  /\ legacy'[p].owner # None
               /\ legacy[p].expiry <= legacy'[p].expiry
               /\ legacy'[p].expiry \in Nat
    <3>1. CASE m = p
      BY <1>1, <1>2, <2>1, <3>1, NoneAssumption, BoundsAssumption
      DEF LegacyRegister, Carries
    <3>2. CASE m # p
      BY <1>1, <2>1, <3>2 DEF LegacyRegister, Carries
    <3> QED
      BY <3>1, <3>2
  <2>2. ASSUME NEW m \in LegacyNodes, NEW a \in Accounts, NEW b \in Accounts,
               LegacyTransfer(a, m, b)
        PROVE  /\ legacy'[p].owner # None
               /\ legacy[p].expiry <= legacy'[p].expiry
               /\ legacy'[p].expiry \in Nat
    <3>1. CASE m = p
      <4>1. legacy'[p] = [legacy[p] EXCEPT !.owner = b, !.resolver = None]
        BY <1>1, <2>2, <3>1 DEF LegacyTransfer
      <4>2. legacy'[p].owner = b /\ legacy'[p].expiry = legacy[p].expiry
        BY <1>1, <4>1 DEF LegacyRecord
      <4> QED
        BY <1>1, <4>2, NoneAssumption
    <3>2. CASE m # p
      BY <1>1, <2>2, <3>2 DEF LegacyTransfer, Carries
    <3> QED
      BY <3>1, <3>2
  <2>3. ASSUME NEW m \in LegacyNodes, NEW a \in Accounts,
               NEW x \in Resolvers \cup {None}, LegacySetResolver(a, m, x)
        PROVE  /\ legacy'[p].owner # None
               /\ legacy[p].expiry <= legacy'[p].expiry
               /\ legacy'[p].expiry \in Nat
    <3>1. CASE m = p
      <4>1. legacy'[p] = [legacy[p] EXCEPT !.resolver = x]
        BY <1>1, <2>3, <3>1 DEF LegacySetResolver
      <4>2. /\ legacy'[p].owner = legacy[p].owner
            /\ legacy'[p].expiry = legacy[p].expiry
        BY <1>1, <4>1 DEF LegacyRecord
      <4> QED
        BY <1>1, <4>2 DEF Carries
    <3>2. CASE m # p
      BY <1>1, <2>3, <3>2 DEF LegacySetResolver, Carries
    <3> QED
      BY <3>1, <3>2
  <2> QED
    BY <2>1, <2>2, <2>3 DEF LegacyStep
<1>5. CASE migrated[p]
  <2>1. Records(p)' = Records(p)
    BY <1>3, <1>5 DEF Records, nameVars
  <2> QED
    BY <1>1, <1>4, <2>1 DEF Carries
<1>6. CASE ~migrated[p]
  <2>1. /\ Records(p)'.kind = "TopLevel"
        /\ Records(p)'.owner = legacy'[p].owner
        /\ Records(p)'.expiry = legacy'[p].expiry
    BY <1>3, <1>4, <1>6 DEF Records, nameVars
  <2> QED
    BY <1>1, <1>4, <2>1 DEF Carries
<1> QED
  BY <1>5, <1>6

LEMMA RegistryCarries ==
  ASSUME RegistryInv, [Next]_registryVars,
         NEW p \in TopNodes, NEW expiry \in Nat, now < expiry,
         Carries(p, expiry)
  PROVE  Carries(p, expiry)'
<1>1. CASE OwnerCall \/ RegistrarCall
  BY <1>1, CallsCarry
<1>2. CASE LegacyStep
  BY <1>2, LegacyStepCarries
<1>3. CASE RegistrarChange \/ Tick \/ UNCHANGED registryVars
  <2>1. UNCHANGED <<stored, migrated, legacy>>
    BY <1>3 DEF RegistrarChange, SetRegistrar, ProposeRegistrar,
                CancelRegistrarChange, ActivateRegistrar, Tick, nameVars,
                registryVars
  <2> QED
    BY <2>1 DEF Carries, Records
<1> QED
  BY <1>1, <1>2, <1>3 DEF Next

\* A record of the retired module keeps its expiry until it is erased.
LEMMA LegacySubKeepsExpiry ==
  ASSUME RegistryInv, LegacySubsTyped, [UnifiedNext]_unifiedVars,
         NEW n \in SubNodes, legacySubs'[n].owner # None
  PROVE  /\ legacySubs'[n].expiry = legacySubs[n].expiry
         /\ legacySubs[n].owner # None
<1>1. CASE UNCHANGED legacySubs
  BY <1>1
<1>2. CASE LegacySubStep
  <2>1. ASSUME NEW m \in SubNodes, NEW r, LegacySubWrite(m, r),
               m = n => /\ legacySubs[n].owner # None
                        /\ r = EmptyLegacySub
                           \/ r.expiry = legacySubs[n].expiry
        PROVE  /\ legacySubs'[n].expiry = legacySubs[n].expiry
               /\ legacySubs[n].owner # None
    <3>1. CASE m = n
      BY <2>1, <3>1 DEF LegacySubWrite, LegacySubsTyped, EmptyLegacySub
    <3>2. CASE m # n
      BY <2>1, <3>2 DEF LegacySubWrite, LegacySubsTyped
    <3> QED
      BY <3>1, <3>2
  <2>2. \A m \in SubNodes : \A r : LegacySubWrite(m, r) => legacySubs[m].owner # None
    BY DEF LegacySubWrite, LegacySubOwnerOf
  <2>3. ASSUME NEW m \in SubNodes, NEW a \in Accounts, LegacySubMove(m, a)
        PROVE  /\ legacySubs'[n].expiry = legacySubs[n].expiry
               /\ legacySubs[n].owner # None
    <3>1. [legacySubs[m] EXCEPT !.owner = a, !.routes = NoRoutes].expiry
            = legacySubs[m].expiry
      BY DEF LegacySubsTyped, LegacySub
    <3> QED
      BY <2>1, <2>2, <2>3, <3>1 DEF LegacySubMove
  <2>4. ASSUME NEW m \in SubNodes, NEW chain \in Chains,
               NEW a \in Accounts \cup {None}, LegacySubSetAddress(m, chain, a)
        PROVE  /\ legacySubs'[n].expiry = legacySubs[n].expiry
               /\ legacySubs[n].owner # None
    <3>1. [legacySubs[m] EXCEPT !.routes[chain] = a].expiry
            = legacySubs[m].expiry
      BY DEF LegacySubsTyped, LegacySub
    <3> QED
      BY <2>1, <2>2, <2>4, <3>1 DEF LegacySubSetAddress
  <2>5. ASSUME NEW m \in SubNodes, LegacySubRelease(m)
        PROVE  /\ legacySubs'[n].expiry = legacySubs[n].expiry
               /\ legacySubs[n].owner # None
    BY <2>1, <2>2, <2>5 DEF LegacySubRelease
  <2> QED
    BY <1>2, <2>3, <2>4, <2>5 DEF LegacySubStep
<1>3. CASE SaleStep
  <2>1. PICK sender \in Accounts,
             auth \in Authorizations \cup {NoAuthorization},
             m \in Nodes :
          \E q \in PresentedQuotes(sender) :
            \/ m \in TopNodes /\ Register(sender, q, auth, m)
            \/ AgingSale(sender, q, auth, m)
    BY <1>3, SaleKinds
  <2>2. PICK q \in PresentedQuotes(sender), product \in Products :
          Sell(sender, q, auth, m, product)
    BY <2>1, SaleSells
  <2> QED
    BY <1>1, <2>2, SellLeaves
<1>4. CASE \/ NamesStep \/ RecordsStep \/ PricingStep \/ AdminStep
           \/ ParentStep \/ \E m \in SubNodes : MigrateSubdomain(m)
           \/ UNCHANGED unifiedVars
  <2>1. UNCHANGED legacySubs
    BY <1>4, ParentStepMoves
    DEF NamesStep, RecordsStep, PricingStep, AdminStep, MigrateSubdomain,
        unifiedVars, registrarSideVars
  <2> QED
    BY <1>1, <2>1
<1> QED
  BY <1>2, <1>3, <1>4 DEF UnifiedNext

\* No subdomain of the retired module that is still in term is shut out.
THEOREM ImportsNeverStuck == UnifiedSpec => []ImportNeverStuck
<1>1. UnifiedInit => ImportsStand
  <2> SUFFICES ASSUME UnifiedInit, NEW n \in SubNodes,
                      legacySubs[n].owner # None, now < legacySubs[n].expiry
               PROVE  Carries(ParentNode[n], legacySubs[n].expiry)
    BY DEF ImportsStand
  <2>1. /\ now = 0 /\ legacy = LegacyAtStart /\ legacySubs = LegacySubAtStart
        /\ migrated = [m \in Nodes |-> FALSE]
    BY DEF UnifiedInit, ResolverInit, Init
  <2>2. ParentNode[n] \in Nodes
    BY NodesAssumption
  <2>3. /\ legacySubs[n].expiry <= legacy[ParentNode[n]].expiry
        /\ legacySubs[n].expiry \in Nat
        /\ legacy[ParentNode[n]] \in LegacyRecord
    BY <2>1, <2>2, LegacySubAssumption, LegacyAssumption, BoundsAssumption
    DEF LegacySub
  <2>4. legacy[ParentNode[n]].owner # None
    <3>1. legacy[ParentNode[n]].expiry # 0
      BY <2>1, <2>3, BoundsAssumption DEF LegacyRecord
    <3> QED
      BY <2>1, <2>2, <3>1, LegacyAssumption DEF EmptyLegacyRecord
  <2> QED
    BY <2>1, <2>2, <2>3, <2>4 DEF Carries, Records
<1>2. ASSUME UnifiedInv, ImportsStand, [UnifiedNext]_unifiedVars
      PROVE  ImportsStand'
  <2> SUFFICES ASSUME NEW n \in SubNodes, legacySubs'[n].owner # None,
                      now' < legacySubs'[n].expiry
               PROVE  Carries(ParentNode[n], legacySubs[n].expiry)'
    BY DEF ImportsStand
  <2>1. RegistryInv /\ LegacySubsTyped /\ [Next]_registryVars
    BY <1>2, RegistryMovesUnified DEF UnifiedInv, RegistrarInv
  <2>2. /\ legacySubs'[n].expiry = legacySubs[n].expiry
        /\ legacySubs[n].owner # None
    BY <1>2, <2>1, LegacySubKeepsExpiry
  <2>3. PICK expiry \in Nat : expiry = legacySubs[n].expiry
    BY <2>1, BoundsAssumption DEF LegacySubsTyped, LegacySub
  <2>4. now < expiry
    <3>1. now \in Nat /\ now' \in Nat /\ now' >= now
      BY <2>1, RegistryKeepsClock, TimeAssumption DEF RegistryInv, TypeOK
    <3> QED
      BY <2>2, <2>3, <3>1
  <2>5. Carries(ParentNode[n], expiry)
    BY <1>2, <2>2, <2>3, <2>4 DEF ImportsStand
  <2>6. Carries(ParentNode[n], expiry)'
    BY <2>1, <2>4, <2>5, NodesAssumption, RegistryCarries
  <2> QED
    BY <2>2, <2>3, <2>6
<1>3. UnifiedInv /\ ImportsStand => ImportNeverStuck
  <2> SUFFICES ASSUME UnifiedInv, ImportsStand, NEW n \in SubNodes,
                      legacySubs[n].owner # None, now < legacySubs[n].expiry
               PROVE  /\ LegacySubOwnerOf(n) = legacySubs[n].owner
                      /\ ActiveTopLevel(ParentNode[n])
                      /\ legacySubs[n].expiry <= ExpiryOf(ParentNode[n])
    BY DEF ImportNeverStuck
  <2> DEFINE p == ParentNode[n]
  <2>1. Carries(p, legacySubs[n].expiry)
    BY DEF ImportsStand
  <2>2. /\ now \in Nat /\ legacySubs[n].expiry \in Nat
        /\ legacy[p].expiry \in Nat /\ Records(p).expiry \in Nat
    <3>1. TypeOK /\ LegacySubsTyped /\ p \in Nodes
      BY NodesAssumption DEF UnifiedInv, RegistryInv, RegistrarInv
    <3>2. Records(p) \in Record /\ legacy[p] \in LegacyRecord
      BY <3>1, RecordsType DEF TypeOK
    <3> QED
      BY <3>1, <3>2, BoundsAssumption, TimeAssumption
      DEF TypeOK, LegacySubsTyped, LegacySub, Record, LegacyRecord
  <2> QED
    BY <2>1, <2>2
    DEF Carries, LegacySubOwnerOf, LegacyOwnerOf, ActiveTopLevel, ExpiryOf
<1> QED
  BY <1>1, <1>2, <1>3, UnifiedInvariant, PTL DEF UnifiedSpec
=============================================================================
