--------------------------- MODULE PricingPolicyV2 ---------------------------
(***************************************************************************)
(* The pricing policy, src/contracts/XNSPricingPolicyV2.sol: a versioned   *)
(* configuration that changes only after a public delay, and whose last    *)
(* version stays good for quotes during a short grace period.              *)
(*                                                                         *)
(* A configuration keeps the fields other code reads: annual prices by     *)
(* class of name, term discounts, the quote signer, the payment token, the *)
(* treasury and the two payment switches.  The premium subdomain and       *)
(* migration prices are left out: no contract asks for them.               *)
(***************************************************************************)
EXTENDS Clock

CONSTANTS
  Proposals,         \* configurations the owner may propose
  InitialConfig,     \* the constructor's configuration
  QuoteSigners,      \* non-zero quote signer addresses
  NoConfig,          \* a deleted configuration
  UpdateDelay,       \* UPDATE_DELAY, in ticks
  QuoteGracePeriod,  \* QUOTE_GRACE_PERIOD, in ticks
  MaxVersion         \* bound on version

Configs == Proposals \cup {InitialConfig}

BASIS_POINTS == 10000
MIN_LABEL_LENGTH == 2
MAX_LABEL_LENGTH == 63
NoSigner == NoConfig.quoteSigner

PriceClasses == {"two", "three", "four", "standard", "subdomain"}

\* _validateConfig
ValidConfig(c) ==
  /\ \A class \in PriceClasses : c.annual[class] \in Nat \ {0}
  /\ c.quoteSigner \in QuoteSigners
  /\ c.threeYearDiscountBps <= c.fiveYearDiscountBps
  /\ c.fiveYearDiscountBps <= c.tenYearDiscountBps
  /\ c.tenYearDiscountBps < BASIS_POINTS
  /\ c.threeYearDiscountBps \in Nat /\ c.fiveYearDiscountBps \in Nat
  /\ c.tenYearDiscountBps \in Nat

ASSUME PolicyAssumption ==
  /\ \A c \in Configs : c # NoConfig /\ ValidConfig(c)
  /\ NoConfig.quoteSigner \notin QuoteSigners
  /\ MaxVersion \in Nat \ {0}
  /\ UpdateDelay \in Nat /\ QuoteGracePeriod \in Nat
  /\ QuoteGracePeriod < UpdateDelay   \* five minutes, forty-eight hours

VARIABLES
  config,                   \* _config
  pendingConfig,            \* _pendingConfig
  hasPendingConfig,         \* hasPendingConfig
  pendingActivationTime,    \* pendingActivationTime
  version,                  \* version
  previousConfig,           \* _previousConfig
  previousVersion,          \* previousVersion
  previousQuoteSigner,      \* previousQuoteSigner
  previousQuoteValidUntil,  \* previousQuoteValidUntil
  retired                   \* history: each retired version's configuration
                            \* and the time it was replaced

policyVars == <<config, pendingConfig, hasPendingConfig, pendingActivationTime,
                version, previousConfig, previousVersion, previousQuoteSigner,
                previousQuoteValidUntil, retired>>
pendingVars == <<pendingConfig, hasPendingConfig, pendingActivationTime>>
activeVars == <<config, version, previousConfig, previousVersion,
                previousQuoteSigner, previousQuoteValidUntil, retired>>

-----------------------------------------------------------------------------
(* Prices *)

DivideRoundingUp(numerator, denominator) ==
  (numerator + denominator - 1) \div denominator

\* The annual price class of a product and a label length, "none" when the
\* length is refused.
PriceClass(product, labelLength) ==
  IF product = "Subdomain" THEN "subdomain"
  ELSE IF labelLength \notin MIN_LABEL_LENGTH .. MAX_LABEL_LENGTH THEN "none"
  ELSE CASE labelLength = 2 -> "two"
         [] labelLength = 3 -> "three"
         [] labelLength = 4 -> "four"
         [] OTHER -> "standard"

Terms == {1, 3, 5, 10}

DiscountForTerm(c, years) ==
  CASE years = 1 -> 0
    [] years = 3 -> c.threeYearDiscountBps
    [] years = 5 -> c.fiveYearDiscountBps
    [] years = 10 -> c.tenYearDiscountBps

\* _priceUsdMicros, for a term in Terms and a class that is not "none".
PriceUsdMicros(c, class, years) ==
  DivideRoundingUp(
    c.annual[class] * years * (BASIS_POINTS - DiscountForTerm(c, years)),
    BASIS_POINTS)

\* The configuration priceUsdMicrosForVersion prices by; NoConfig when it
\* reverts.
ConfigForVersion(quoteVersion) ==
  IF quoteVersion = version THEN config
  ELSE IF quoteVersion = previousVersion /\ now <= previousQuoteValidUntil
  THEN previousConfig
  ELSE NoConfig

IsQuoteAuthorizationValid(signer, quoteVersion) ==
  \/ signer = config.quoteSigner /\ quoteVersion = version
  \/ /\ signer = previousQuoteSigner
     /\ quoteVersion = previousVersion
     /\ now <= previousQuoteValidUntil

-----------------------------------------------------------------------------
(* Operations *)

PolicyInit ==
  /\ config = InitialConfig
  /\ pendingConfig = NoConfig
  /\ hasPendingConfig = FALSE
  /\ pendingActivationTime = 0
  /\ version = 1
  /\ previousConfig = NoConfig
  /\ previousVersion = 0
  /\ previousQuoteSigner = NoSigner
  /\ previousQuoteValidUntil = 0
  /\ retired = [v \in 1 .. MaxVersion |-> [config |-> NoConfig, at |-> 0]]

ProposeConfig(next) ==
  /\ ValidConfig(next)
  /\ pendingConfig' = next
  /\ pendingActivationTime' = now + UpdateDelay
  /\ hasPendingConfig' = TRUE
  /\ UNCHANGED activeVars

CancelPendingConfigKeepingFlag ==
  /\ hasPendingConfig
  /\ pendingConfig' = NoConfig
  /\ pendingActivationTime' = 0
  /\ UNCHANGED <<activeVars, hasPendingConfig>>

CancelPendingConfig ==
  /\ hasPendingConfig
  /\ pendingConfig' = NoConfig
  /\ pendingActivationTime' = 0
  /\ hasPendingConfig' = FALSE
  /\ UNCHANGED activeVars

Retire ==
  retired' = [retired EXCEPT ![version] = [config |-> config, at |-> now]]

ActivatePendingConfigNewSigner ==
  /\ version < MaxVersion
  /\ hasPendingConfig
  /\ now >= pendingActivationTime
  /\ previousVersion' = version
  /\ previousQuoteSigner' = pendingConfig.quoteSigner
  /\ previousQuoteValidUntil' = now + QuoteGracePeriod
  /\ previousConfig' = config
  /\ config' = pendingConfig
  /\ version' = version + 1
  /\ pendingConfig' = NoConfig
  /\ pendingActivationTime' = 0
  /\ hasPendingConfig' = FALSE
  /\ Retire

\* Open to anyone once the delay is over.
ActivatePendingConfig ==
  /\ version < MaxVersion
  /\ hasPendingConfig
  /\ now >= pendingActivationTime
  /\ previousVersion' = version
  /\ previousQuoteSigner' = config.quoteSigner
  /\ previousQuoteValidUntil' = now + QuoteGracePeriod
  /\ previousConfig' = config
  /\ config' = pendingConfig
  /\ version' = version + 1
  /\ pendingConfig' = NoConfig
  /\ pendingActivationTime' = 0
  /\ hasPendingConfig' = FALSE
  /\ Retire

PolicyStep ==
  \/ \E c \in Proposals : ProposeConfig(c)
  \/ CancelPendingConfig
  \/ ActivatePendingConfig

PolicySpec ==
  /\ now = 0 /\ PolicyInit
  /\ [][\/ PolicyStep /\ UNCHANGED now
        \/ ClockTick /\ UNCHANGED policyVars]_<<now, policyVars>>

-----------------------------------------------------------------------------
(* Properties *)

\* Every variable holds values of its type.
PolicyTypeOK ==
  /\ now \in 0 .. MaxTime
  /\ config \in Configs
  /\ pendingConfig \in Configs \cup {NoConfig}
  /\ hasPendingConfig \in BOOLEAN
  /\ hasPendingConfig <=> pendingConfig # NoConfig
  /\ pendingActivationTime \in 0 .. MaxTime + UpdateDelay
  /\ version \in 1 .. MaxVersion
  /\ previousConfig \in Configs \cup {NoConfig}
  /\ previousVersion \in 0 .. MaxVersion
  /\ previousQuoteSigner \in QuoteSigners \cup {NoSigner}
  /\ previousQuoteValidUntil \in 0 .. MaxTime + QuoteGracePeriod
  /\ retired \in [1 .. MaxVersion ->
       [config : Configs \cup {NoConfig}, at : 0 .. MaxTime]]

\* Version v with configuration c is good for quotes: it is the present one or
\* it was replaced no longer than the grace period ago.
InForce(v, c) ==
  \/ v = version /\ c = config
  \/ /\ v \in 1 .. version - 1
     /\ c = retired[v].config
     /\ now <= retired[v].at + QuoteGracePeriod

\* A quote is priced, and its signer trusted, by exactly the versions in force:
\* each replaced version is honoured for the whole of its grace period with
\* its own prices and its own signer, however soon the next change comes, and
\* not a moment longer.
GraceIsExact ==
  \A v \in 0 .. MaxVersion :
    /\ \A c \in Configs : ConfigForVersion(v) = c <=> InForce(v, c)
    /\ \A s \in QuoteSigners :
         IsQuoteAuthorizationValid(s, v)
           <=> \E c \in Configs : InForce(v, c) /\ c.quoteSigner = s
=============================================================================
