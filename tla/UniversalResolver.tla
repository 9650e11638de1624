-------------------------- MODULE UniversalResolver --------------------------
(***************************************************************************)
(* The resolver for addresses, profile texts and primary names,            *)
(* src/contracts/XNSUniversalResolver.sol, on top of the registry it reads *)
(* at every call.                                                          *)
(*                                                                         *)
(* The contract never erases a record when a name changes hands: it stamps *)
(* each record with the owner and the ownership generation of the moment   *)
(* and compares both when the record is read.  A history field, inTenure,  *)
(* says what the stamps are meant to tell: whether the ownership under     *)
(* which the record was written has lasted without interruption.           *)
(***************************************************************************)
EXTENDS RegistryV3

CONSTANTS
  Chains,        \* chain ids an address record may be kept for
  DefaultChain,  \* chain id 0, the default route
  Keys,          \* supported profile keys
  Values         \* non-empty profile values

ASSUME ChainsAssumption == None \notin Chains /\ None \notin Values

VARIABLES
  addresses,             \* _addresses
  texts,                 \* _texts
  primary,               \* _primaryRecords
  legacyRoutesImported,  \* legacyRoutesImported
  chosen                 \* history: the name an account chose itself, for as
                         \* long as it has owned it without interruption

recordVars == <<addresses, texts, primary, legacyRoutesImported, chosen>>
resolverVars == <<registryVars, recordVars>>

-----------------------------------------------------------------------------
(* Values *)

Stamp == [recordOwner : Accounts \cup {None},
          generation : 0 .. MaxGeneration,
          inTenure : BOOLEAN]

NoStamp == [recordOwner |-> None, generation |-> 0, inTenure |-> FALSE]

NoAddress == [target |-> None, stamp |-> NoStamp]
NoText == [value |-> None, stamp |-> NoStamp]
NoPrimary == [node |-> None, generation |-> 0, inTenure |-> FALSE]

AddressRecord == [target : Accounts \cup {None}, stamp : Stamp]
TextRecord == [value : Values \cup {None}, stamp : Stamp]
PrimaryRecord == [node : Nodes \cup {None},
                  generation : 0 .. MaxGeneration,
                  inTenure : BOOLEAN]

StampNow(owner, n) ==
  [recordOwner |-> owner, generation |-> generation[n], inTenure |-> TRUE]

-----------------------------------------------------------------------------
(* Views *)

StampHoldsByOwner(n, stamp) ==
  /\ OwnerOf(n) # None
  /\ stamp.recordOwner = OwnerOf(n)

\* The test addressFor, addressRecord and text make of a stamp.
StampHolds(n, stamp) ==
  /\ OwnerOf(n) # None
  /\ stamp.recordOwner = OwnerOf(n)
  /\ stamp.generation = generation[n]

AddressActive(n, chain) ==
  addresses[n][chain].target # None /\ StampHolds(n, addresses[n][chain].stamp)

\* addressFor(node, chainId): the owner itself unless an active record says
\* otherwise.
AddressFor(n, chain) ==
  IF AddressActive(n, chain) THEN addresses[n][chain].target ELSE OwnerOf(n)

TextActive(n, key) ==
  texts[n][key].value # None /\ StampHolds(n, texts[n][key].stamp)

IsPrimaryActiveByOwner(account, record) ==
  /\ record.node # None
  /\ OwnerOf(record.node) = account

\* _isPrimaryActive(account, record)
IsPrimaryActive(account, record) ==
  /\ record.node # None
  /\ OwnerOf(record.node) = account
  /\ record.generation = generation[record.node]

\* primaryNames(account)
PrimaryOf(account) ==
  IF IsPrimaryActive(account, primary[account])
  THEN primary[account].node ELSE None

-----------------------------------------------------------------------------
(* Operations *)

\* onlyNameOwner and the refusal of names that were never anchored.
MayWrite(sender, n) ==
  /\ sender # None
  /\ OwnerOf(n) = sender
  /\ generation[n] # 0

SetAddressStoringZero(sender, n, chain, target) ==
  /\ MayWrite(sender, n)
  /\ addresses' = [addresses EXCEPT ![n][chain] =
       [target |-> target, stamp |-> StampNow(sender, n)]]
  /\ UNCHANGED <<registryVars, texts, primary, legacyRoutesImported, chosen>>

SetAddress(sender, n, chain, target) ==
  /\ MayWrite(sender, n)
  /\ addresses' = [addresses EXCEPT ![n][chain] =
       IF target = None THEN NoAddress
       ELSE [target |-> target, stamp |-> StampNow(sender, n)]]
  /\ UNCHANGED <<registryVars, texts, primary, legacyRoutesImported, chosen>>

ClearAddress(sender, n, chain) ==
  /\ MayWrite(sender, n)
  /\ addresses' = [addresses EXCEPT ![n][chain] = NoAddress]
  /\ UNCHANGED <<registryVars, texts, primary, legacyRoutesImported, chosen>>

SetText(sender, n, key, value) ==
  /\ MayWrite(sender, n)
  /\ texts' = [texts EXCEPT ![n][key] =
       IF value = None THEN NoText
       ELSE [value |-> value, stamp |-> StampNow(sender, n)]]
  /\ UNCHANGED <<registryVars, addresses, primary, legacyRoutesImported,
                 chosen>>

\* Called by the registrar, once per node, for its present owner; routes is
\* the part of chainIds and targets with a non-zero target.
ImportLegacyRoutes(n, recordOwner, routes) ==
  /\ registrar # None
  /\ ~legacyRoutesImported[n]
  /\ DefaultChain \notin DOMAIN routes
  /\ OwnerOf(n) = recordOwner
  /\ generation[n] # 0
  /\ legacyRoutesImported' = [legacyRoutesImported EXCEPT ![n] = TRUE]
  /\ addresses' = [addresses EXCEPT ![n] =
       [chain \in Chains |->
          IF chain \in DOMAIN routes /\ routes[chain] # None
          THEN [target |-> routes[chain], stamp |-> StampNow(recordOwner, n)]
          ELSE @[chain]]]
  /\ UNCHANGED <<registryVars, texts, primary, chosen>>

PrimaryNow(n) == [node |-> n, generation |-> generation[n], inTenure |-> TRUE]

SetPrimaryName(sender, n) ==
  /\ MayWrite(sender, n)
  /\ primary' = [primary EXCEPT ![sender] = PrimaryNow(n)]
  /\ chosen' = [chosen EXCEPT ![sender] = n]
  /\ UNCHANGED <<registryVars, addresses, texts, legacyRoutesImported>>

\* Called by the registrar; leaves a valid primary name alone.
InitializePrimaryName(account, n) ==
  /\ registrar # None
  /\ MayWrite(account, n)
  /\ ~IsPrimaryActive(account, primary[account])
  /\ primary' = [primary EXCEPT ![account] = PrimaryNow(n)]
  /\ UNCHANGED <<registryVars, addresses, texts, legacyRoutesImported,
                 chosen>>

ClearPrimaryName(sender) ==
  /\ primary' = [primary EXCEPT ![sender] = NoPrimary]
  /\ chosen' = [chosen EXCEPT ![sender] = None]
  /\ UNCHANGED <<registryVars, addresses, texts, legacyRoutesImported>>

-----------------------------------------------------------------------------
(* The composed system *)

\* History: what was written under an ownership that ends with the step is no
\* longer in tenure.  The contract's own fields do not change.
Lasts == [n \in Nodes |-> OwnerOf(n)' = OwnerOf(n)]
AgedAddresses ==
  [n \in Nodes |-> [chain \in Chains |->
     [addresses[n][chain] EXCEPT !.stamp.inTenure = @ /\ Lasts[n]]]]
AgedTexts ==
  [n \in Nodes |-> [key \in Keys |->
     [texts[n][key] EXCEPT !.stamp.inTenure = @ /\ Lasts[n]]]]
AgedPrimary ==
  [a \in Accounts |->
     [primary[a] EXCEPT !.inTenure = @ /\ Lasts[primary[a].node]]]
AgedChosen ==
  [a \in Accounts |->
     IF chosen[a] # None /\ Lasts[chosen[a]] THEN chosen[a] ELSE None]

AgeRecords ==
  /\ addresses' = AgedAddresses
  /\ texts' = AgedTexts
  /\ primary' = AgedPrimary
  /\ chosen' = AgedChosen

RegistryStep == Next /\ AgeRecords /\ UNCHANGED legacyRoutesImported

ResolverInit ==
  /\ Init
  /\ addresses = [n \in Nodes |-> [chain \in Chains |-> NoAddress]]
  /\ texts = [n \in Nodes |-> [key \in Keys |-> NoText]]
  /\ primary = [a \in Accounts |-> NoPrimary]
  /\ legacyRoutesImported = [n \in Nodes |-> FALSE]
  /\ chosen = [a \in Accounts |-> None]

RecordStep ==
  \E a \in Accounts, n \in Nodes :
    \/ \E chain \in Chains :
         \/ \E target \in Accounts \cup {None} :
              SetAddress(a, n, chain, target)
         \/ ClearAddress(a, n, chain)
    \/ \E key \in Keys, value \in Values \cup {None} :
         SetText(a, n, key, value)
    \/ SetPrimaryName(a, n)
    \/ ClearPrimaryName(a)

ImportStep ==
  \E a \in Accounts, n \in Nodes :
    \/ \E routes \in [Chains \ {DefaultChain} -> Accounts \cup {None}] :
         ImportLegacyRoutes(n, a, routes)
    \/ InitializePrimaryName(a, n)

ResolverNext == RegistryStep \/ RecordStep \/ ImportStep

ResolverSpec == ResolverInit /\ [][ResolverNext]_resolverVars

-----------------------------------------------------------------------------
(* Properties *)

\* Every variable of the resolver holds values of its type; an erased record
\* keeps no stamp, and no stamp is of a generation yet to come.
ResolverTypeOK ==
  /\ addresses \in [Nodes -> [Chains -> AddressRecord]]
  /\ texts \in [Nodes -> [Keys -> TextRecord]]
  /\ primary \in [Accounts -> PrimaryRecord]
  /\ legacyRoutesImported \in [Nodes -> BOOLEAN]
  /\ chosen \in [Accounts -> Nodes \cup {None}]
  /\ \A n \in Nodes, chain \in Chains :
       /\ addresses[n][chain].target = None
            <=> addresses[n][chain].stamp = NoStamp
       /\ addresses[n][chain].stamp.generation <= generation[n]

\* An address or a text answers a query exactly while the ownership it was
\* written under lasts: never after a sale, a lapse, a recall or a release,
\* even when the name later returns to the same account, and through every
\* renewal in between.
RecordsLiveExactlyInTenure ==
  \A n \in Nodes :
    /\ \A chain \in Chains :
         AddressActive(n, chain) <=>
           /\ addresses[n][chain].target # None
           /\ addresses[n][chain].stamp.inTenure
    /\ \A key \in Keys :
         TextActive(n, key) <=>
           texts[n][key].value # None /\ texts[n][key].stamp.inTenure

\* The same for a primary name: it is shown exactly while the account has
\* owned that name without interruption since it was chosen.
PrimaryLiveExactlyInTenure ==
  \A a \in Accounts :
    PrimaryOf(a) # None <=> primary[a].node # None /\ primary[a].inTenure

\* The primary name an account chose itself is shown for as long as the
\* account keeps that name: the registrar's registrations and imports, which
\* initialise primary names on their own, never put another in its place.
OwnChoiceStands ==
  \A a \in Accounts : chosen[a] # None => PrimaryOf(a) = chosen[a]
=============================================================================
