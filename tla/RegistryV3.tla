----------------------------- MODULE RegistryV3 -----------------------------
(***************************************************************************)
(* The canonical ownership registry, src/contracts/XNSRegistryV3.sol,      *)
(* together with the Registry V2 it reads through for names that were      *)
(* never anchored in V3 (src/contracts/XNSRegistryV2.sol).                 *)
(*                                                                         *)
(* A transaction is one step: the EVM runs it alone and a revert leaves no *)
(* trace, so an action is enabled exactly when the call would not revert.  *)
(* The registrar contract is any caller allowed by onlyRegistrar; the one  *)
(* thing kept from its code is that it hashes names, so the nodes it       *)
(* registers as top-level names and the nodes it registers as subdomains   *)
(* are disjoint and a subdomain's name determines its parent.              *)
(***************************************************************************)
EXTENDS Clock

CONSTANTS
  Accounts,               \* wallets that may own names
  TopNodes,               \* hashes of names such as "alice.xdc"
  LegacyNodes,            \* those Registry V2 goes on writing
  LegacyAtStart,          \* Registry V2's records when V3 is deployed
  SubNodes,               \* hashes of names such as "pay.alice.xdc"
  ParentNode,             \* the top-level node a subdomain's name ends with
  Resolvers,              \* non-zero values of the per-name resolver field
  Registrars,             \* contracts that can be appointed registrar
  Successors,             \* those the owner may propose in a rotation
  None,                   \* the zero address, and bytes32(0)
  RegistrarChangeDelay,   \* REGISTRAR_CHANGE_DELAY, in ticks
  MaxExpiry,              \* type(uint64).max
  MaxGeneration           \* bound on the ownership generation of a node

ASSUME NodesAssumption ==
  /\ TopNodes \cap SubNodes = {}
  /\ LegacyNodes \subseteq TopNodes
  /\ ParentNode \in [SubNodes -> TopNodes]

ASSUME RegistrarsAssumption == Successors \subseteq Registrars

ASSUME NoneAssumption ==
  /\ None \notin Accounts
  /\ None \notin Resolvers
  /\ None \notin Registrars
  /\ None \notin TopNodes \cup SubNodes

ASSUME BoundsAssumption ==
  /\ MaxExpiry \in Nat
  /\ MaxGeneration \in Nat
  /\ RegistrarChangeDelay \in Nat

Nodes == TopNodes \cup SubNodes
Expiries == 0 .. MaxExpiry          \* a stored uint64
ExpiryInputs == 0 .. MaxExpiry + 1  \* a uint256 argument, one beyond uint64

VARIABLES
  stored,                         \* _records
  generation,                     \* _ownershipGenerations
  migrated,                       \* migrated
  legacy,                         \* Registry V2's records
  registrar,                      \* registrar
  pendingRegistrar,               \* pendingRegistrar
  pendingRegistrarActivationTime, \* pendingRegistrarActivationTime
  announced                       \* history: the proposal in force, its time

nameVars == <<stored, generation, migrated>>
registrarVars == <<registrar, pendingRegistrar,
                   pendingRegistrarActivationTime, announced>>
registryVars == <<now, stored, generation, migrated, legacy, registrar,
                  pendingRegistrar, pendingRegistrarActivationTime, announced>>

-----------------------------------------------------------------------------
(* Values *)

LegacyRecord == [owner : Accounts \cup {None},
                 resolver : Resolvers \cup {None},
                 expiry : Expiries]

Record == [owner : Accounts \cup {None},
           resolver : Resolvers \cup {None},
           expiry : Expiries,
           parentNode : TopNodes \cup {None},
           kind : {"None", "TopLevel", "Subdomain"}]

EmptyLegacyRecord == [owner |-> None, resolver |-> None, expiry |-> 0]

EmptyRecord == [owner |-> None, resolver |-> None, expiry |-> 0,
                parentNode |-> None, kind |-> "None"]

\* Only top-level names were ever written to Registry V2.
ASSUME LegacyAssumption ==
  /\ LegacyAtStart \in [Nodes -> LegacyRecord]
  /\ \A n \in Nodes :
       LegacyAtStart[n].owner = None \/ n \in SubNodes
         => LegacyAtStart[n] = EmptyLegacyRecord

NoAnnouncement == [who |-> None, at |-> 0]

TopLevelRecord(owner, resolver, expiry) ==
  [owner |-> owner, resolver |-> resolver, expiry |-> expiry,
   parentNode |-> None, kind |-> "TopLevel"]

SubdomainRecord(parent, owner, expiry) ==
  [owner |-> owner, resolver |-> None, expiry |-> expiry,
   parentNode |-> parent, kind |-> "Subdomain"]

-----------------------------------------------------------------------------
(* Views *)

\* records(node): names that were never anchored are read from Registry V2.
Records(n) ==
  IF migrated[n]
  THEN stored[n]
  ELSE [owner |-> legacy[n].owner,
        resolver |-> legacy[n].resolver,
        expiry |-> legacy[n].expiry,
        parentNode |-> None,
        kind |-> IF legacy[n].owner = None /\ legacy[n].expiry = 0
                 THEN "None" ELSE "TopLevel"]

ExpiryOf(n) == Records(n).expiry

\* The test of _requireActiveTopLevel, of ownerOf's parent branch and of
\* renewTopLevel.
ActiveTopLevel(n) ==
  /\ Records(n).kind = "TopLevel"
  /\ Records(n).owner # None
  /\ Records(n).expiry >= now

\* ownerOf(node): nobody once the record, or a subdomain's parent, has lapsed.
OwnerOf(n) ==
  IF /\ Records(n).owner # None
     /\ Records(n).expiry >= now
     /\ Records(n).kind = "Subdomain" => ActiveTopLevel(Records(n).parentNode)
  THEN Records(n).owner
  ELSE None

\* ownerOf(node) of Registry V2.
LegacyOwnerOf(n) == IF legacy[n].expiry < now THEN None ELSE legacy[n].owner

-----------------------------------------------------------------------------
(* The registrar: set once, then rotated through a public delay *)

SetRegistrar(r) ==
  /\ registrar = None
  /\ registrar' = r
  /\ UNCHANGED <<now, nameVars, legacy, pendingRegistrar,
                 pendingRegistrarActivationTime, announced>>

ProposeRegistrarKeepingDeadline(r) ==
  /\ r # registrar
  /\ pendingRegistrar' = r
  /\ pendingRegistrarActivationTime' =
       IF pendingRegistrar = None THEN now + RegistrarChangeDelay
       ELSE pendingRegistrarActivationTime
  /\ announced' = [who |-> r, at |-> now]
  /\ UNCHANGED <<now, nameVars, legacy, registrar>>

ProposeRegistrar(r) ==
  /\ r # registrar
  /\ pendingRegistrar' = r
  /\ pendingRegistrarActivationTime' = now + RegistrarChangeDelay
  /\ announced' = [who |-> r, at |-> now]
  /\ UNCHANGED <<now, nameVars, legacy, registrar>>

CancelRegistrarChange ==
  /\ pendingRegistrar # None
  /\ pendingRegistrar' = None
  /\ pendingRegistrarActivationTime' = 0
  /\ announced' = NoAnnouncement
  /\ UNCHANGED <<now, nameVars, legacy, registrar>>

ActivateRegistrar ==
  /\ pendingRegistrar # None
  /\ now >= pendingRegistrarActivationTime
  /\ registrar' = pendingRegistrar
  /\ pendingRegistrar' = None
  /\ pendingRegistrarActivationTime' = 0
  /\ announced' = NoAnnouncement
  /\ UNCHANGED <<now, nameVars, legacy>>

-----------------------------------------------------------------------------
(* Writing names *)

\* _advanceOwnershipGeneration, by as many steps as the call takes.
AdvanceGeneration(n, steps) ==
  /\ generation[n] + steps <= MaxGeneration
  /\ generation' = [generation EXCEPT ![n] = @ + steps]

Write(n, r) == stored' = [stored EXCEPT ![n] = r]
Anchor(n) == migrated' = [migrated EXCEPT ![n] = TRUE]

\* The guard of _materializeLegacy; what it stores is Records(n), and it
\* advances the generation once when it stores anything.
Materializable(n) ==
  migrated[n] \/ (legacy[n].owner # None /\ legacy[n].expiry >= now)
MaterializeSteps(n) == IF migrated[n] THEN 0 ELSE 1

FutureExpiryUnbounded(e) == now < e

FutureExpiry(e) == now < e /\ e <= MaxExpiry

MigrateNameSameGeneration(sender, n) ==
  /\ ~migrated[n]
  /\ legacy[n].owner = sender
  /\ legacy[n].expiry >= now
  /\ LegacyOwnerOf(n) = sender
  /\ Write(n, TopLevelRecord(sender, legacy[n].resolver, legacy[n].expiry))
  /\ Anchor(n)
  /\ UNCHANGED <<now, generation, legacy, registrarVars>>

MigrateNameAnchoringFirst(sender, n) ==
  /\ ~migrated[n]
  /\ legacy[n].owner = sender
  /\ legacy[n].expiry >= now
  /\ LegacyOwnerOf(n) = sender
  /\ Write(n, TopLevelRecord(sender, stored[n].resolver, stored[n].expiry))
  /\ Anchor(n)
  /\ AdvanceGeneration(n, 1)
  /\ UNCHANGED <<now, legacy, registrarVars>>

\* The legacy owner anchors its own live name.
MigrateName(sender, n) ==
  /\ ~migrated[n]
  /\ legacy[n].owner = sender
  /\ legacy[n].expiry >= now
  /\ LegacyOwnerOf(n) = sender
  /\ Write(n, TopLevelRecord(sender, legacy[n].resolver, legacy[n].expiry))
  /\ Anchor(n)
  /\ AdvanceGeneration(n, 1)
  /\ UNCHANGED <<now, legacy, registrarVars>>

RegisterTopLevelBlindToLegacy(n, owner, e) ==
  /\ registrar # None
  /\ FutureExpiry(e)
  /\ migrated[n] => OwnerOf(n) = None
  /\ Write(n, TopLevelRecord(owner, None, e))
  /\ Anchor(n)
  /\ AdvanceGeneration(n, 1)
  /\ UNCHANGED <<now, legacy, registrarVars>>

RegisterTopLevel(n, owner, e) ==
  /\ registrar # None
  /\ FutureExpiry(e)
  /\ OwnerOf(n) = None
  /\ ~migrated[n] /\ legacy[n] # EmptyLegacyRecord => legacy[n].expiry < now
  /\ Write(n, TopLevelRecord(owner, None, e))
  /\ Anchor(n)
  /\ AdvanceGeneration(n, 1)
  /\ UNCHANGED <<now, legacy, registrarVars>>

RenewTopLevel(n, e) ==
  /\ registrar # None
  /\ Materializable(n)
  /\ ActiveTopLevel(n)
  /\ Records(n).expiry < e
  /\ e <= MaxExpiry
  /\ Write(n, [Records(n) EXCEPT !.expiry = e])
  /\ Anchor(n)
  /\ AdvanceGeneration(n, MaterializeSteps(n))
  /\ UNCHANGED <<now, legacy, registrarVars>>

RegisterSubdomainOverLapsed(n, parent, owner, e) ==
  /\ registrar # None
  /\ FutureExpiry(e)
  /\ ActiveTopLevel(parent)
  /\ e <= ExpiryOf(parent)
  /\ OwnerOf(n) = None
  /\ Write(n, SubdomainRecord(parent, owner, e))
  /\ Anchor(n)
  /\ AdvanceGeneration(n, 1)
  /\ UNCHANGED <<now, legacy, registrarVars>>

RegisterSubdomain(n, parent, owner, e) ==
  /\ registrar # None
  /\ FutureExpiry(e)
  /\ ActiveTopLevel(parent)
  /\ e <= ExpiryOf(parent)
  /\ stored[n].owner = None
  /\ Write(n, SubdomainRecord(parent, owner, e))
  /\ Anchor(n)
  /\ AdvanceGeneration(n, 1)
  /\ UNCHANGED <<now, legacy, registrarVars>>

RenewSubdomainPastParent(n, e) ==
  LET reactivating == stored[n].expiry < now IN
  /\ registrar # None
  /\ stored[n].kind = "Subdomain"
  /\ stored[n].owner # None
  /\ ActiveTopLevel(stored[n].parentNode)
  /\ FutureExpiry(e)
  /\ stored[n].expiry < e
  /\ Write(n, [stored[n] EXCEPT
                 !.expiry = e,
                 !.resolver = IF reactivating THEN None ELSE @])
  /\ AdvanceGeneration(n, IF reactivating THEN 1 ELSE 0)
  /\ UNCHANGED <<now, migrated, legacy, registrarVars>>

RenewSubdomainSameGeneration(n, e) ==
  /\ registrar # None
  /\ stored[n].kind = "Subdomain"
  /\ stored[n].owner # None
  /\ ActiveTopLevel(stored[n].parentNode)
  /\ FutureExpiry(e)
  /\ stored[n].expiry < e
  /\ e <= ExpiryOf(stored[n].parentNode)
  /\ Write(n, [stored[n] EXCEPT !.expiry = e])
  /\ UNCHANGED <<now, generation, migrated, legacy, registrarVars>>

\* Renewing a lapsed subdomain reactivates it: a new generation begins.
RenewSubdomain(n, e) ==
  LET reactivating == stored[n].expiry < now IN
  /\ registrar # None
  /\ stored[n].kind = "Subdomain"
  /\ stored[n].owner # None
  /\ ActiveTopLevel(stored[n].parentNode)
  /\ FutureExpiry(e)
  /\ stored[n].expiry < e
  /\ e <= ExpiryOf(stored[n].parentNode)
  /\ Write(n, [stored[n] EXCEPT
                 !.expiry = e,
                 !.resolver = IF reactivating THEN None ELSE @])
  /\ AdvanceGeneration(n, IF reactivating THEN 1 ELSE 0)
  /\ UNCHANGED <<now, migrated, legacy, registrarVars>>

\* Reassignment and recall; giving a label to its owner again returns early.
ReassignSubdomain(n, newOwner) ==
  /\ registrar # None
  /\ stored[n].kind = "Subdomain"
  /\ OwnerOf(n) # None
  /\ stored[n].owner # newOwner
  /\ Write(n, [stored[n] EXCEPT !.owner = newOwner, !.resolver = None])
  /\ AdvanceGeneration(n, 1)
  /\ UNCHANGED <<now, migrated, legacy, registrarVars>>

ReleaseSubdomain(n) ==
  /\ registrar # None
  /\ stored[n].kind = "Subdomain"
  /\ stored[n].owner # None
  /\ Write(n, EmptyRecord)
  /\ Anchor(n)
  /\ AdvanceGeneration(n, 1)
  /\ UNCHANGED <<now, legacy, registrarVars>>

\* A transfer to oneself still anchors a legacy name before it returns.
TransferName(sender, n, newOwner) ==
  LET moves == Records(n).owner # newOwner IN
  /\ sender # None
  /\ OwnerOf(n) = sender
  /\ Materializable(n)
  /\ Records(n).kind # "Subdomain"
  /\ moves \/ ~migrated[n]
  /\ Write(n, IF moves
              THEN [Records(n) EXCEPT !.owner = newOwner, !.resolver = None]
              ELSE Records(n))
  /\ Anchor(n)
  /\ AdvanceGeneration(n, MaterializeSteps(n) + (IF moves THEN 1 ELSE 0))
  /\ UNCHANGED <<now, legacy, registrarVars>>

SetResolver(sender, n, resolver) ==
  /\ sender # None
  /\ OwnerOf(n) = sender
  /\ Materializable(n)
  /\ Write(n, [Records(n) EXCEPT !.resolver = resolver])
  /\ Anchor(n)
  /\ AdvanceGeneration(n, MaterializeSteps(n))
  /\ UNCHANGED <<now, legacy, registrarVars>>

-----------------------------------------------------------------------------
(* Registry V2 keeps running beside V3 *)

\* Registers a lapsed or unknown name, or extends the name of its owner; the
\* resolver survives only in the second case.
LegacyRegister(n, owner, e) ==
  /\ now < e
  /\ LegacyOwnerOf(n) \in {None, owner}
  /\ LegacyOwnerOf(n) = owner => legacy[n].expiry <= e
  /\ legacy' = [legacy EXCEPT ![n] =
       [owner |-> owner,
        resolver |-> IF LegacyOwnerOf(n) = owner THEN @.resolver ELSE None,
        expiry |-> e]]
  /\ UNCHANGED <<now, nameVars, registrarVars>>

LegacyTransfer(sender, n, newOwner) ==
  /\ LegacyOwnerOf(n) = sender
  /\ newOwner # sender
  /\ legacy' = [legacy EXCEPT ![n] =
       [@ EXCEPT !.owner = newOwner, !.resolver = None]]
  /\ UNCHANGED <<now, nameVars, registrarVars>>

LegacySetResolver(sender, n, resolver) ==
  /\ LegacyOwnerOf(n) = sender
  /\ legacy' = [legacy EXCEPT ![n].resolver = resolver]
  /\ UNCHANGED <<now, nameVars, registrarVars>>

-----------------------------------------------------------------------------
Tick ==
  /\ ClockTick
  /\ UNCHANGED <<nameVars, legacy, registrarVars>>

Init ==
  /\ now = 0
  /\ stored = [n \in Nodes |-> EmptyRecord]
  /\ generation = [n \in Nodes |-> 0]
  /\ migrated = [n \in Nodes |-> FALSE]
  /\ legacy = LegacyAtStart
  /\ registrar = None
  /\ pendingRegistrar = None
  /\ pendingRegistrarActivationTime = 0
  /\ announced = NoAnnouncement

RegistrarChange ==
  \/ \E r \in Registrars : SetRegistrar(r)
  \/ \E r \in Successors : ProposeRegistrar(r)
  \/ CancelRegistrarChange
  \/ ActivateRegistrar

\* Calls open to the owner of a name.
OwnerCall ==
  \/ \E n \in TopNodes, a \in Accounts :
       \/ MigrateName(a, n)
       \/ \E b \in Accounts : TransferName(a, n, b)
  \/ \E n \in Nodes, a \in Accounts, r \in Resolvers \cup {None} :
       SetResolver(a, n, r)

\* Calls open to the registrar alone.
RegistrarCall ==
  \/ \E n \in TopNodes, e \in ExpiryInputs :
       \/ \E a \in Accounts : RegisterTopLevel(n, a, e)
       \/ RenewTopLevel(n, e)
  \/ \E n \in SubNodes :
       \/ \E a \in Accounts, e \in ExpiryInputs :
            RegisterSubdomain(n, ParentNode[n], a, e)
       \/ \E e \in ExpiryInputs : RenewSubdomain(n, e)
       \/ \E a \in Accounts : ReassignSubdomain(n, a)
       \/ ReleaseSubdomain(n)

LegacyStep ==
  \E n \in LegacyNodes :
    \/ \E a \in Accounts, e \in Expiries : LegacyRegister(n, a, e)
    \/ \E a, b \in Accounts : LegacyTransfer(a, n, b)
    \/ \E a \in Accounts, r \in Resolvers \cup {None} :
         LegacySetResolver(a, n, r)

Next ==
  \/ Tick
  \/ RegistrarChange
  \/ OwnerCall
  \/ RegistrarCall
  \/ LegacyStep

Spec == Init /\ [][Next]_registryVars

-----------------------------------------------------------------------------
(* Properties *)

\* Every variable holds values of its type.
TypeOK ==
  /\ now \in 0 .. MaxTime
  /\ stored \in [Nodes -> Record]
  /\ generation \in [Nodes -> 0 .. MaxGeneration]
  /\ migrated \in [Nodes -> BOOLEAN]
  /\ legacy \in [Nodes -> LegacyRecord]
  /\ registrar \in Registrars \cup {None}
  /\ pendingRegistrar \in Registrars \cup {None}
  /\ pendingRegistrarActivationTime \in 0 .. MaxTime + RegistrarChangeDelay
  /\ announced \in [who : Registrars \cup {None}, at : 0 .. MaxTime]

\* A subdomain hangs under a top-level name that is still registered or was,
\* and never expires after it, also when the parent is a name of Registry V2
\* that keeps changing there and when the parent lapsed and was sold again:
\* the checks of registerSubdomain and renewSubdomain are made only once, at
\* the time of the call.
ChildWithinParent ==
  \A n \in SubNodes :
    stored[n].owner # None =>
      /\ stored[n].kind = "Subdomain"
      /\ stored[n].parentNode = ParentNode[n]
      /\ Records(ParentNode[n]).kind = "TopLevel"
      /\ stored[n].expiry <= ExpiryOf(ParentNode[n])

\* A name that was imported or registered never has generation zero, and a
\* name still read from Registry V2 never has another: the resolver relies on
\* it to refuse records for names that are not anchored.
AnchoredHasGeneration ==
  \A n \in Nodes :
    /\ migrated[n] <=> generation[n] > 0
    /\ stored[n].owner # None => migrated[n]

\* Whoever comes to own an anchored name that was not theirs a moment before
\* finds a new generation: a name is never handed on, resold after a lapse,
\* or revived under the generation of an earlier ownership.
NewTenure ==
  \A n \in Nodes :
    /\ generation'[n] >= generation[n]
    /\ generation[n] > 0 /\ OwnerOf(n)' \notin {OwnerOf(n), None}
         => generation'[n] > generation[n]
NewTenureNewGeneration == [][NewTenure]_registryVars

\* A name in force leaves its owner's hands only by the owner's own transfer,
\* by the passage of time or, before it is anchored, by what happens in
\* Registry V2; the registrar's calls never take a top-level name away.
OwnerKeepsTopLevel ==
  [][\A n \in TopNodes, a \in Accounts :
       OwnerOf(n) = a /\ OwnerOf(n)' # a
         => \/ \E b \in Accounts : TransferName(a, n, b)
            \/ now' > now
            \/ ~migrated'[n] /\ legacy' # legacy]_registryVars

\* A lapsed subdomain stays with the account that held it, reserved, until it
\* is renewed for that account or released: nobody else can be given it.
LapsedLabelReserved ==
  [][\A n \in SubNodes :
       stored[n].owner # None /\ OwnerOf(n) = None
         => stored'[n].owner \in {stored[n].owner, None}]_registryVars

\* An appointed registrar is replaced only by the one named in the proposal in
\* force, and only once that proposal has been public for the whole delay.
RegistrarChangeAnnounced ==
  [][registrar # None /\ registrar' # registrar
       => /\ registrar' = announced.who
          /\ announced.at + RegistrarChangeDelay <= now]_registryVars
=============================================================================
