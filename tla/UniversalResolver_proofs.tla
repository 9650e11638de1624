----------------------- MODULE UniversalResolver_proofs -----------------------
(***************************************************************************)
(* Theorems about the registry and about the resolver that reads it, for   *)
(* any number of names, accounts, chains and keys and for every bound.     *)
(*                                                                         *)
(* The registry: its types; that no subdomain outlives its parent; that a  *)
(* new tenure of a name starts a new generation; that no sale takes a name *)
(* from its owner, or a lapsed label from who it is reserved for; and that *)
(* a change of registrar is announced for the whole delay.                 *)
(*                                                                         *)
(* The resolver: what the contract stores of an ownership is an owner and  *)
(* a generation; what the stamps are meant to tell is whether that         *)
(* ownership has lasted.  Both agree (Tells) because of what the registry  *)
(* guarantees about generations: a new tenure has a new one, and a tenure  *)
(* keeps its own.                                                          *)
(***************************************************************************)
EXTENDS UniversalResolver, TLAPS

USE DEF Nodes, Expiries

-----------------------------------------------------------------------------
(* Types *)

\* What V3 shows of a name, stored or read through Registry V2, is a record.
LEMMA RecordsType ==
  ASSUME TypeOK, NEW n \in Nodes
  PROVE  Records(n) \in Record
BY DEF TypeOK, Records, Record, LegacyRecord

\* The three effects every write to a name is made of.
LEMMA WriteType ==
  ASSUME TypeOK, NEW n \in Nodes, NEW r \in Record, Write(n, r)
  PROVE  stored' \in [Nodes -> Record]
BY DEF TypeOK, Write

\* Anchoring a name keeps the type of anchored.
LEMMA AnchorType ==
  ASSUME TypeOK, NEW n \in Nodes, Anchor(n)
  PROVE  migrated' \in [Nodes -> BOOLEAN]
BY DEF TypeOK, Anchor

\* Advancing a generation within its bound keeps the type of generations.
LEMMA GenerationType ==
  ASSUME TypeOK, NEW n \in Nodes, NEW steps \in Nat,
         AdvanceGeneration(n, steps)
  PROVE  generation' \in [Nodes -> 0 .. MaxGeneration]
BY BoundsAssumption, TimeAssumption DEF TypeOK, AdvanceGeneration

\* What is left of TypeOK' when a step writes one name and nothing else.
LEMMA NameStepType ==
  ASSUME TypeOK, NEW n \in Nodes, NEW r \in Record,
         Write(n, r), Anchor(n) \/ UNCHANGED migrated,
         NEW steps \in Nat, AdvanceGeneration(n, steps),
         UNCHANGED <<now, legacy, registrarVars>>
  PROVE  TypeOK'
<1>1. stored' \in [Nodes -> Record]
  BY WriteType
<1>2. migrated' \in [Nodes -> BOOLEAN]
  BY AnchorType DEF TypeOK
<1>3. generation' \in [Nodes -> 0 .. MaxGeneration]
  BY GenerationType
<1> QED
  BY <1>1, <1>2, <1>3 DEF TypeOK, registrarVars

\* The deployed registry is well typed.
LEMMA InitType == Init => TypeOK
BY BoundsAssumption, TimeAssumption, NoneAssumption, NodesAssumption, LegacyAssumption
DEF Init, TypeOK, Record, EmptyRecord, NoAnnouncement

\* Appointing, proposing, cancelling and activating a registrar keep the types.
LEMMA RegistrarChangeType ==
  ASSUME TypeOK, RegistrarChange
  PROVE  TypeOK'
<1>1. ASSUME NEW r \in Registrars, SetRegistrar(r)
      PROVE  TypeOK'
  BY <1>1 DEF SetRegistrar, TypeOK, nameVars
<1>2. ASSUME NEW r \in Successors, ProposeRegistrar(r)
      PROVE  TypeOK'
  BY <1>2, BoundsAssumption, TimeAssumption, RegistrarsAssumption
  DEF ProposeRegistrar, TypeOK, nameVars
<1>3. ASSUME CancelRegistrarChange
      PROVE  TypeOK'
  BY <1>3, BoundsAssumption, TimeAssumption
  DEF CancelRegistrarChange, TypeOK, nameVars, NoAnnouncement
<1>4. ASSUME ActivateRegistrar
      PROVE  TypeOK'
  BY <1>4, BoundsAssumption, TimeAssumption
  DEF ActivateRegistrar, TypeOK, nameVars, NoAnnouncement
<1> QED
  BY <1>1, <1>2, <1>3, <1>4 DEF RegistrarChange

\* The calls of name owners keep the types.
LEMMA OwnerCallType ==
  ASSUME TypeOK, OwnerCall
  PROVE  TypeOK'
<1>1. ASSUME NEW n \in TopNodes, NEW a \in Accounts, MigrateName(a, n)
      PROVE  TypeOK'
  <2>1. TopLevelRecord(a, legacy[n].resolver, legacy[n].expiry) \in Record
    BY DEF TypeOK, TopLevelRecord, Record, LegacyRecord
  <2> QED
    BY <1>1, <2>1, NameStepType DEF MigrateName
<1>2. ASSUME NEW n \in TopNodes, NEW a \in Accounts, NEW b \in Accounts,
             TransferName(a, n, b)
      PROVE  TypeOK'
  <2>1. /\ Records(n) \in Record
        /\ [Records(n) EXCEPT !.owner = b, !.resolver = None] \in Record
    BY RecordsType DEF Record
  <2> QED
    BY <1>2, <2>1, NameStepType DEF TransferName, MaterializeSteps
<1>3. ASSUME NEW n \in Nodes, NEW a \in Accounts,
             NEW r \in Resolvers \cup {None}, SetResolver(a, n, r)
      PROVE  TypeOK'
  <2>1. [Records(n) EXCEPT !.resolver = r] \in Record
    BY RecordsType DEF Record
  <2> QED
    BY <1>3, <2>1, NameStepType DEF SetResolver, MaterializeSteps
<1> QED
  BY <1>1, <1>2, <1>3 DEF OwnerCall

\* The calls of the registrar keep the types: every expiry passed checkedExpiry.
LEMMA RegistrarCallType ==
  ASSUME TypeOK, RegistrarCall
  PROVE  TypeOK'
<1> USE BoundsAssumption, TimeAssumption DEF ExpiryInputs
<1>1. ASSUME NEW n \in TopNodes, NEW e \in ExpiryInputs, NEW a \in Accounts,
             RegisterTopLevel(n, a, e)
      PROVE  TypeOK'
  <2>1. TopLevelRecord(a, None, e) \in Record
    BY <1>1 DEF RegisterTopLevel, FutureExpiry, TopLevelRecord, Record
  <2> QED
    BY <1>1, <2>1, NameStepType DEF RegisterTopLevel
<1>2. ASSUME NEW n \in TopNodes, NEW e \in ExpiryInputs, RenewTopLevel(n, e)
      PROVE  TypeOK'
  <2>1. e \in Expiries /\ [Records(n) EXCEPT !.expiry = e] \in Record
    BY <1>2, RecordsType DEF RenewTopLevel, Record
  <2> QED
    BY <1>2, <2>1, NameStepType DEF RenewTopLevel, MaterializeSteps
<1>3. ASSUME NEW n \in SubNodes, NEW e \in ExpiryInputs, NEW a \in Accounts,
             RegisterSubdomain(n, ParentNode[n], a, e)
      PROVE  TypeOK'
  <2>1. SubdomainRecord(ParentNode[n], a, e) \in Record
    BY <1>3, NodesAssumption
    DEF RegisterSubdomain, FutureExpiry, SubdomainRecord, Record
  <2> QED
    BY <1>3, <2>1, NameStepType DEF RegisterSubdomain
<1>4. ASSUME NEW n \in SubNodes, NEW e \in ExpiryInputs, RenewSubdomain(n, e)
      PROVE  TypeOK'
  <2> DEFINE reactivating == stored[n].expiry < now
             r == [stored[n] EXCEPT
                     !.expiry = e,
                     !.resolver = IF reactivating THEN None ELSE @]
             steps == IF reactivating THEN 1 ELSE 0
  <2>a. stored[n] \in Record /\ e \in Expiries
    BY <1>4 DEF RenewSubdomain, FutureExpiry, TypeOK
  <2>b. ASSUME reactivating PROVE r \in Record /\ steps \in Nat
    BY <2>a, <2>b DEF Record
  <2>c. ASSUME ~reactivating PROVE r \in Record /\ steps \in Nat
    BY <2>a, <2>c DEF Record
  <2>1. r \in Record /\ steps \in Nat
    BY <2>b, <2>c
  <2>2. Write(n, r) /\ AdvanceGeneration(n, steps)
    BY <1>4 DEF RenewSubdomain
  <2> HIDE DEF r, steps
  <2> QED
    BY <1>4, <2>1, <2>2, NameStepType DEF RenewSubdomain
<1>5. ASSUME NEW n \in SubNodes, NEW a \in Accounts, ReassignSubdomain(n, a)
      PROVE  TypeOK'
  <2>1. [stored[n] EXCEPT !.owner = a, !.resolver = None] \in Record
    BY DEF TypeOK, Record
  <2> QED
    BY <1>5, <2>1, NameStepType DEF ReassignSubdomain
<1>6. ASSUME NEW n \in SubNodes, ReleaseSubdomain(n)
      PROVE  TypeOK'
  <2>1. EmptyRecord \in Record
    BY DEF EmptyRecord, Record
  <2> QED
    BY <1>6, <2>1, NameStepType DEF ReleaseSubdomain
<1> QED
  BY <1>1, <1>2, <1>3, <1>4, <1>5, <1>6 DEF RegistrarCall

\* Whatever Registry V2 does keeps the types.
LEMMA LegacyStepType ==
  ASSUME TypeOK, LegacyStep
  PROVE  TypeOK'
<1> USE NodesAssumption
<1>1. ASSUME NEW n \in LegacyNodes, NEW a \in Accounts, NEW e \in Expiries,
             LegacyRegister(n, a, e)
      PROVE  TypeOK'
  BY <1>1 DEF LegacyRegister, TypeOK, LegacyRecord, nameVars, registrarVars
<1>2. ASSUME NEW n \in LegacyNodes, NEW a \in Accounts, NEW b \in Accounts,
             LegacyTransfer(a, n, b)
      PROVE  TypeOK'
  BY <1>2 DEF LegacyTransfer, TypeOK, LegacyRecord, nameVars, registrarVars
<1>3. ASSUME NEW n \in LegacyNodes, NEW a \in Accounts,
             NEW r \in Resolvers \cup {None}, LegacySetResolver(a, n, r)
      PROVE  TypeOK'
  BY <1>3 DEF LegacySetResolver, TypeOK, LegacyRecord, nameVars, registrarVars
<1> QED
  BY <1>1, <1>2, <1>3 DEF LegacyStep

\* Time stays within its bound.
LEMMA TickType ==
  ASSUME TypeOK, Tick
  PROVE  TypeOK'
BY BoundsAssumption, TimeAssumption DEF Tick, ClockTick, TypeOK, nameVars, registrarVars

\* TypeOK is inductive.
LEMMA NextType == TypeOK /\ [Next]_registryVars => TypeOK'
<1>1. TypeOK /\ UNCHANGED registryVars => TypeOK'
  BY DEF TypeOK, registryVars
<1> QED
  BY <1>1, TickType, RegistrarChangeType, OwnerCallType, RegistrarCallType,
     LegacyStepType DEF Next

\* Every reachable state of the registry is well typed; in particular no
\* stored expiry is ever outside uint64, whatever uint256 the registrar passes.
THEOREM TypeCorrect == Spec => []TypeOK
BY InitType, NextType, PTL DEF Spec

-----------------------------------------------------------------------------
(* No subdomain outlives its parent *)

\* ChildWithinParent is not inductive by itself: that a parent never shrinks
\* needs to know that an anchored top-level name is never empty, and that a
\* name unknown to Registry V2 has no expiry there.
TopShape ==
  \A n \in TopNodes :
    migrated[n] => stored[n].kind = "TopLevel" /\ stored[n].owner # None

LegacyShape ==
  /\ \A n \in Nodes : legacy[n].owner = None => legacy[n].expiry = 0
  /\ \A n \in SubNodes : legacy[n].owner = None

NamesInv == ChildWithinParent /\ TopShape /\ LegacyShape

\* A step that anchors a top-level name with no earlier expiry.
LEMMA TopWriteKeepsNames ==
  ASSUME TypeOK, NamesInv, NEW n \in TopNodes, NEW r \in Record,
         Write(n, r), Anchor(n), UNCHANGED legacy,
         r.kind = "TopLevel", r.owner # None,
         Records(n).kind = "TopLevel" => Records(n).expiry <= r.expiry
  PROVE  NamesInv'
<1>1. /\ stored' = [stored EXCEPT ![n] = r]
      /\ migrated' = [migrated EXCEPT ![n] = TRUE]
  BY DEF Write, Anchor
<1>2. stored'[n] = r /\ migrated'[n] /\ Records(n)' = r
  BY <1>1 DEF TypeOK, Records
<1>3. \A m \in Nodes \ {n} :
        /\ stored'[m] = stored[m]
        /\ migrated'[m] = migrated[m]
        /\ Records(m)' = Records(m)
  BY <1>1 DEF TypeOK, Records
<1>4. TopShape'
  BY <1>2, <1>3 DEF TopShape, NamesInv
<1>5. LegacyShape'
  BY DEF LegacyShape, NamesInv
<1>6. ASSUME NEW c \in SubNodes, stored'[c].owner # None
      PROVE  /\ stored'[c].kind = "Subdomain"
             /\ stored'[c].parentNode = ParentNode[c]
             /\ Records(ParentNode[c])'.kind = "TopLevel"
             /\ stored'[c].expiry <= ExpiryOf(ParentNode[c])'
  <2>1. c # n /\ ParentNode[c] \in TopNodes
    BY NodesAssumption
  <2>2. /\ stored'[c] = stored[c]
        /\ stored[c].kind = "Subdomain"
        /\ stored[c].parentNode = ParentNode[c]
        /\ Records(ParentNode[c]).kind = "TopLevel"
        /\ stored[c].expiry <= Records(ParentNode[c]).expiry
    BY <1>3, <1>6, <2>1 DEF NamesInv, ChildWithinParent, ExpiryOf
  <2>3. CASE ParentNode[c] # n
    BY <1>3, <2>1, <2>2, <2>3 DEF ExpiryOf
  <2>4. CASE ParentNode[c] = n
    <3>1. Records(n) \in Record /\ stored[c] \in Record
      BY RecordsType DEF TypeOK
    <3>2. stored[c].expiry <= r.expiry
      BY <2>2, <2>4, <3>1, BoundsAssumption, TimeAssumption DEF Record
    <3> QED
      BY <1>2, <2>2, <2>4, <3>2 DEF ExpiryOf
  <2> QED
    BY <2>3, <2>4
<1> QED
  BY <1>4, <1>5, <1>6 DEF NamesInv, ChildWithinParent

\* A step that writes a subdomain within its parent's term, or empties it.
LEMMA SubWriteKeepsNames ==
  ASSUME TypeOK, NamesInv, NEW n \in SubNodes, NEW r \in Record,
         Write(n, r), Anchor(n) \/ UNCHANGED migrated, UNCHANGED legacy,
         r.owner # None =>
           /\ r.kind = "Subdomain"
           /\ r.parentNode = ParentNode[n]
           /\ Records(ParentNode[n]).kind = "TopLevel"
           /\ r.expiry <= ExpiryOf(ParentNode[n])
  PROVE  NamesInv'
<1>1. stored' = [stored EXCEPT ![n] = r]
  BY DEF Write
<1>2. \A m \in Nodes \ {n} :
        /\ stored'[m] = stored[m]
        /\ migrated'[m] = migrated[m]
        /\ Records(m)' = Records(m)
  BY <1>1 DEF TypeOK, Records, Anchor
<1>3. stored'[n] = r
  BY <1>1 DEF TypeOK
<1>4. TopShape'
  BY <1>2, NodesAssumption DEF TopShape, NamesInv
<1>5. LegacyShape'
  BY DEF LegacyShape, NamesInv
<1>6. \A c \in SubNodes :
        /\ ParentNode[c] \in Nodes \ {n}
        /\ Records(ParentNode[c])' = Records(ParentNode[c])
  BY <1>2, NodesAssumption
<1>7. ChildWithinParent'
  BY <1>2, <1>3, <1>6 DEF ChildWithinParent, NamesInv, ExpiryOf
<1> QED
  BY <1>4, <1>5, <1>7 DEF NamesInv

\* A step of Registry V2 that does not shorten the term of a name.
LEMMA LegacyWriteKeepsNames ==
  ASSUME TypeOK, NamesInv, NEW n \in LegacyNodes, NEW l \in LegacyRecord,
         legacy' = [legacy EXCEPT ![n] = l], UNCHANGED nameVars,
         l.owner # None, legacy[n].expiry <= l.expiry
  PROVE  NamesInv'
<1> USE NodesAssumption DEF nameVars
<1>1. legacy'[n] = l /\ \A m \in Nodes \ {n} : legacy'[m] = legacy[m]
  BY DEF TypeOK
<1>2. \A p \in TopNodes :
        Records(p).kind = "TopLevel" =>
          /\ Records(p)'.kind = "TopLevel"
          /\ ExpiryOf(p) <= ExpiryOf(p)'
  <2> SUFFICES ASSUME NEW p \in TopNodes, Records(p).kind = "TopLevel"
               PROVE  /\ Records(p)'.kind = "TopLevel"
                      /\ ExpiryOf(p) <= ExpiryOf(p)'
    OBVIOUS
  <2>1. stored[p] \in Record /\ legacy[p] \in LegacyRecord
    BY DEF TypeOK
  <2>2. CASE migrated[p] \/ p # n
    <3>1. Records(p)' = Records(p)
      BY <1>1, <2>2 DEF Records
    <3>2. Records(p).expiry \in Nat
      BY RecordsType, BoundsAssumption, TimeAssumption DEF Record
    <3> QED
      BY <3>1, <3>2 DEF ExpiryOf
  <2>3. CASE ~migrated[p] /\ p = n
    BY <1>1, <2>1, <2>3, BoundsAssumption, TimeAssumption DEF Records, ExpiryOf
  <2> QED
    BY <2>2, <2>3
<1>3. TopShape'
  BY DEF TopShape, NamesInv
<1>4. LegacyShape'
  BY <1>1 DEF LegacyShape, NamesInv
<1>5. ASSUME NEW c \in SubNodes, stored'[c].owner # None
      PROVE  /\ stored'[c].kind = "Subdomain"
             /\ stored'[c].parentNode = ParentNode[c]
             /\ Records(ParentNode[c])'.kind = "TopLevel"
             /\ stored'[c].expiry <= ExpiryOf(ParentNode[c])'
  <2>1. /\ stored[c].kind = "Subdomain"
        /\ stored[c].parentNode = ParentNode[c]
        /\ Records(ParentNode[c]).kind = "TopLevel"
        /\ stored[c].expiry <= ExpiryOf(ParentNode[c])
        /\ ParentNode[c] \in TopNodes
    BY <1>5 DEF NamesInv, ChildWithinParent
  <2>2. /\ stored[c].expiry \in Nat
        /\ ExpiryOf(ParentNode[c]) \in Nat
        /\ ExpiryOf(ParentNode[c])' \in Nat
    <3>1. Records(ParentNode[c])'.expiry \in Nat
      BY <1>1, <2>1, BoundsAssumption, TimeAssumption DEF TypeOK, Records, Record, LegacyRecord
    <3> QED
      BY <2>1, <3>1, RecordsType, BoundsAssumption, TimeAssumption DEF TypeOK, Record, ExpiryOf
  <2> QED
    BY <1>2, <2>1, <2>2
<1> QED
  BY <1>3, <1>4, <1>5 DEF NamesInv, ChildWithinParent

\* Nothing is anchored at first, so no subdomain is registered.
LEMMA InitNames == Init => NamesInv
BY NoneAssumption, NodesAssumption, LegacyAssumption
DEF Init, NamesInv, ChildWithinParent, TopShape, LegacyShape, EmptyRecord,
    EmptyLegacyRecord

\* A name whose owner is known has a record with that owner; and only an
\* anchored subdomain has one.
LEMMA OwnedRecord ==
  ASSUME TypeOK, NamesInv, NEW n \in Nodes, OwnerOf(n) # None
  PROVE  /\ Records(n).owner = OwnerOf(n)
         /\ Records(n).expiry >= now
         /\ n \in SubNodes => migrated[n] /\ Records(n) = stored[n]
         /\ n \in TopNodes => Records(n).kind = "TopLevel"
<1>1. Records(n).owner = OwnerOf(n) /\ Records(n).owner # None
      /\ Records(n).expiry >= now
  BY DEF OwnerOf
<1>2. ASSUME n \in SubNodes PROVE migrated[n] /\ Records(n) = stored[n]
  BY <1>1, <1>2 DEF Records, NamesInv, LegacyShape
<1>3. ASSUME n \in TopNodes PROVE Records(n).kind = "TopLevel"
  BY <1>1, <1>3 DEF Records, NamesInv, TopShape
<1> QED
  BY <1>1, <1>2, <1>3

\* The calls of name owners keep NamesInv: they leave every expiry alone.
LEMMA OwnerCallNames ==
  ASSUME TypeOK, NamesInv, OwnerCall
  PROVE  NamesInv'
<1>1. ASSUME NEW n \in TopNodes, NEW a \in Accounts, MigrateName(a, n)
      PROVE  NamesInv'
  <2> DEFINE r == TopLevelRecord(a, legacy[n].resolver, legacy[n].expiry)
  <2>1. r \in Record /\ r.kind = "TopLevel" /\ r.owner # None
    BY NoneAssumption DEF TypeOK, TopLevelRecord, Record, LegacyRecord
  <2>2. Records(n).expiry <= r.expiry
    <3>1. Records(n).expiry = r.expiry
      BY <1>1 DEF MigrateName, Records, TopLevelRecord
    <3> QED
      BY <2>1, <3>1, BoundsAssumption, TimeAssumption DEF Record
  <2>3. Write(n, r) /\ Anchor(n) /\ UNCHANGED legacy
    BY <1>1 DEF MigrateName
  <2> HIDE DEF r
  <2> QED
    BY <2>1, <2>2, <2>3, TopWriteKeepsNames
<1>2. ASSUME NEW n \in TopNodes, NEW a \in Accounts, NEW b \in Accounts,
             TransferName(a, n, b)
      PROVE  NamesInv'
  <2> DEFINE r == IF Records(n).owner # b
                  THEN [Records(n) EXCEPT !.owner = b, !.resolver = None]
                  ELSE Records(n)
  <2>1. /\ Records(n) \in Record
        /\ Records(n).kind = "TopLevel"
        /\ Records(n).owner # None
    BY <1>2, RecordsType, OwnedRecord DEF TransferName
  <2>2. /\ r \in Record
        /\ r.kind = "TopLevel"
        /\ r.owner # None
        /\ Records(n).expiry <= r.expiry
    <3>1. CASE Records(n).owner # b
      <4> DEFINE q == [Records(n) EXCEPT !.owner = b, !.resolver = None]
      <4>1. r = q
        BY <3>1
      <4>a. q \in Record
        BY RecordsType DEF Record
      <4>b. q.kind = Records(n).kind /\ q.owner = b
            /\ q.expiry = Records(n).expiry
        BY RecordsType DEF Record
      <4> HIDE DEF r, q
      <4>2. q.expiry \in Nat
        BY <4>a, BoundsAssumption, TimeAssumption DEF Record
      <4> QED
        BY <2>1, <4>1, <4>a, <4>b, <4>2, NoneAssumption
    <3>2. CASE Records(n).owner = b
      BY <2>1, <3>2, BoundsAssumption, TimeAssumption DEF Record
    <3> QED
      BY <3>1, <3>2
  <2>3. Write(n, r) /\ Anchor(n) /\ UNCHANGED legacy
    BY <1>2 DEF TransferName
  <2> HIDE DEF r
  <2> QED
    BY <2>2, <2>3, TopWriteKeepsNames
<1>3. ASSUME NEW n \in Nodes, NEW a \in Accounts,
             NEW x \in Resolvers \cup {None}, SetResolver(a, n, x)
      PROVE  NamesInv'
  <2> DEFINE r == [Records(n) EXCEPT !.resolver = x]
  <2>1. /\ Records(n) \in Record
        /\ Records(n).owner # None
        /\ n \in SubNodes => Records(n) = stored[n]
        /\ n \in TopNodes => Records(n).kind = "TopLevel"
    BY <1>3, RecordsType, OwnedRecord DEF SetResolver
  <2>2. /\ r \in Record
        /\ r.owner = Records(n).owner
        /\ r.expiry = Records(n).expiry
        /\ r.kind = Records(n).kind
        /\ r.parentNode = Records(n).parentNode
        /\ Records(n).expiry <= r.expiry
    BY <2>1, BoundsAssumption, TimeAssumption DEF Record
  <2>3. Write(n, r) /\ Anchor(n) /\ UNCHANGED legacy
    BY <1>3 DEF SetResolver
  <2> HIDE DEF r
  <2>4. CASE n \in TopNodes
    BY <2>1, <2>2, <2>3, <2>4, TopWriteKeepsNames
  <2>5. CASE n \in SubNodes
    BY <2>1, <2>2, <2>3, <2>5, SubWriteKeepsNames
    DEF NamesInv, ChildWithinParent
  <2> QED
    BY <2>4, <2>5
<1> QED
  BY <1>1, <1>2, <1>3 DEF OwnerCall

\* The calls of the registrar keep NamesInv: a parent is only extended, a child
\* only placed within its parent.
LEMMA RegistrarCallNames ==
  ASSUME TypeOK, NamesInv, RegistrarCall
  PROVE  NamesInv'
<1> USE BoundsAssumption, TimeAssumption, NoneAssumption DEF ExpiryInputs
<1>1. ASSUME NEW n \in TopNodes, NEW e \in ExpiryInputs, NEW a \in Accounts,
             RegisterTopLevel(n, a, e)
      PROVE  NamesInv'
  <2> DEFINE r == TopLevelRecord(a, None, e)
  <2>1. r \in Record /\ r.kind = "TopLevel" /\ r.owner # None /\ r.expiry = e
    BY <1>1 DEF RegisterTopLevel, FutureExpiry, TopLevelRecord, Record
  <2>2. /\ now \in Nat /\ now < e
        /\ Records(n) \in Record /\ legacy[n] \in LegacyRecord
    BY <1>1, RecordsType DEF RegisterTopLevel, FutureExpiry, TypeOK
  <2>3. ASSUME Records(n).kind = "TopLevel"
        PROVE  Records(n).expiry <= r.expiry
    <3>1. CASE migrated[n]
      <4>1. Records(n).owner # None /\ OwnerOf(n) = None
        BY <1>1, <3>1 DEF Records, NamesInv, TopShape, RegisterTopLevel
      <4>2. Records(n).expiry < now
        BY <2>2, <2>3, <4>1 DEF OwnerOf, TypeOK, Record
      <4> QED
        BY <2>1, <2>2, <4>2 DEF Record
    <3>2. CASE ~migrated[n]
      <4>1. Records(n).expiry = legacy[n].expiry
        BY <3>2 DEF Records
      <4>2. legacy[n].expiry < now \/ legacy[n] = EmptyLegacyRecord
        BY <1>1, <3>2 DEF RegisterTopLevel
      <4> QED
        BY <2>1, <2>2, <4>1, <4>2 DEF EmptyLegacyRecord, LegacyRecord
    <3> QED
      BY <3>1, <3>2
  <2>4. Write(n, r) /\ Anchor(n) /\ UNCHANGED legacy
    BY <1>1 DEF RegisterTopLevel
  <2> HIDE DEF r
  <2> QED
    BY <2>1, <2>3, <2>4, TopWriteKeepsNames
<1>2. ASSUME NEW n \in TopNodes, NEW e \in ExpiryInputs, RenewTopLevel(n, e)
      PROVE  NamesInv'
  <2> DEFINE r == [Records(n) EXCEPT !.expiry = e]
  <2>1. Records(n) \in Record /\ e \in Expiries
    BY <1>2, RecordsType DEF RenewTopLevel
  <2>2. /\ r \in Record
        /\ r.kind = "TopLevel"
        /\ r.owner # None
        /\ Records(n).expiry <= r.expiry
    BY <1>2, <2>1 DEF RenewTopLevel, ActiveTopLevel, Record
  <2>3. Write(n, r) /\ Anchor(n) /\ UNCHANGED legacy
    BY <1>2 DEF RenewTopLevel
  <2> HIDE DEF r
  <2> QED
    BY <2>2, <2>3, TopWriteKeepsNames
<1>3. ASSUME NEW n \in SubNodes, NEW e \in ExpiryInputs, NEW a \in Accounts,
             RegisterSubdomain(n, ParentNode[n], a, e)
      PROVE  NamesInv'
  <2> DEFINE r == SubdomainRecord(ParentNode[n], a, e)
  <2>1. /\ r \in Record
        /\ r.kind = "Subdomain"
        /\ r.parentNode = ParentNode[n]
        /\ Records(ParentNode[n]).kind = "TopLevel"
        /\ r.expiry <= ExpiryOf(ParentNode[n])
    BY <1>3, NodesAssumption
    DEF RegisterSubdomain, FutureExpiry, SubdomainRecord, Record, ActiveTopLevel
  <2>2. Write(n, r) /\ Anchor(n) /\ UNCHANGED legacy
    BY <1>3 DEF RegisterSubdomain
  <2> HIDE DEF r
  <2> QED
    BY <2>1, <2>2, SubWriteKeepsNames
<1>4. ASSUME NEW n \in SubNodes, NEW e \in ExpiryInputs, RenewSubdomain(n, e)
      PROVE  NamesInv'
  <2> DEFINE reactivating == stored[n].expiry < now
             r == [stored[n] EXCEPT
                     !.expiry = e,
                     !.resolver = IF reactivating THEN None ELSE @]
  <2>1. /\ stored[n] \in Record /\ e \in Expiries
        /\ stored[n].kind = "Subdomain"
        /\ stored[n].parentNode = ParentNode[n]
        /\ Records(ParentNode[n]).kind = "TopLevel"
        /\ e <= ExpiryOf(ParentNode[n])
    BY <1>4
    DEF RenewSubdomain, FutureExpiry, TypeOK, NamesInv, ChildWithinParent
  <2>a. ASSUME reactivating
        PROVE  r \in Record /\ r.expiry = e /\ r.kind = stored[n].kind
               /\ r.parentNode = stored[n].parentNode
    BY <2>1, <2>a DEF Record
  <2>b. ASSUME ~reactivating
        PROVE  r \in Record /\ r.expiry = e /\ r.kind = stored[n].kind
               /\ r.parentNode = stored[n].parentNode
    BY <2>1, <2>b DEF Record
  <2>2. r \in Record /\ r.expiry = e /\ r.kind = stored[n].kind
        /\ r.parentNode = stored[n].parentNode
    BY <2>a, <2>b
  <2>3. Write(n, r) /\ UNCHANGED <<migrated, legacy>>
    BY <1>4 DEF RenewSubdomain
  <2> HIDE DEF r
  <2> QED
    BY <2>1, <2>2, <2>3, SubWriteKeepsNames
<1>5. ASSUME NEW n \in SubNodes, NEW a \in Accounts, ReassignSubdomain(n, a)
      PROVE  NamesInv'
  <2> DEFINE r == [stored[n] EXCEPT !.owner = a, !.resolver = None]
  <2>1. stored[n] \in Record /\ stored[n].owner # None
    BY <1>5, OwnedRecord DEF TypeOK, ReassignSubdomain
  <2>2. /\ r \in Record
        /\ r.kind = stored[n].kind
        /\ r.parentNode = stored[n].parentNode
        /\ r.expiry = stored[n].expiry
    BY <2>1 DEF Record
  <2>3. Write(n, r) /\ UNCHANGED <<migrated, legacy>>
    BY <1>5 DEF ReassignSubdomain
  <2> HIDE DEF r
  <2> QED
    BY <2>1, <2>2, <2>3, SubWriteKeepsNames DEF NamesInv, ChildWithinParent
<1>6. ASSUME NEW n \in SubNodes, ReleaseSubdomain(n)
      PROVE  NamesInv'
  <2>1. EmptyRecord \in Record /\ EmptyRecord.owner = None
    BY DEF EmptyRecord, Record
  <2> QED
    BY <1>6, <2>1, SubWriteKeepsNames DEF ReleaseSubdomain
<1> QED
  BY <1>1, <1>2, <1>3, <1>4, <1>5, <1>6 DEF RegistrarCall

\* A change in Registry V2 keeps NamesInv: it never shortens a term.
LEMMA LegacyStepNames ==
  ASSUME TypeOK, NamesInv, LegacyStep
  PROVE  NamesInv'
<1> USE NodesAssumption, NoneAssumption, BoundsAssumption, TimeAssumption
<1>1. ASSUME NEW n \in LegacyNodes, NEW a \in Accounts, NEW e \in Expiries,
             LegacyRegister(n, a, e)
      PROVE  NamesInv'
  <2> DEFINE l == [owner |-> a,
                   resolver |-> IF LegacyOwnerOf(n) = a
                                THEN legacy[n].resolver ELSE None,
                   expiry |-> e]
  <2>1. legacy[n] \in LegacyRecord /\ now \in Nat /\ n \in Nodes
    BY DEF TypeOK
  <2>2. l \in LegacyRecord /\ l.owner # None
    BY <2>1 DEF LegacyRecord
  <2>3. legacy[n].expiry <= l.expiry
    BY <1>1, <2>1
    DEF LegacyRegister, LegacyOwnerOf, NamesInv, LegacyShape, LegacyRecord
  <2>4. legacy' = [legacy EXCEPT ![n] = l] /\ UNCHANGED nameVars
    BY <1>1 DEF LegacyRegister
  <2> HIDE DEF l
  <2> QED
    BY <2>2, <2>3, <2>4, LegacyWriteKeepsNames
<1>2. ASSUME NEW n \in LegacyNodes, NEW a \in Accounts, NEW b \in Accounts,
             LegacyTransfer(a, n, b)
      PROVE  NamesInv'
  <2> DEFINE l == [legacy[n] EXCEPT !.owner = b, !.resolver = None]
  <2>1. legacy[n] \in LegacyRecord /\ n \in Nodes
    BY DEF TypeOK
  <2>2. l \in LegacyRecord /\ l.owner # None /\ legacy[n].expiry <= l.expiry
    <3>1. l \in LegacyRecord /\ l.owner = b /\ l.expiry = legacy[n].expiry
      BY <2>1 DEF LegacyRecord
    <3>2. legacy[n].expiry \in Nat
      BY <2>1 DEF LegacyRecord
    <3> QED
      BY <3>1, <3>2
  <2>3. legacy' = [legacy EXCEPT ![n] = l] /\ UNCHANGED nameVars
    BY <1>2 DEF LegacyTransfer
  <2> HIDE DEF l
  <2> QED
    BY <2>2, <2>3, LegacyWriteKeepsNames
<1>3. ASSUME NEW n \in LegacyNodes, NEW a \in Accounts,
             NEW r \in Resolvers \cup {None}, LegacySetResolver(a, n, r)
      PROVE  NamesInv'
  <2> DEFINE l == [legacy[n] EXCEPT !.resolver = r]
  <2>1. legacy[n] \in LegacyRecord /\ n \in Nodes /\ now \in Nat
    BY DEF TypeOK
  <2>2. l \in LegacyRecord /\ l.owner # None /\ legacy[n].expiry <= l.expiry
    BY <1>3, <2>1 DEF LegacyRecord, LegacySetResolver, LegacyOwnerOf
  <2>3. legacy' = [legacy EXCEPT ![n] = l] /\ UNCHANGED nameVars
    BY <1>3, <2>1 DEF LegacySetResolver, TypeOK
  <2> HIDE DEF l
  <2> QED
    BY <2>2, <2>3, LegacyWriteKeepsNames
<1> QED
  BY <1>1, <1>2, <1>3 DEF LegacyStep

\* Rotation and time leave the names alone.
LEMMA OtherStepNames ==
  ASSUME NamesInv, UNCHANGED <<nameVars, legacy>>
  PROVE  NamesInv'
BY DEF NamesInv, ChildWithinParent, TopShape, LegacyShape, Records, ExpiryOf,
       nameVars

\* NamesInv is inductive relative to TypeOK.
LEMMA NextNames == TypeOK /\ NamesInv /\ [Next]_registryVars => NamesInv'
<1>1. RegistrarChange => UNCHANGED <<nameVars, legacy>>
  BY DEF RegistrarChange, SetRegistrar, ProposeRegistrar, CancelRegistrarChange,
         ActivateRegistrar, nameVars
<1>2. Tick => UNCHANGED <<nameVars, legacy>>
  BY DEF Tick, ClockTick, nameVars
<1>3. UNCHANGED registryVars => UNCHANGED <<nameVars, legacy>>
  BY DEF registryVars, nameVars
<1> QED
  BY <1>1, <1>2, <1>3, OtherStepNames, OwnerCallNames, RegistrarCallNames,
     LegacyStepNames DEF Next

\* Whatever the registrar, the owners, Registry V2 and the clock do, every
\* registered subdomain hangs under a top-level name and expires no later.
THEOREM ChildNeverOutlivesParent == Spec => []ChildWithinParent
<1>1. Init => TypeOK /\ NamesInv
  BY InitType, InitNames
<1>2. TypeOK /\ NamesInv /\ [Next]_registryVars => (TypeOK /\ NamesInv)'
  BY NextType, NextNames
<1>3. NamesInv => ChildWithinParent
  BY DEF NamesInv
<1> QED
  BY <1>1, <1>2, <1>3, PTL DEF Spec

-----------------------------------------------------------------------------
(* A new tenure is a new generation *)

\* A step that writes one name and counts as many generations as it has to.
LEMMA WriteAnchors ==
  ASSUME TypeOK, AnchoredHasGeneration, NEW n \in Nodes, NEW r \in Record,
         NEW steps \in Nat, Write(n, r), AdvanceGeneration(n, steps),
         \/ Anchor(n)
         \/ UNCHANGED migrated /\ migrated[n],
         steps = 0 => migrated[n]
  PROVE  AnchoredHasGeneration'
<1>1. \A m \in Nodes \ {n} : /\ stored'[m] = stored[m]
                             /\ migrated'[m] = migrated[m]
                             /\ generation'[m] = generation[m]
  BY DEF Write, AdvanceGeneration, Anchor, TypeOK
<1>2. migrated'[n] /\ generation'[n] = generation[n] + steps
  BY DEF AdvanceGeneration, Anchor, TypeOK
<1>3. generation[n] \in Nat
  BY BoundsAssumption, TimeAssumption DEF TypeOK
<1>4. generation'[n] > 0
  BY <1>2, <1>3 DEF AnchoredHasGeneration
<1> QED
  BY <1>1, <1>2, <1>4 DEF AnchoredHasGeneration

\* Given NamesInv a name's owner can be read off its own record: a subdomain
\* in term never has a parent that is not.
SimpleOwners ==
  \A n \in Nodes :
    OwnerOf(n) = IF Records(n).owner # None /\ Records(n).expiry >= now
                 THEN Records(n).owner ELSE None

\* Under NamesInv the owner of a name is the one in its record while it is in term.
LEMMA OwnersAreSimple == TypeOK /\ NamesInv => SimpleOwners
<1> SUFFICES ASSUME TypeOK, NamesInv, NEW n \in Nodes
             PROVE  OwnerOf(n) =
                      IF Records(n).owner # None /\ Records(n).expiry >= now
                      THEN Records(n).owner ELSE None
  BY DEF SimpleOwners
<1>1. CASE n \in TopNodes
  <2>1. Records(n).kind # "Subdomain"
    BY <1>1 DEF Records, NamesInv, TopShape
  <2> QED
    BY <2>1 DEF OwnerOf
<1>2. CASE n \in SubNodes /\ Records(n).owner # None /\ Records(n).expiry >= now
  <2> DEFINE p == ParentNode[n]
  <2>1. migrated[n] /\ Records(n) = stored[n]
    BY <1>2 DEF Records, NamesInv, LegacyShape
  <2>2. /\ Records(n).parentNode = p
        /\ Records(p).kind = "TopLevel"
        /\ Records(n).expiry <= Records(p).expiry
        /\ p \in TopNodes
    BY <1>2, <2>1, NodesAssumption DEF NamesInv, ChildWithinParent, ExpiryOf
  <2>3. Records(p).expiry >= now
    <3>1. /\ now \in Nat
          /\ Records(n).expiry \in Nat
          /\ Records(p).expiry \in Nat
      BY <2>2, RecordsType, BoundsAssumption, TimeAssumption DEF Record, TypeOK
    <3> QED
      BY <1>2, <2>2, <3>1
  <2>4. Records(p).owner # None
    BY <2>2 DEF Records, NamesInv, TopShape, LegacyShape
  <2> HIDE DEF p
  <2> QED
    BY <1>2, <2>2, <2>3, <2>4 DEF OwnerOf, ActiveTopLevel
<1>3. CASE n \in SubNodes /\ ~(Records(n).owner # None /\ Records(n).expiry >= now)
  BY <1>3 DEF OwnerOf
<1> QED
  BY <1>1, <1>2, <1>3

\* The same after a step.
LEMMA OwnersStaySimple == TypeOK' /\ NamesInv' => SimpleOwners'
BY OwnersAreSimple, PTL

\* A step that writes one name, and counts no generation only when it leaves
\* a name in term with its owner.
LEMMA WriteStartsTenure ==
  ASSUME TypeOK, SimpleOwners, SimpleOwners',
         NEW n \in Nodes, NEW r \in Record, NEW steps \in Nat,
         Write(n, r), AdvanceGeneration(n, steps), UNCHANGED <<now, legacy>>,
         \/ Anchor(n)
         \/ UNCHANGED migrated /\ migrated[n],
         steps = 0 => Records(n).expiry >= now /\ r.owner = Records(n).owner
  PROVE  NewTenure
<1>1. \A m \in Nodes \ {n} :
        /\ generation'[m] = generation[m]
        /\ Records(m)' = Records(m)
  BY DEF Write, AdvanceGeneration, Anchor, TypeOK, Records
<1>2. /\ generation'[n] = generation[n] + steps
      /\ Records(n)' = r
  BY DEF Write, AdvanceGeneration, Anchor, TypeOK, Records
<1>3. \A m \in Nodes : generation[m] \in Nat
  BY BoundsAssumption, TimeAssumption DEF TypeOK
<1>4. \A m \in Nodes \ {n} : OwnerOf(m)' = OwnerOf(m)
  BY <1>1 DEF SimpleOwners
<1>5. steps = 0 => OwnerOf(n)' \in {OwnerOf(n), None}
  BY <1>2 DEF SimpleOwners
<1> QED
  BY <1>1, <1>2, <1>3, <1>4, <1>5 DEF NewTenure

\* What every call that changes names does: it writes one of them, and counts
\* no generation only for an anchored name in term that stays with its owner.
NameWrite(n, r, steps) ==
  /\ Write(n, r)
  /\ AdvanceGeneration(n, steps)
  /\ UNCHANGED <<now, legacy>>
  /\ \/ Anchor(n)
     \/ UNCHANGED migrated /\ migrated[n]
  /\ steps = 0 => /\ migrated[n]
                 /\ Records(n).expiry >= now
                 /\ r.owner = Records(n).owner

SomeNameWrite ==
  \E n \in Nodes, r \in Record, steps \in Nat : NameWrite(n, r, steps)

\* A write of one name is a NameWrite of some name.
LEMMA OneNameWrite ==
  ASSUME NEW n \in Nodes, NEW r \in Record, NEW steps \in Nat,
         NameWrite(n, r, steps)
  PROVE  SomeNameWrite
<1> USE DEF SomeNameWrite
<1> WITNESS n \in Nodes, r \in Record, steps \in Nat
<1> QED
  OBVIOUS

\* Each call of an owner that changes a name is a NameWrite.
LEMMA OwnerCallWrites ==
  ASSUME TypeOK, NamesInv, OwnerCall
  PROVE  SomeNameWrite
<1>1. ASSUME NEW n \in TopNodes, NEW a \in Accounts, MigrateName(a, n)
      PROVE  SomeNameWrite
  <2>1. TopLevelRecord(a, legacy[n].resolver, legacy[n].expiry) \in Record
    BY DEF TypeOK, TopLevelRecord, Record, LegacyRecord
  <2>2. NameWrite(n, TopLevelRecord(a, legacy[n].resolver, legacy[n].expiry), 1)
    BY <1>1 DEF MigrateName, NameWrite
  <2> QED
    BY <2>1, <2>2, OneNameWrite
<1>2. ASSUME NEW n \in TopNodes, NEW a \in Accounts, NEW b \in Accounts,
             TransferName(a, n, b)
      PROVE  SomeNameWrite
  <2>1. CASE Records(n).owner # b
    <3> DEFINE r == [Records(n) EXCEPT !.owner = b, !.resolver = None]
    <3>1. r \in Record
      BY RecordsType DEF Record
    <3>2. Write(n, r) /\ AdvanceGeneration(n, MaterializeSteps(n) + 1)
      BY <1>2, <2>1 DEF TransferName
    <3> HIDE DEF r
    <3>3. NameWrite(n, r, MaterializeSteps(n) + 1)
      BY <1>2, <3>2 DEF NameWrite, TransferName, MaterializeSteps
    <3>4. MaterializeSteps(n) + 1 \in Nat
      BY DEF MaterializeSteps
    <3> QED
      BY <3>1, <3>3, <3>4, OneNameWrite
  <2>2. CASE Records(n).owner = b
    <3>1. NameWrite(n, Records(n), 1)
      BY <1>2, <2>2 DEF NameWrite, TransferName, MaterializeSteps
    <3> QED
      BY <3>1, RecordsType, OneNameWrite
  <2> QED
    BY <2>1, <2>2
<1>3. ASSUME NEW n \in Nodes, NEW a \in Accounts,
             NEW x \in Resolvers \cup {None}, SetResolver(a, n, x)
      PROVE  SomeNameWrite
  <2> DEFINE r == [Records(n) EXCEPT !.resolver = x]
  <2>1. r \in Record /\ r.owner = Records(n).owner
    BY RecordsType DEF Record
  <2>2. Write(n, r) /\ Records(n).expiry >= now
    BY <1>3, OwnedRecord DEF SetResolver
  <2> HIDE DEF r
  <2>3. NameWrite(n, r, MaterializeSteps(n))
    BY <1>3, <2>1, <2>2 DEF SetResolver, NameWrite, MaterializeSteps
  <2>4. MaterializeSteps(n) \in Nat
    BY DEF MaterializeSteps
  <2> QED
    BY <2>1, <2>3, <2>4, OneNameWrite
<1> QED
  BY <1>1, <1>2, <1>3 DEF OwnerCall

\* Each call of the registrar that changes a name is a NameWrite.
LEMMA RegistrarCallWrites ==
  ASSUME TypeOK, NamesInv, AnchoredHasGeneration, RegistrarCall
  PROVE  SomeNameWrite
<1> USE DEF ExpiryInputs
<1>1. ASSUME NEW n \in TopNodes, NEW e \in ExpiryInputs, NEW a \in Accounts,
             RegisterTopLevel(n, a, e)
      PROVE  SomeNameWrite
  <2>1. TopLevelRecord(a, None, e) \in Record
    BY <1>1, BoundsAssumption, TimeAssumption
    DEF RegisterTopLevel, FutureExpiry, TopLevelRecord, Record
  <2>2. NameWrite(n, TopLevelRecord(a, None, e), 1)
    BY <1>1 DEF RegisterTopLevel, NameWrite
  <2> QED
    BY <2>1, <2>2, OneNameWrite
<1>2. ASSUME NEW n \in TopNodes, NEW e \in ExpiryInputs, RenewTopLevel(n, e)
      PROVE  SomeNameWrite
  <2> DEFINE r == [Records(n) EXCEPT !.expiry = e]
  <2>1. r \in Record /\ r.owner = Records(n).owner
    BY <1>2, RecordsType, BoundsAssumption, TimeAssumption DEF RenewTopLevel, Record
  <2>2. Write(n, r) /\ Records(n).expiry >= now
    BY <1>2 DEF RenewTopLevel, ActiveTopLevel
  <2> HIDE DEF r
  <2>3. NameWrite(n, r, MaterializeSteps(n))
    BY <1>2, <2>1, <2>2 DEF RenewTopLevel, NameWrite, MaterializeSteps
  <2>4. MaterializeSteps(n) \in Nat
    BY DEF MaterializeSteps
  <2> QED
    BY <2>1, <2>3, <2>4, OneNameWrite
<1>3. ASSUME NEW n \in SubNodes, NEW e \in ExpiryInputs, NEW a \in Accounts,
             RegisterSubdomain(n, ParentNode[n], a, e)
      PROVE  SomeNameWrite
  <2>1. SubdomainRecord(ParentNode[n], a, e) \in Record
    BY <1>3, NodesAssumption, BoundsAssumption, TimeAssumption
    DEF RegisterSubdomain, FutureExpiry, SubdomainRecord, Record
  <2>2. NameWrite(n, SubdomainRecord(ParentNode[n], a, e), 1)
    BY <1>3 DEF RegisterSubdomain, NameWrite
  <2> QED
    BY <2>1, <2>2, OneNameWrite
<1>4. ASSUME NEW n \in SubNodes, NEW e \in ExpiryInputs, RenewSubdomain(n, e)
      PROVE  SomeNameWrite
  <2> DEFINE r == [stored[n] EXCEPT
                     !.expiry = e,
                     !.resolver = IF stored[n].expiry < now THEN None ELSE @]
             steps == IF stored[n].expiry < now THEN 1 ELSE 0
  <2>1. stored[n] \in Record /\ e \in Expiries /\ now \in Nat
    BY <1>4, BoundsAssumption, TimeAssumption DEF RenewSubdomain, FutureExpiry, TypeOK
  <2>2. migrated[n] /\ Records(n) = stored[n]
    BY <1>4 DEF RenewSubdomain, AnchoredHasGeneration, Records
  <2>3. Write(n, r) /\ AdvanceGeneration(n, steps) /\ UNCHANGED <<now, migrated, legacy>>
    BY <1>4 DEF RenewSubdomain
  <2>4. ASSUME stored[n].expiry < now
        PROVE  r \in Record /\ r.owner = stored[n].owner /\ steps = 1
    BY <2>1, <2>4 DEF Record
  <2>5. ASSUME ~(stored[n].expiry < now)
        PROVE  r \in Record /\ r.owner = stored[n].owner /\ steps = 0
    BY <2>1, <2>5 DEF Record
  <2>6. /\ r \in Record
        /\ steps \in Nat
        /\ r.owner = stored[n].owner
        /\ steps = 0 => stored[n].expiry >= now
    <3>1. CASE stored[n].expiry < now
      BY <2>4, <3>1
    <3>2. CASE ~(stored[n].expiry < now)
      <4>1. stored[n].expiry >= now
        BY <2>1, <3>2, BoundsAssumption, TimeAssumption DEF Record
      <4> QED
        BY <2>5, <3>2, <4>1
    <3> QED
      BY <3>1, <3>2
  <2> HIDE DEF r, steps
  <2>7. NameWrite(n, r, steps)
    BY <2>2, <2>3, <2>6 DEF NameWrite
  <2> QED
    BY <2>6, <2>7, OneNameWrite
<1>5. ASSUME NEW n \in SubNodes, NEW a \in Accounts, ReassignSubdomain(n, a)
      PROVE  SomeNameWrite
  <2> DEFINE r == [stored[n] EXCEPT !.owner = a, !.resolver = None]
  <2>1. r \in Record
    BY DEF TypeOK, Record
  <2>2. Write(n, r) /\ migrated[n]
    BY <1>5, OwnedRecord DEF ReassignSubdomain
  <2> HIDE DEF r
  <2>3. NameWrite(n, r, 1)
    BY <1>5, <2>2 DEF ReassignSubdomain, NameWrite
  <2> QED
    BY <2>1, <2>3, OneNameWrite
<1>6. ASSUME NEW n \in SubNodes, ReleaseSubdomain(n)
      PROVE  SomeNameWrite
  <2>1. EmptyRecord \in Record
    BY BoundsAssumption, TimeAssumption DEF EmptyRecord, Record
  <2>2. NameWrite(n, EmptyRecord, 1)
    BY <1>6 DEF ReleaseSubdomain, NameWrite
  <2> QED
    BY <2>1, <2>2, OneNameWrite
<1> QED
  BY <1>1, <1>2, <1>3, <1>4, <1>5, <1>6 DEF RegistrarCall

\* The other steps leave the names of V3 alone.
LEMMA OtherSteps ==
  ASSUME TypeOK, RegistrarChange \/ LegacyStep \/ Tick \/ UNCHANGED registryVars
  PROVE  UNCHANGED nameVars /\ (UNCHANGED <<legacy, now>> \/
                               (UNCHANGED now /\ LegacyStep) \/
                               (UNCHANGED legacy /\ now' = now + 1))
<1>1. CASE RegistrarChange
  BY <1>1 DEF RegistrarChange, SetRegistrar, ProposeRegistrar,
              CancelRegistrarChange, ActivateRegistrar, nameVars
<1>2. CASE LegacyStep
  BY <1>2
  DEF LegacyStep, LegacyRegister, LegacyTransfer, LegacySetResolver, nameVars
<1>3. CASE Tick
  BY <1>3 DEF Tick, ClockTick, nameVars
<1>4. CASE UNCHANGED registryVars
  BY <1>4 DEF registryVars, nameVars
<1> QED
  BY <1>1, <1>2, <1>3, <1>4

\* At first nothing is anchored and all generations are zero.
LEMMA InitAnchored == Init => AnchoredHasGeneration
BY DEF Init, AnchoredHasGeneration, EmptyRecord

\* AnchoredHasGeneration is inductive relative to NamesInv.
LEMMA NextAnchored ==
  TypeOK /\ NamesInv /\ AnchoredHasGeneration /\ [Next]_registryVars
    => AnchoredHasGeneration'
<1> SUFFICES ASSUME TypeOK, NamesInv, AnchoredHasGeneration,
                    [Next]_registryVars
             PROVE  AnchoredHasGeneration'
  OBVIOUS
<1>1. CASE OwnerCall \/ RegistrarCall
  <2>1. SomeNameWrite
    BY <1>1, OwnerCallWrites, RegistrarCallWrites
  <2>2. PICK n \in Nodes, r \in Record, steps \in Nat : NameWrite(n, r, steps)
    BY <2>1 DEF SomeNameWrite
  <2> QED
    BY <2>2, WriteAnchors DEF NameWrite
<1>2. CASE RegistrarChange \/ LegacyStep \/ Tick \/ UNCHANGED registryVars
  BY <1>2, OtherSteps DEF nameVars, AnchoredHasGeneration
<1> QED
  BY <1>1, <1>2 DEF Next

RegistryInv == TypeOK /\ NamesInv /\ AnchoredHasGeneration

\* The strengthened invariant of all the theorems on names.
LEMMA RegistryInvariant == Spec => []RegistryInv
<1>1. Init => RegistryInv
  BY InitType, InitNames, InitAnchored DEF RegistryInv
<1>2. RegistryInv /\ [Next]_registryVars => RegistryInv'
  BY NextType, NextNames, NextAnchored DEF RegistryInv
<1> QED
  BY <1>1, <1>2, PTL DEF Spec

\* No imported or registered name ever has generation zero.
THEOREM AnchoredNamesHaveGenerations == Spec => []AnchoredHasGeneration
<1>1. RegistryInv => AnchoredHasGeneration
  BY DEF RegistryInv
<1> QED
  BY <1>1, RegistryInvariant, PTL

\* A step that starts a new tenure of an anchored name advances its generation.
LEMMA TenureStep ==
  RegistryInv /\ RegistryInv' /\ [Next]_registryVars => NewTenure
<1> SUFFICES ASSUME RegistryInv, RegistryInv', [Next]_registryVars
             PROVE  NewTenure
  OBVIOUS
<1>1. SimpleOwners /\ SimpleOwners'
  BY OwnersAreSimple, OwnersStaySimple DEF RegistryInv
<1>2. \A n \in Nodes : generation[n] \in Nat
  BY BoundsAssumption, TimeAssumption DEF RegistryInv, TypeOK
<1>3. CASE OwnerCall \/ RegistrarCall
  <2>1. SomeNameWrite
    BY <1>3, OwnerCallWrites, RegistrarCallWrites DEF RegistryInv
  <2>2. PICK n \in Nodes, r \in Record, steps \in Nat : NameWrite(n, r, steps)
    BY <2>1 DEF SomeNameWrite
  <2> QED
    BY <1>1, <2>2, WriteStartsTenure DEF NameWrite, RegistryInv
<1>4. CASE RegistrarChange \/ LegacyStep \/ Tick \/ UNCHANGED registryVars
  <2>1. /\ UNCHANGED nameVars
        /\ \/ UNCHANGED <<legacy, now>>
           \/ UNCHANGED now /\ LegacyStep
           \/ UNCHANGED legacy /\ now' = now + 1
    BY <1>4, OtherSteps DEF RegistryInv
  <2>2. SUFFICES ASSUME NEW n \in Nodes, generation[n] > 0
                 PROVE  OwnerOf(n)' \in {OwnerOf(n), None}
    BY <1>2, <2>1 DEF NewTenure, nameVars
  <2>3. Records(n)' = Records(n)
    BY <2>1, <2>2 DEF RegistryInv, AnchoredHasGeneration, Records, nameVars
  <2>4. now \in Nat /\ now' \in Nat /\ now' >= now /\ Records(n).expiry \in Nat
    BY <2>1, RecordsType, BoundsAssumption, TimeAssumption DEF RegistryInv, TypeOK, Record
  <2> QED
    BY <1>1, <2>3, <2>4 DEF SimpleOwners
<1> QED
  BY <1>3, <1>4 DEF Next

\* Every change of hands of an anchored name, by transfer, recall, resale
\* after a lapse or reactivation, comes with a generation never used before.
THEOREM TenuresHaveOwnGenerations == Spec => NewTenureNewGeneration
BY RegistryInvariant, TenureStep, PTL DEF NewTenureNewGeneration, Spec

-----------------------------------------------------------------------------
(* Replacing the registrar takes the whole public delay *)

\* The stored rotation is the one that was announced, delay included.
RotationInv ==
  pendingRegistrar # None =>
    /\ announced.who = pendingRegistrar
    /\ pendingRegistrarActivationTime = announced.at + RegistrarChangeDelay

\* Calls outside the rotation leave the registrar and the proposal alone.
LEMMA OtherCallsKeepRegistrar ==
  Tick \/ OwnerCall \/ RegistrarCall \/ LegacyStep \/ UNCHANGED registryVars
    => UNCHANGED registrarVars
<1>1. Tick \/ UNCHANGED registryVars => UNCHANGED registrarVars
  BY DEF Tick, ClockTick, registryVars, registrarVars
<1>2. OwnerCall => UNCHANGED registrarVars
  BY DEF OwnerCall, MigrateName, TransferName, SetResolver
<1>3. RegistrarCall => UNCHANGED registrarVars
  BY DEF RegistrarCall, RegisterTopLevel, RenewTopLevel, RegisterSubdomain,
         RenewSubdomain, ReassignSubdomain, ReleaseSubdomain
<1>4. LegacyStep => UNCHANGED registrarVars
  BY DEF LegacyStep, LegacyRegister, LegacyTransfer, LegacySetResolver
<1> QED
  BY <1>1, <1>2, <1>3, <1>4

\* RotationInv is inductive.
LEMMA NextRotation ==
  RotationInv /\ [Next]_registryVars => RotationInv'
<1> SUFFICES ASSUME RotationInv, [Next]_registryVars
             PROVE  RotationInv'
  OBVIOUS
<1>1. ASSUME NEW r \in Registrars, SetRegistrar(r)
      PROVE  RotationInv'
  BY <1>1 DEF SetRegistrar, RotationInv
<1>2. ASSUME NEW r \in Successors, ProposeRegistrar(r)
      PROVE  RotationInv'
  BY <1>2 DEF ProposeRegistrar, RotationInv
<1>3. CASE CancelRegistrarChange
  BY <1>3 DEF CancelRegistrarChange, RotationInv
<1>4. CASE ActivateRegistrar
  BY <1>4 DEF ActivateRegistrar, RotationInv
<1>5. CASE Tick \/ OwnerCall \/ RegistrarCall \/ LegacyStep
           \/ UNCHANGED registryVars
  <2>1. UNCHANGED registrarVars
    BY <1>5, OtherCallsKeepRegistrar
  <2> QED
    BY <2>1 DEF registrarVars, RotationInv
<1> QED
  BY <1>1, <1>2, <1>3, <1>4, <1>5 DEF Next, RegistrarChange

\* However often the owner proposes, cancels and proposes again, a registrar
\* that was appointed gives way only to the one whose current proposal has
\* been public for the whole delay.
THEOREM RegistrarChangesAreAnnounced == Spec => RegistrarChangeAnnounced
<1> DEFINE Announced ==
      registrar # None /\ registrar' # registrar
        => /\ registrar' = announced.who
           /\ announced.at + RegistrarChangeDelay <= now
<1>1. Init => RotationInv
  BY DEF Init, RotationInv
<1>2. TypeOK /\ RotationInv /\ [Next]_registryVars => Announced
  <2> SUFFICES ASSUME TypeOK, RotationInv, [Next]_registryVars,
                      registrar # None, registrar' # registrar
               PROVE  /\ registrar' = announced.who
                      /\ announced.at + RegistrarChangeDelay <= now
    OBVIOUS
  <2>1. ActivateRegistrar
    <3>1. \/ \E r \in Registrars : SetRegistrar(r)
          \/ \E r \in Successors : ProposeRegistrar(r)
          \/ CancelRegistrarChange
          \/ ActivateRegistrar
      BY OtherCallsKeepRegistrar DEF Next, RegistrarChange, registrarVars
    <3> QED
      BY <3>1 DEF SetRegistrar, ProposeRegistrar, CancelRegistrarChange
  <2>2. /\ registrar' = announced.who
        /\ now >= announced.at + RegistrarChangeDelay
    BY <2>1 DEF ActivateRegistrar, RotationInv
  <2>3. now \in Nat /\ announced.at + RegistrarChangeDelay \in Nat
    BY BoundsAssumption, TimeAssumption DEF TypeOK
  <2> QED
    BY <2>2, <2>3
<1> QED
  BY <1>1, <1>2, NextRotation, TypeCorrect, PTL
  DEF Spec, RegistrarChangeAnnounced
-----------------------------------------------------------------------------
(* Nothing is taken from its holder *)

\* Writing one name leaves the record of every other alone.
LEMMA OtherRecordsKept ==
  ASSUME TypeOK, NEW n \in Nodes, NEW r, Write(n, r),
         Anchor(n) \/ UNCHANGED migrated, UNCHANGED legacy,
         NEW m \in Nodes \ {n}
  PROVE  stored'[m] = stored[m] /\ Records(m)' = Records(m)
BY DEF TypeOK, Write, Anchor, Records

\* Writing and anchoring a name makes what is written its record.
LEMMA WrittenRecord ==
  ASSUME TypeOK, NEW n \in Nodes, NEW r, Write(n, r)
  PROVE  /\ stored'[n] = r
         /\ Anchor(n) \/ (UNCHANGED migrated /\ migrated[n]) => Records(n)' = r
BY DEF TypeOK, Write, Anchor, Records

\* What a step must leave of a lapsed subdomain.
Reserved(n) ==
  stored[n].owner # None /\ OwnerOf(n) = None
    => stored'[n].owner \in {stored[n].owner, None}

\* Calls on names other than n keep n reserved.
LEMMA ElsewhereKeepsReserved ==
  ASSUME TypeOK, NEW m \in Nodes, NEW r, Write(m, r),
         Anchor(m) \/ UNCHANGED migrated, UNCHANGED legacy,
         NEW n \in SubNodes, n # m
  PROVE  Reserved(n)
BY OtherRecordsKept DEF Reserved

\* No call of an owner or of the registrar gives a lapsed label away.
LEMMA CallsKeepReserved ==
  ASSUME TypeOK, OwnerCall \/ RegistrarCall, NEW n \in SubNodes
  PROVE  Reserved(n)
<1> SUFFICES ASSUME stored[n].owner # None, OwnerOf(n) = None
             PROVE  stored'[n].owner \in {stored[n].owner, None}
  BY DEF Reserved
<1>1. stored \in [Nodes -> Record] /\ n \in Nodes /\ stored[n] \in Record
  BY DEF TypeOK
<1>2. ASSUME NEW m \in TopNodes, NEW r, Write(m, r)
      PROVE  stored'[n] = stored[n]
  BY <1>1, <1>2, NodesAssumption DEF Write
<1>3. CASE OwnerCall
  <2>1. ASSUME NEW m \in TopNodes, NEW a \in Accounts, MigrateName(a, m)
        PROVE  stored'[n] = stored[n]
    BY <1>2, <2>1 DEF MigrateName
  <2>2. ASSUME NEW m \in TopNodes, NEW a \in Accounts, NEW b \in Accounts,
               TransferName(a, m, b)
        PROVE  stored'[n] = stored[n]
    BY <1>2, <2>2 DEF TransferName
  <2>3. ASSUME NEW m \in Nodes, NEW a \in Accounts,
               NEW x \in Resolvers \cup {None}, SetResolver(a, m, x)
        PROVE  stored'[n] = stored[n]
    <3>1. m # n
      BY <2>3 DEF SetResolver
    <3> QED
      BY <1>1, <2>3, <3>1 DEF SetResolver, Write
  <2> QED
    BY <1>3, <2>1, <2>2, <2>3 DEF OwnerCall
<1>4. CASE RegistrarCall
  <2>1. ASSUME NEW m \in TopNodes, NEW e \in ExpiryInputs,
               \/ \E a \in Accounts : RegisterTopLevel(m, a, e)
               \/ RenewTopLevel(m, e)
        PROVE  stored'[n] = stored[n]
    BY <1>2, <2>1 DEF RegisterTopLevel, RenewTopLevel
  <2>2. ASSUME NEW m \in SubNodes, NEW a \in Accounts, NEW e \in ExpiryInputs,
               RegisterSubdomain(m, ParentNode[m], a, e)
        PROVE  stored'[n] = stored[n]
    BY <1>1, <2>2 DEF RegisterSubdomain, Write
  <2>3. ASSUME NEW m \in SubNodes, NEW e \in ExpiryInputs, RenewSubdomain(m, e)
        PROVE  stored'[n].owner = stored[n].owner
    BY <1>1, <2>3 DEF RenewSubdomain, Write, Record
  <2>4. ASSUME NEW m \in SubNodes, NEW a \in Accounts, ReassignSubdomain(m, a)
        PROVE  stored'[n] = stored[n]
    <3>1. m # n
      BY <2>4 DEF ReassignSubdomain
    <3> QED
      BY <1>1, <2>4, <3>1 DEF ReassignSubdomain, Write
  <2>5. ASSUME NEW m \in SubNodes, ReleaseSubdomain(m)
        PROVE  stored'[n].owner \in {stored[n].owner, None}
    BY <1>1, <2>5 DEF ReleaseSubdomain, Write, EmptyRecord
  <2> QED
    BY <1>4, <2>1, <2>2, <2>3, <2>4, <2>5 DEF RegistrarCall
<1> QED
  BY <1>3, <1>4

\* Whatever the registrar, the owners and Registry V2 do, a lapsed subdomain
\* stays with the account that held it until it is renewed or released.
THEOREM LapsedLabelsStayReserved == Spec => LapsedLabelReserved
<1>1. ASSUME TypeOK, [Next]_registryVars, NEW n \in SubNodes
      PROVE  Reserved(n)
  <2>1. CASE OwnerCall \/ RegistrarCall
    BY <1>1, <2>1, CallsKeepReserved
  <2>2. CASE RegistrarChange \/ LegacyStep \/ Tick \/ UNCHANGED registryVars
    BY <1>1, <2>2, OtherSteps DEF nameVars, Reserved
  <2> QED
    BY <1>1, <2>1, <2>2 DEF Next
<1>2. TypeOK /\ [Next]_registryVars
        => \A n \in SubNodes :
             stored[n].owner # None /\ OwnerOf(n) = None
               => stored'[n].owner \in {stored[n].owner, None}
  BY <1>1 DEF Reserved
<1> QED
  BY <1>2, TypeCorrect, PTL DEF Spec, LapsedLabelReserved
\* The three ways a top-level name may leave its owner's hands.
MayLose(n, a) ==
  \/ \E b \in Accounts : TransferName(a, n, b)
  \/ now' > now
  \/ ~migrated'[n] /\ legacy' # legacy

\* An account whose name keeps its owner and stays in term still owns it.
LEMMA RecordKeepsOwner ==
  ASSUME SimpleOwners, SimpleOwners', NEW n \in TopNodes, NEW a \in Accounts,
         OwnerOf(n) = a, UNCHANGED now,
         Records(n)'.owner = Records(n).owner,
         Records(n).expiry >= now => Records(n)'.expiry >= now
  PROVE  OwnerOf(n)' = a
BY NoneAssumption DEF SimpleOwners

\* An owner's call moves no name but by its own owner's transfer.
LEMMA OwnerCallKeepsTop ==
  ASSUME TypeOK, NamesInv, SimpleOwners, SimpleOwners', OwnerCall,
         NEW n \in TopNodes, NEW a \in Accounts, OwnerOf(n) = a
  PROVE  OwnerOf(n)' = a \/ MayLose(n, a)
<1>1. ASSUME NEW m \in TopNodes, NEW b \in Accounts, MigrateName(b, m)
      PROVE  OwnerOf(n)' = a
  <2> DEFINE r == TopLevelRecord(b, legacy[m].resolver, legacy[m].expiry)
  <2>1. Write(m, r) /\ Anchor(m) /\ UNCHANGED <<now, legacy>>
    BY <1>1 DEF MigrateName
  <2>2. r.owner = Records(m).owner /\ r.expiry = Records(m).expiry
    BY <1>1 DEF MigrateName, TopLevelRecord, Records
  <2> HIDE DEF r
  <2>3. /\ Records(n)'.owner = Records(n).owner
        /\ Records(n)'.expiry = Records(n).expiry
    BY <2>1, <2>2, WrittenRecord, OtherRecordsKept
  <2> QED
    BY <2>1, <2>3, RecordKeepsOwner
<1>2. ASSUME NEW m \in TopNodes, NEW b \in Accounts, NEW c \in Accounts,
             TransferName(b, m, c)
      PROVE  OwnerOf(n)' = a \/ MayLose(n, a)
  <2>1. CASE m = n
    <3>1. b = a
      BY <1>2, <2>1 DEF TransferName
    <3>2. \E d \in Accounts : TransferName(a, n, d)
      BY <1>2, <2>1, <3>1, Zenon
    <3> QED
      BY <3>2 DEF MayLose
  <2>2. CASE m # n
    <3>1. Records(n)' = Records(n)
      BY <1>2, <2>2, OtherRecordsKept DEF TransferName
    <3> QED
      BY <1>2, <3>1, RecordKeepsOwner DEF TransferName
  <2> QED
    BY <2>1, <2>2
<1>3. ASSUME NEW m \in Nodes, NEW b \in Accounts,
             NEW x \in Resolvers \cup {None}, SetResolver(b, m, x)
      PROVE  OwnerOf(n)' = a
  <2> DEFINE r == [Records(m) EXCEPT !.resolver = x]
  <2>1. Write(m, r) /\ Anchor(m) /\ UNCHANGED <<now, legacy>>
    BY <1>3 DEF SetResolver
  <2>2. r.owner = Records(m).owner /\ r.expiry = Records(m).expiry
    BY RecordsType DEF Record
  <2> HIDE DEF r
  <2>3. /\ Records(n)'.owner = Records(n).owner
        /\ Records(n)'.expiry = Records(n).expiry
    BY <2>1, <2>2, WrittenRecord, OtherRecordsKept
  <2> QED
    BY <2>1, <2>3, RecordKeepsOwner
<1> QED
  BY <1>1, <1>2, <1>3 DEF OwnerCall

\* The registrar's calls take no top-level name away.
LEMMA RegistrarCallKeepsTop ==
  ASSUME TypeOK, NamesInv, SimpleOwners, SimpleOwners', RegistrarCall,
         NEW n \in TopNodes, NEW a \in Accounts, OwnerOf(n) = a
  PROVE  OwnerOf(n)' = a
<1> USE DEF ExpiryInputs
<1>1. ASSUME NEW m \in Nodes \ {n}, NEW r, Write(m, r),
             Anchor(m) \/ UNCHANGED migrated, UNCHANGED <<now, legacy>>
      PROVE  OwnerOf(n)' = a
  <2>1. Records(n)' = Records(n)
    BY <1>1, OtherRecordsKept
  <2> QED
    BY <1>1, <2>1, RecordKeepsOwner
<1>2. ASSUME NEW m \in TopNodes, NEW b \in Accounts, NEW e \in ExpiryInputs,
             RegisterTopLevel(m, b, e)
      PROVE  OwnerOf(n)' = a
  <2>1. m # n
    BY <1>2, NoneAssumption DEF RegisterTopLevel
  <2> QED
    BY <1>1, <1>2, <2>1 DEF RegisterTopLevel
<1>3. ASSUME NEW m \in TopNodes, NEW e \in ExpiryInputs, RenewTopLevel(m, e)
      PROVE  OwnerOf(n)' = a
  <2> DEFINE r == [Records(m) EXCEPT !.expiry = e]
  <2>1. Write(m, r) /\ Anchor(m) /\ UNCHANGED <<now, legacy>>
    BY <1>3 DEF RenewTopLevel
  <2>2. r.owner = Records(m).owner /\ r.expiry = e
    BY RecordsType DEF Record
  <2> HIDE DEF r
  <2>3. CASE m = n
    <3>1. Records(n)' = r
      BY <2>1, <2>3, WrittenRecord
    <3>2. /\ Records(n).expiry \in Nat /\ e \in Nat /\ now \in Nat
          /\ Records(n).expiry < e
      BY <1>3, <2>3, RecordsType, BoundsAssumption, TimeAssumption
      DEF RenewTopLevel, Record, TypeOK
    <3>3. /\ Records(n)'.owner = Records(n).owner
          /\ Records(n)'.expiry = e
          /\ Records(n).expiry >= now => e >= now
      BY <2>2, <2>3, <3>1, <3>2
    <3> QED
      BY <2>1, <3>3, RecordKeepsOwner
  <2>4. CASE m # n
    BY <1>1, <2>1, <2>4
  <2> QED
    BY <2>3, <2>4
<1>4. ASSUME NEW m \in SubNodes,
             \/ \E b \in Accounts, e \in ExpiryInputs :
                  RegisterSubdomain(m, ParentNode[m], b, e)
             \/ \E e \in ExpiryInputs : RenewSubdomain(m, e)
             \/ \E b \in Accounts : ReassignSubdomain(m, b)
             \/ ReleaseSubdomain(m)
      PROVE  OwnerOf(n)' = a
  <2>1. m # n
    BY NodesAssumption
  <2>2. ASSUME NEW b \in Accounts, NEW e \in ExpiryInputs,
               RegisterSubdomain(m, ParentNode[m], b, e)
        PROVE  OwnerOf(n)' = a
    BY <1>1, <2>1, <2>2 DEF RegisterSubdomain
  <2>3. ASSUME NEW e \in ExpiryInputs, RenewSubdomain(m, e)
        PROVE  OwnerOf(n)' = a
    BY <1>1, <2>1, <2>3 DEF RenewSubdomain
  <2>4. ASSUME NEW b \in Accounts, ReassignSubdomain(m, b)
        PROVE  OwnerOf(n)' = a
    BY <1>1, <2>1, <2>4 DEF ReassignSubdomain
  <2>5. ASSUME ReleaseSubdomain(m)
        PROVE  OwnerOf(n)' = a
    BY <1>1, <2>1, <2>5 DEF ReleaseSubdomain
  <2> QED
    BY <1>4, <2>2, <2>3, <2>4, <2>5
<1> QED
  BY <1>2, <1>3, <1>4 DEF RegistrarCall

\* A name in force leaves its owner's hands only by that owner's transfer, by
\* the passage of time or, not yet anchored, by a change in Registry V2.
THEOREM OwnersKeepTopLevel == Spec => OwnerKeepsTopLevel
<1>1. ASSUME RegistryInv, RegistryInv', [Next]_registryVars,
             NEW n \in TopNodes, NEW a \in Accounts, OwnerOf(n) = a
      PROVE  OwnerOf(n)' = a \/ MayLose(n, a)
  <2>1. SimpleOwners /\ SimpleOwners'
    BY <1>1, OwnersAreSimple, OwnersStaySimple DEF RegistryInv
  <2>2. CASE OwnerCall
    BY <1>1, <2>1, <2>2, OwnerCallKeepsTop DEF RegistryInv
  <2>3. CASE RegistrarCall
    BY <1>1, <2>1, <2>3, RegistrarCallKeepsTop DEF RegistryInv
  <2>4. CASE RegistrarChange \/ LegacyStep \/ Tick \/ UNCHANGED registryVars
    <3>1. /\ UNCHANGED nameVars
          /\ \/ UNCHANGED <<legacy, now>>
             \/ UNCHANGED now
             \/ now' = now + 1
      BY <1>1, <2>4, OtherSteps DEF RegistryInv
    <3>2. CASE now' = now + 1
      BY <1>1, <3>2, TimeAssumption DEF MayLose, RegistryInv, TypeOK
    <3>3. CASE UNCHANGED now /\ (migrated[n] \/ UNCHANGED legacy)
      <4>1. Records(n)' = Records(n)
        BY <3>1, <3>3 DEF Records, nameVars
      <4> QED
        BY <1>1, <2>1, <3>3, <4>1, RecordKeepsOwner
    <3>4. CASE ~migrated[n] /\ legacy' # legacy
      BY <3>1, <3>4 DEF MayLose, nameVars
    <3> QED
      BY <1>1, <3>1, <3>2, <3>3, <3>4 DEF RegistryInv, TypeOK
  <2> QED
    BY <1>1, <2>2, <2>3, <2>4 DEF Next
<1>2. RegistryInv /\ RegistryInv' /\ [Next]_registryVars
        => \A n \in TopNodes, a \in Accounts :
             OwnerOf(n) = a /\ OwnerOf(n)' # a
               => \/ \E b \in Accounts : TransferName(a, n, b)
                  \/ now' > now
                  \/ ~migrated'[n] /\ legacy' # legacy
  BY <1>1 DEF MayLose
<1> QED
  BY <1>2, RegistryInvariant, PTL DEF Spec, OwnerKeepsTopLevel

-----------------------------------------------------------------------------
(* A tenure keeps its generation *)

Lasting ==
  \A n \in Nodes :
    generation[n] > 0 /\ OwnerOf(n) # None /\ OwnerOf(n)' = OwnerOf(n)
      => generation'[n] = generation[n]

\* A step that writes one name and counts a generation only for a name that is
\* not anchored, that nobody owns, or that it takes from its owner.
LEMMA WriteLasts ==
  ASSUME TypeOK, SimpleOwners',
         NEW n \in Nodes, NEW r \in Record, NEW steps \in Nat,
         Write(n, r), AdvanceGeneration(n, steps),
         \/ Anchor(n)
         \/ UNCHANGED migrated /\ migrated[n],
         \/ steps = 0
         \/ generation[n] = 0
         \/ OwnerOf(n) = None
         \/ r.owner # OwnerOf(n)
  PROVE  Lasting
<1>1. \A m \in Nodes \ {n} : generation'[m] = generation[m]
  BY DEF AdvanceGeneration, TypeOK
<1>2. /\ generation'[n] = generation[n] + steps
      /\ Records(n)' = r
      /\ generation[n] \in Nat
  BY BoundsAssumption DEF Write, AdvanceGeneration, Anchor, TypeOK, Records
<1>3. OwnerOf(n)' \in {r.owner, None}
  BY <1>2 DEF SimpleOwners
<1> QED
  BY <1>1, <1>2, <1>3 DEF Lasting

LEMMA OwnerCallLasts ==
  ASSUME RegistryInv, SimpleOwners, SimpleOwners', OwnerCall
  PROVE  Lasting
<1>0. TypeOK /\ NamesInv
  BY DEF RegistryInv
<1>1. ASSUME NEW n \in Nodes, ~migrated[n] PROVE generation[n] = 0
  BY <1>1, BoundsAssumption DEF RegistryInv, AnchoredHasGeneration, TypeOK
<1>2. ASSUME NEW n \in TopNodes, NEW a \in Accounts, MigrateName(a, n)
      PROVE  Lasting
  <2> DEFINE r == TopLevelRecord(a, legacy[n].resolver, legacy[n].expiry)
  <2>1. r \in Record
    BY <1>0 DEF TypeOK, TopLevelRecord, Record, LegacyRecord
  <2>2. /\ Write(n, r) /\ AdvanceGeneration(n, 1) /\ Anchor(n)
        /\ ~migrated[n] /\ n \in Nodes
    BY <1>2 DEF MigrateName, Nodes
  <2> HIDE DEF r
  <2> QED
    BY <1>0, <1>1, <2>1, <2>2, WriteLasts
<1>3. ASSUME NEW n \in TopNodes, NEW a \in Accounts, NEW b \in Accounts,
             TransferName(a, n, b)
      PROVE  Lasting
  <2> DEFINE moves == Records(n).owner # b
             r == IF moves
                  THEN [Records(n) EXCEPT !.owner = b, !.resolver = None]
                  ELSE Records(n)
             steps == MaterializeSteps(n) + (IF moves THEN 1 ELSE 0)
  <2>1. n \in Nodes /\ Records(n) \in Record
    BY <1>0, RecordsType DEF Nodes
  <2>2. /\ r \in Record /\ steps \in Nat
        /\ moves => r.owner = b
        /\ ~moves /\ migrated[n] => steps = 0
    <3>1. /\ [Records(n) EXCEPT !.owner = b, !.resolver = None] \in Record
          /\ [Records(n) EXCEPT !.owner = b, !.resolver = None].owner = b
      BY <2>1 DEF Record
    <3>2. steps \in Nat /\ (~moves /\ migrated[n] => steps = 0)
      BY DEF MaterializeSteps
    <3>3. CASE moves
      BY <3>1, <3>2, <3>3
    <3>4. CASE ~moves
      BY <2>1, <3>2, <3>4
    <3> QED
      BY <3>3, <3>4
  <2>3. OwnerOf(n) \in {Records(n).owner, None}
    BY <2>1 DEF SimpleOwners
  <2>4. Write(n, r) /\ AdvanceGeneration(n, steps) /\ Anchor(n)
    BY <1>3 DEF TransferName
  <2>5. \/ steps = 0 \/ generation[n] = 0
        \/ OwnerOf(n) = None \/ r.owner # OwnerOf(n)
    BY <1>1, <2>1, <2>2, <2>3
  <2> HIDE DEF r, steps, moves
  <2> QED
    BY <1>0, <2>1, <2>2, <2>4, <2>5, WriteLasts
<1>4. ASSUME NEW n \in Nodes, NEW a \in Accounts,
             NEW x \in Resolvers \cup {None}, SetResolver(a, n, x)
      PROVE  Lasting
  <2> DEFINE r == [Records(n) EXCEPT !.resolver = x]
  <2>1. r \in Record
    BY <1>0, RecordsType DEF Record
  <2>2. /\ Write(n, r) /\ AdvanceGeneration(n, MaterializeSteps(n))
        /\ Anchor(n)
    BY <1>4 DEF SetResolver
  <2>3. MaterializeSteps(n) \in Nat /\ (migrated[n] => MaterializeSteps(n) = 0)
    BY DEF MaterializeSteps
  <2> HIDE DEF r
  <2> QED
    BY <1>0, <1>1, <2>1, <2>2, <2>3, WriteLasts
<1> QED
  BY <1>2, <1>3, <1>4 DEF OwnerCall

LEMMA RegistrarCallLasts ==
  ASSUME RegistryInv, SimpleOwners, SimpleOwners', RegistrarCall
  PROVE  Lasting
<1> USE DEF ExpiryInputs
<1>0. TypeOK /\ NamesInv /\ AnchoredHasGeneration
  BY DEF RegistryInv
<1>1. \A n \in SubNodes : n \in Nodes /\ stored[n] \in Record
  BY <1>0 DEF Nodes, TypeOK
<1>2. \A n \in SubNodes : stored[n].owner # None => Records(n) = stored[n]
  BY <1>0, <1>1 DEF AnchoredHasGeneration, Records
<1>3. ASSUME NEW n \in TopNodes, NEW e \in ExpiryInputs, NEW a \in Accounts,
             RegisterTopLevel(n, a, e)
      PROVE  Lasting
  <2>1. TopLevelRecord(a, None, e) \in Record /\ n \in Nodes
    BY <1>3, BoundsAssumption, TimeAssumption
    DEF RegisterTopLevel, FutureExpiry, TopLevelRecord, Record, Nodes
  <2> QED
    BY <1>0, <1>3, <2>1, WriteLasts DEF RegisterTopLevel
<1>4. ASSUME NEW n \in TopNodes, NEW e \in ExpiryInputs, RenewTopLevel(n, e)
      PROVE  Lasting
  <2> DEFINE r == [Records(n) EXCEPT !.expiry = e]
  <2>1. r \in Record /\ n \in Nodes
    BY <1>0, <1>4, RecordsType, BoundsAssumption, TimeAssumption
    DEF RenewTopLevel, Record, Nodes
  <2>2. Write(n, r) /\ AdvanceGeneration(n, MaterializeSteps(n)) /\ Anchor(n)
    BY <1>4 DEF RenewTopLevel
  <2>3. /\ MaterializeSteps(n) \in Nat
        /\ migrated[n] => MaterializeSteps(n) = 0
        /\ ~migrated[n] => generation[n] = 0
    BY <1>0, <2>1, BoundsAssumption
    DEF MaterializeSteps, AnchoredHasGeneration, TypeOK
  <2> HIDE DEF r
  <2> QED
    BY <1>0, <2>1, <2>2, <2>3, WriteLasts
<1>5. ASSUME NEW n \in SubNodes, NEW e \in ExpiryInputs, NEW a \in Accounts,
             RegisterSubdomain(n, ParentNode[n], a, e)
      PROVE  Lasting
  <2>1. SubdomainRecord(ParentNode[n], a, e) \in Record
    BY <1>5, NodesAssumption, BoundsAssumption, TimeAssumption
    DEF RegisterSubdomain, FutureExpiry, SubdomainRecord, Record
  <2>2. OwnerOf(n) = None
    <3>1. stored[n].owner = None /\ legacy[n].owner = None /\ n \in Nodes
      BY <1>0, <1>5 DEF RegisterSubdomain, NamesInv, LegacyShape, Nodes
    <3>2. Records(n).owner = None
      BY <3>1 DEF Records
    <3> QED
      BY <3>1, <3>2 DEF SimpleOwners
  <2> QED
    BY <1>0, <1>1, <1>5, <2>1, <2>2, WriteLasts DEF RegisterSubdomain
<1>6. ASSUME NEW n \in SubNodes, NEW e \in ExpiryInputs, RenewSubdomain(n, e)
      PROVE  Lasting
  <2> DEFINE r == [stored[n] EXCEPT
                     !.expiry = e,
                     !.resolver = IF stored[n].expiry < now THEN None ELSE @]
             steps == IF stored[n].expiry < now THEN 1 ELSE 0
  <2>1. stored[n] \in Record /\ e \in Expiries /\ now \in Nat
        /\ stored[n].expiry \in Nat
    BY <1>0, <1>1, <1>6, BoundsAssumption, TimeAssumption
    DEF RenewSubdomain, FutureExpiry, TypeOK, Record
  <2>2. r \in Record /\ steps \in Nat
    <3>1. CASE stored[n].expiry < now
      BY <2>1, <3>1 DEF Record
    <3>2. CASE ~(stored[n].expiry < now)
      BY <2>1, <3>2 DEF Record
    <3> QED
      BY <3>1, <3>2
  <2>3. /\ Write(n, r) /\ AdvanceGeneration(n, steps) /\ UNCHANGED migrated
        /\ stored[n].owner # None
    BY <1>6 DEF RenewSubdomain
  <2>4. migrated[n]
    BY <1>0, <1>1, <2>3 DEF AnchoredHasGeneration
  <2>5. steps = 0 \/ OwnerOf(n) = None
    BY <1>1, <1>2, <2>1, <2>3 DEF SimpleOwners
  <2> HIDE DEF r, steps
  <2> QED
    BY <1>0, <1>1, <2>2, <2>3, <2>4, <2>5, WriteLasts
<1>7. ASSUME NEW n \in SubNodes, NEW a \in Accounts, ReassignSubdomain(n, a)
      PROVE  Lasting
  <2> DEFINE r == [stored[n] EXCEPT !.owner = a, !.resolver = None]
  <2>1. r \in Record /\ r.owner = a
    BY <1>1 DEF Record
  <2>2. /\ Write(n, r) /\ AdvanceGeneration(n, 1) /\ UNCHANGED migrated
        /\ OwnerOf(n) # None /\ stored[n].owner # a
    BY <1>7 DEF ReassignSubdomain
  <2>3. Records(n).owner # None /\ OwnerOf(n) = Records(n).owner
    BY <1>1, <2>2 DEF SimpleOwners
  <2>4. migrated[n] /\ Records(n) = stored[n]
    BY <1>0, <1>1, <2>3 DEF Records, NamesInv, LegacyShape
  <2> HIDE DEF r
  <2> QED
    BY <1>0, <1>1, <2>1, <2>2, <2>3, <2>4, WriteLasts
<1>8. ASSUME NEW n \in SubNodes, ReleaseSubdomain(n)
      PROVE  Lasting
  <2>1. EmptyRecord \in Record /\ EmptyRecord.owner = None
    BY BoundsAssumption, TimeAssumption DEF EmptyRecord, Record
  <2> QED
    BY <1>0, <1>1, <1>8, <2>1, WriteLasts DEF ReleaseSubdomain
<1> QED
  BY <1>3, <1>4, <1>5, <1>6, <1>7, <1>8 DEF RegistrarCall

LEMMA TenureLasts ==
  RegistryInv /\ RegistryInv' /\ [Next]_registryVars => Lasting
<1> SUFFICES ASSUME RegistryInv, RegistryInv', [Next]_registryVars
             PROVE  Lasting
  OBVIOUS
<1>1. SimpleOwners /\ SimpleOwners'
  BY OwnersAreSimple, OwnersStaySimple DEF RegistryInv
<1>2. CASE OwnerCall \/ RegistrarCall
  BY <1>1, <1>2, OwnerCallLasts, RegistrarCallLasts
<1>3. CASE RegistrarChange \/ LegacyStep \/ Tick \/ UNCHANGED registryVars
  BY <1>3, OtherSteps DEF RegistryInv, nameVars, Lasting
<1> QED
  BY <1>2, <1>3 DEF Next

-----------------------------------------------------------------------------
(* What a stamp tells of an ownership *)

\* gen and in are what was stored under stampOwner; owner and g are the owner
\* and the generation of the name today.
Tells(stampOwner, gen, in, owner, g) ==
  /\ gen \in 1 .. g
  /\ in => owner # None /\ stampOwner = owner /\ gen = g
  /\ ~in => gen # g \/ owner = None

\* What the registry guarantees of a step from owner o and generation g.
Follows(o, g, o2, g2) ==
  /\ g2 >= g
  /\ g > 0 /\ o2 \notin {o, None} => g2 > g
  /\ g > 0 /\ o # None /\ o2 = o => g2 = g

LEMMA TellsStays ==
  ASSUME NEW stampOwner, NEW gen, NEW in \in BOOLEAN,
         NEW o, NEW g \in Nat, NEW o2, NEW g2 \in Nat,
         Tells(stampOwner, gen, in, o, g), Follows(o, g, o2, g2)
  PROVE  Tells(stampOwner, gen, in /\ (o2 = o), o2, g2)
BY DEF Tells, Follows

LEMMA RegistryFollows ==
  ASSUME RegistryInv, RegistryInv', [Next]_registryVars, NEW n \in Nodes
  PROVE  /\ Follows(OwnerOf(n), generation[n], OwnerOf(n)', generation'[n])
         /\ generation[n] \in 0 .. MaxGeneration
         /\ generation'[n] \in 0 .. MaxGeneration
         /\ generation[n] \in Nat /\ generation'[n] \in Nat
<1>1. NewTenure /\ Lasting
  BY TenureStep, TenureLasts
<1>2. /\ generation[n] \in 0 .. MaxGeneration
      /\ generation'[n] \in 0 .. MaxGeneration
  BY DEF RegistryInv, TypeOK
<1> QED
  BY <1>1, <1>2, BoundsAssumption DEF NewTenure, Lasting, Follows

\* The account that owns a name is an account.
LEMMA OwnersAreAccounts ==
  ASSUME RegistryInv, NEW n \in Nodes
  PROVE  OwnerOf(n) \in Accounts \cup {None}
BY RecordsType DEF RegistryInv, OwnerOf, Record

-----------------------------------------------------------------------------
(* The invariant: every record tells the truth about its ownership *)

AddressGood(d, owner, g) ==
  /\ d \in AddressRecord
  /\ IF d.target = None THEN d = NoAddress
     ELSE Tells(d.stamp.recordOwner, d.stamp.generation, d.stamp.inTenure,
                owner, g)

TextGood(d, owner, g) ==
  /\ d \in TextRecord
  /\ d.value # None =>
       Tells(d.stamp.recordOwner, d.stamp.generation, d.stamp.inTenure,
             owner, g)

AddressesGood ==
  /\ addresses \in [Nodes -> [Chains -> AddressRecord]]
  /\ \A n \in Nodes, chain \in Chains :
       AddressGood(addresses[n][chain], OwnerOf(n), generation[n])

TextsGood ==
  /\ texts \in [Nodes -> [Keys -> TextRecord]]
  /\ \A n \in Nodes, key \in Keys :
       TextGood(texts[n][key], OwnerOf(n), generation[n])

PrimaryGood ==
  /\ primary \in [Accounts -> PrimaryRecord]
  /\ \A a \in Accounts :
       /\ primary[a].node = None => primary[a] = NoPrimary
       /\ \A n \in Nodes : primary[a].node = n =>
            Tells(a, primary[a].generation, primary[a].inTenure,
                  OwnerOf(n), generation[n])

ChosenGood ==
  /\ chosen \in [Accounts -> Nodes \cup {None}]
  /\ \A a \in Accounts :
       chosen[a] # None =>
         primary[a].node = chosen[a] /\ primary[a].inTenure

RecordsInv ==
  /\ AddressesGood
  /\ TextsGood
  /\ PrimaryGood
  /\ ChosenGood
  /\ legacyRoutesImported \in [Nodes -> BOOLEAN]

ResolverInv == RegistryInv /\ RecordsInv

LEMMA StampTyped ==
  ASSUME NEW s \in Stamp
  PROVE  /\ s.inTenure \in BOOLEAN /\ s.generation \in Nat
         /\ s.recordOwner \in Accounts \cup {None}
BY BoundsAssumption DEF Stamp

LEMMA EmptyRecords ==
  /\ \A s \in Stamp :
       s = NoStamp <=>
         s.recordOwner = None /\ s.generation = 0 /\ s.inTenure = FALSE
  /\ \A p \in PrimaryRecord :
       p = NoPrimary <=>
         p.node = None /\ p.generation = 0 /\ p.inTenure = FALSE
BY DEF Stamp, NoStamp, PrimaryRecord, NoPrimary

LEMMA ResolverInitInv == ResolverInit => ResolverInv
<1> SUFFICES ASSUME ResolverInit PROVE ResolverInv
  OBVIOUS
<1>1. RegistryInv
  BY InitType, InitNames, InitAnchored DEF RegistryInv, ResolverInit
<1>2. NoStamp \in Stamp
  BY BoundsAssumption DEF NoStamp, Stamp
<1>3. NoAddress \in AddressRecord /\ NoText \in TextRecord
  BY <1>2 DEF NoAddress, NoText, AddressRecord, TextRecord
<1>4. NoPrimary \in PrimaryRecord
  BY BoundsAssumption DEF NoPrimary, PrimaryRecord
<1>5. AddressesGood
  BY <1>3 DEF ResolverInit, AddressesGood, AddressGood, NoAddress
<1>6. TextsGood
  BY <1>3 DEF ResolverInit, TextsGood, TextGood, NoText
<1>7. PrimaryGood
  BY <1>4, NoneAssumption DEF ResolverInit, PrimaryGood, NoPrimary
<1>8. ChosenGood /\ legacyRoutesImported \in [Nodes -> BOOLEAN]
  BY DEF ResolverInit, ChosenGood
<1> QED
  BY <1>1, <1>5, <1>6, <1>7, <1>8 DEF ResolverInv, RecordsInv

-----------------------------------------------------------------------------
(* The registry moves on and the records grow older *)

LEMMA StampAges ==
  ASSUME NEW s \in Stamp, NEW in \in BOOLEAN
  PROVE  /\ [s EXCEPT !.inTenure = in] \in Stamp
         /\ [s EXCEPT !.inTenure = in].recordOwner = s.recordOwner
         /\ [s EXCEPT !.inTenure = in].generation = s.generation
         /\ [s EXCEPT !.inTenure = in].inTenure = in
BY DEF Stamp

LEMMA AddressAges ==
  ASSUME NEW d, NEW o, NEW g \in Nat, NEW o2, NEW g2 \in Nat,
         AddressGood(d, o, g), Follows(o, g, o2, g2)
  PROVE  AddressGood([d EXCEPT !.stamp.inTenure = @ /\ (o2 = o)], o2, g2)
<1> DEFINE in == d.stamp.inTenure /\ (o2 = o)
           s == [d.stamp EXCEPT !.inTenure = in]
           d2 == [d EXCEPT !.stamp = s]
<1>1. d \in AddressRecord /\ d.stamp \in Stamp /\ d.stamp.inTenure \in BOOLEAN
  BY StampTyped DEF AddressGood, AddressRecord
<1>2. [d EXCEPT !.stamp.inTenure = @ /\ (o2 = o)] = d2
  BY <1>1 DEF AddressRecord, Stamp
<1>. in \in BOOLEAN /\ (d.stamp.inTenure = FALSE => in = FALSE)
  OBVIOUS
<1> HIDE DEF in
<1>3. /\ s \in Stamp /\ s.recordOwner = d.stamp.recordOwner
      /\ s.generation = d.stamp.generation /\ s.inTenure = in
  BY <1>1, StampAges
<1>4. d2 \in AddressRecord /\ d2.target = d.target /\ d2.stamp = s
  BY <1>1, <1>3 DEF AddressRecord
<1>5. CASE d.target = None
  <2>1. d = NoAddress
    BY <1>5 DEF AddressGood
  <2>2. d.stamp = NoStamp /\ in = FALSE
    BY <2>1 DEF NoAddress, NoStamp
  <2>3. s = NoStamp
    BY <1>1, <1>3, <2>2, EmptyRecords
  <2>4. d2 = NoAddress
    BY <2>1, <2>3 DEF NoAddress
  <2> QED
    BY <1>2, <1>4, <1>5, <2>4 DEF AddressGood
<1>6. CASE d.target # None
  <2>1. Tells(d.stamp.recordOwner, d.stamp.generation, in, o2, g2)
    BY <1>1, <1>6, TellsStays DEF AddressGood, in
  <2> QED
    BY <1>2, <1>3, <1>4, <1>6, <2>1 DEF AddressGood
<1> QED
  BY <1>5, <1>6

LEMMA TextAges ==
  ASSUME NEW d, NEW o, NEW g \in Nat, NEW o2, NEW g2 \in Nat,
         TextGood(d, o, g), Follows(o, g, o2, g2)
  PROVE  TextGood([d EXCEPT !.stamp.inTenure = @ /\ (o2 = o)], o2, g2)
<1> DEFINE in == d.stamp.inTenure /\ (o2 = o)
           s == [d.stamp EXCEPT !.inTenure = in]
           d2 == [d EXCEPT !.stamp = s]
<1>1. d \in TextRecord /\ d.stamp \in Stamp /\ d.stamp.inTenure \in BOOLEAN
  BY StampTyped DEF TextGood, TextRecord
<1>2. [d EXCEPT !.stamp.inTenure = @ /\ (o2 = o)] = d2
  BY <1>1 DEF TextRecord, Stamp
<1>. in \in BOOLEAN /\ (d.stamp.inTenure = FALSE => in = FALSE)
  OBVIOUS
<1> HIDE DEF in
<1>3. /\ s \in Stamp /\ s.recordOwner = d.stamp.recordOwner
      /\ s.generation = d.stamp.generation /\ s.inTenure = in
  BY <1>1, StampAges
<1>4. d2 \in TextRecord /\ d2.value = d.value /\ d2.stamp = s
  BY <1>1, <1>3 DEF TextRecord
<1>5. d.value # None =>
        Tells(d.stamp.recordOwner, d.stamp.generation, in, o2, g2)
  BY <1>1, TellsStays DEF TextGood, in
<1> QED
  BY <1>2, <1>3, <1>4, <1>5 DEF TextGood

\* What each record becomes when the registry takes a step.
LEMMA AddressAged ==
  ASSUME RegistryInv, RegistryInv', RecordsInv, [Next]_registryVars,
         NEW n \in Nodes, NEW chain \in Chains
  PROVE  AddressGood(AgedAddresses[n][chain], OwnerOf(n)', generation'[n])
<1>1. AgedAddresses[n][chain] =
        [addresses[n][chain] EXCEPT
           !.stamp.inTenure = @ /\ (OwnerOf(n)' = OwnerOf(n))]
  BY DEF AgedAddresses, Lasts
<1> QED
  BY <1>1, RegistryFollows, AddressAges DEF RecordsInv, AddressesGood

LEMMA TextAged ==
  ASSUME RegistryInv, RegistryInv', RecordsInv, [Next]_registryVars,
         NEW n \in Nodes, NEW key \in Keys
  PROVE  TextGood(AgedTexts[n][key], OwnerOf(n)', generation'[n])
<1>1. AgedTexts[n][key] =
        [texts[n][key] EXCEPT
           !.stamp.inTenure = @ /\ (OwnerOf(n)' = OwnerOf(n))]
  BY DEF AgedTexts, Lasts
<1> QED
  BY <1>1, RegistryFollows, TextAges DEF RecordsInv, TextsGood

LEMMA PrimaryAged ==
  ASSUME RegistryInv, RegistryInv', RecordsInv, [Next]_registryVars,
         NEW a \in Accounts
  PROVE  /\ AgedPrimary[a] \in PrimaryRecord
         /\ AgedPrimary[a].node = primary[a].node
         /\ AgedPrimary[a].generation = primary[a].generation
         /\ AgedPrimary[a].node = None => AgedPrimary[a] = NoPrimary
         /\ \A m \in Nodes : AgedPrimary[a].node = m =>
              /\ primary[a].node = m
              /\ Tells(a, AgedPrimary[a].generation, AgedPrimary[a].inTenure,
                       OwnerOf(m)', generation'[m])
              /\ primary[a].inTenure /\ OwnerOf(m)' = OwnerOf(m)
                   => AgedPrimary[a].inTenure
<1> DEFINE in == primary[a].inTenure /\ Lasts[primary[a].node]
<1>1. /\ primary[a] \in PrimaryRecord
      /\ AgedPrimary[a] = [primary[a] EXCEPT !.inTenure = in]
  BY DEF RecordsInv, PrimaryGood, AgedPrimary
<1>2. CASE primary[a].node = None
  <2>1. primary[a] = NoPrimary
    BY <1>2 DEF RecordsInv, PrimaryGood
  <2>2. in = FALSE
    BY <2>1 DEF NoPrimary
  <2> HIDE DEF in
  <2>3. AgedPrimary[a] = NoPrimary
    <3>1. /\ AgedPrimary[a] \in PrimaryRecord
          /\ AgedPrimary[a].node = primary[a].node
          /\ AgedPrimary[a].generation = primary[a].generation
          /\ AgedPrimary[a].inTenure = FALSE
      BY <1>1, <2>2 DEF PrimaryRecord
    <3> QED
      BY <1>1, <2>1, <3>1, EmptyRecords
  <2> QED
    BY <1>1, <2>1, <2>3, NoneAssumption DEF NoPrimary
<1>3. ASSUME NEW m \in Nodes, primary[a].node = m
      PROVE  /\ AgedPrimary[a] \in PrimaryRecord /\ AgedPrimary[a].node = m
             /\ AgedPrimary[a].generation = primary[a].generation
             /\ Tells(a, AgedPrimary[a].generation, AgedPrimary[a].inTenure,
                      OwnerOf(m)', generation'[m])
             /\ primary[a].inTenure /\ OwnerOf(m)' = OwnerOf(m)
                  => AgedPrimary[a].inTenure
  <2>1. in = (primary[a].inTenure /\ (OwnerOf(m)' = OwnerOf(m)))
    BY <1>3 DEF Lasts
  <2>2. primary[a].inTenure \in BOOLEAN /\ m # None
    BY <1>1, NoneAssumption DEF PrimaryRecord
  <2>3. in \in BOOLEAN
    BY <2>1, <2>2
  <2>4. Tells(a, primary[a].generation, primary[a].inTenure, OwnerOf(m),
              generation[m])
    BY <1>3, <2>2 DEF RecordsInv, PrimaryGood
  <2>5. /\ Follows(OwnerOf(m), generation[m], OwnerOf(m)', generation'[m])
        /\ generation[m] \in Nat /\ generation'[m] \in Nat
    BY RegistryFollows
  <2> HIDE DEF in
  <2>6. Tells(a, primary[a].generation, in, OwnerOf(m)', generation'[m])
    BY <2>1, <2>2, <2>4, <2>5, TellsStays
  <2>7. /\ AgedPrimary[a] \in PrimaryRecord
        /\ AgedPrimary[a].node = m
        /\ AgedPrimary[a].generation = primary[a].generation
        /\ AgedPrimary[a].inTenure = in
    BY <1>1, <1>3, <2>3 DEF PrimaryRecord
  <2> QED
    BY <2>1, <2>6, <2>7
<1>4. primary[a].node \in Nodes \cup {None}
  BY <1>1 DEF PrimaryRecord
<1> QED
  BY <1>2, <1>3, <1>4, NoneAssumption

LEMMA TextsAge ==
  ASSUME RegistryInv, RegistryInv', RecordsInv, [Next]_registryVars,
         texts' = AgedTexts
  PROVE  TextsGood'
<1>1. ASSUME NEW n \in Nodes, NEW key \in Keys
      PROVE  /\ AgedTexts[n][key] \in TextRecord
             /\ TextGood(AgedTexts[n][key], OwnerOf(n)', generation'[n])
  BY TextAged DEF TextGood
<1>2. AgedTexts \in [Nodes -> [Keys -> TextRecord]]
  BY <1>1 DEF AgedTexts
<1> QED
  BY <1>1, <1>2 DEF TextsGood

LEMMA AddressesAge ==
  ASSUME RegistryInv, RegistryInv', RecordsInv, [Next]_registryVars,
         addresses' = AgedAddresses
  PROVE  AddressesGood'
<1>1. ASSUME NEW n \in Nodes, NEW chain \in Chains
      PROVE  /\ AgedAddresses[n][chain] \in AddressRecord
             /\ AddressGood(AgedAddresses[n][chain], OwnerOf(n)', generation'[n])
  BY AddressAged DEF AddressGood
<1>2. AgedAddresses \in [Nodes -> [Chains -> AddressRecord]]
  BY <1>1 DEF AgedAddresses
<1> QED
  BY <1>1, <1>2 DEF AddressesGood

LEMMA PrimaryAges ==
  ASSUME RegistryInv, RegistryInv', RecordsInv, [Next]_registryVars,
         primary' = AgedPrimary
  PROVE  PrimaryGood'
<1>1. AgedPrimary \in [Accounts -> PrimaryRecord]
  BY PrimaryAged DEF AgedPrimary
<1> QED
  BY <1>1, PrimaryAged DEF PrimaryGood

\* A choice that stands after the step is of a name still in tenure.
LEMMA ChosenAged ==
  ASSUME RegistryInv, RegistryInv', RecordsInv, [Next]_registryVars,
         NEW a \in Accounts, AgedChosen[a] # None
  PROVE  /\ AgedChosen[a] \in Nodes
         /\ AgedPrimary[a].node = AgedChosen[a] /\ AgedPrimary[a].inTenure
<1>1. /\ AgedChosen[a] = chosen[a] /\ chosen[a] # None
      /\ Lasts[chosen[a]] /\ chosen[a] \in Nodes
  BY DEF AgedChosen, RecordsInv, ChosenGood
<1>2. PICK m \in Nodes : m = chosen[a]
  BY <1>1
<1>3. primary[a].node = m /\ primary[a].inTenure
  BY <1>1, <1>2 DEF RecordsInv, ChosenGood
<1>4. OwnerOf(m)' = OwnerOf(m)
  BY <1>1, <1>2 DEF Lasts
<1> QED
  BY <1>1, <1>2, <1>3, <1>4, PrimaryAged

LEMMA ChosenTyped ==
  RecordsInv => AgedChosen \in [Accounts -> Nodes \cup {None}]
BY DEF AgedChosen, RecordsInv, ChosenGood

LEMMA RecordsAge ==
  ASSUME RegistryInv, RegistryInv', RecordsInv, [Next]_registryVars,
         AgeRecords, UNCHANGED legacyRoutesImported
  PROVE  RecordsInv'
<1>1. AddressesGood' /\ TextsGood' /\ PrimaryGood'
  BY AddressesAge, TextsAge, PrimaryAges DEF AgeRecords
<1>2. ChosenGood'
  BY ChosenAged, ChosenTyped DEF AgeRecords, ChosenGood
<1> QED
  BY <1>1, <1>2 DEF RecordsInv

-----------------------------------------------------------------------------
(* The owner and the registrar write records *)

\* A step that leaves the registry alone leaves every name its owner.
LEMMA SameOwners ==
  ASSUME UNCHANGED registryVars
  PROVE  /\ \A n : OwnerOf(n)' = OwnerOf(n)
         /\ generation' = generation
         /\ RegistryInv => RegistryInv'
<1>1. \A n : Records(n)' = Records(n)
  BY DEF registryVars, Records
<1>2. \A n : OwnerOf(n)' = OwnerOf(n)
  BY <1>1 DEF registryVars, OwnerOf, ActiveTopLevel
<1>3. RegistryInv => RegistryInv'
  BY NextType, NextNames, NextAnchored DEF RegistryInv
<1> QED
  BY <1>2, <1>3 DEF registryVars

\* What is stamped with today's owner and generation tells the truth.
LEMMA StampNowTells ==
  ASSUME RegistryInv, NEW n \in Nodes, NEW owner \in Accounts,
         OwnerOf(n) = owner, generation[n] # 0
  PROVE  /\ StampNow(owner, n) \in Stamp
         /\ Tells(owner, generation[n], TRUE, OwnerOf(n), generation[n])
<1>1. generation[n] \in 1 .. MaxGeneration /\ owner # None
  BY BoundsAssumption, NoneAssumption DEF RegistryInv, TypeOK
<1> QED
  BY <1>1, BoundsAssumption DEF StampNow, Stamp, Tells

LEMMA AddressNow ==
  ASSUME RegistryInv, NEW n \in Nodes, NEW owner \in Accounts,
         NEW target \in Accounts \cup {None}, target # None,
         OwnerOf(n) = owner, generation[n] # 0
  PROVE  AddressGood([target |-> target, stamp |-> StampNow(owner, n)],
                     OwnerOf(n), generation[n])
BY StampNowTells DEF AddressGood, AddressRecord, StampNow

LEMMA NoAddressGood ==
  ASSUME NEW owner, NEW g
  PROVE  AddressGood(NoAddress, owner, g)
BY BoundsAssumption DEF AddressGood, AddressRecord, NoAddress, NoStamp, Stamp

\* One address of one name is written.
LEMMA AddressWritten ==
  ASSUME RecordsInv, UNCHANGED registryVars, NEW n \in Nodes,
         NEW chain \in Chains, NEW d,
         AddressGood(d, OwnerOf(n), generation[n]),
         addresses' = [addresses EXCEPT ![n][chain] = d]
  PROVE  AddressesGood'
<1>1. d \in AddressRecord
  BY DEF AddressGood
<1>2. addresses' \in [Nodes -> [Chains -> AddressRecord]]
  BY <1>1 DEF RecordsInv, AddressesGood
<1>3. ASSUME NEW m \in Nodes, NEW c \in Chains
      PROVE  AddressGood(addresses'[m][c], OwnerOf(m), generation[m])
  <2>1. CASE m = n /\ c = chain
    BY <2>1 DEF RecordsInv, AddressesGood
  <2>2. CASE ~(m = n /\ c = chain)
    <3>1. addresses'[m][c] = addresses[m][c]
      BY <2>2 DEF RecordsInv, AddressesGood
    <3> QED
      BY <3>1 DEF RecordsInv, AddressesGood
  <2> QED
    BY <2>1, <2>2
<1> QED
  BY <1>2, <1>3, SameOwners DEF AddressesGood

LEMMA TextWritten ==
  ASSUME RecordsInv, UNCHANGED registryVars, NEW n \in Nodes,
         NEW key \in Keys, NEW d,
         TextGood(d, OwnerOf(n), generation[n]),
         texts' = [texts EXCEPT ![n][key] = d]
  PROVE  TextsGood'
<1>1. d \in TextRecord
  BY DEF TextGood
<1>2. texts' \in [Nodes -> [Keys -> TextRecord]]
  BY <1>1 DEF RecordsInv, TextsGood
<1>3. ASSUME NEW m \in Nodes, NEW k \in Keys
      PROVE  TextGood(texts'[m][k], OwnerOf(m), generation[m])
  <2>1. CASE m = n /\ k = key
    BY <2>1 DEF RecordsInv, TextsGood
  <2>2. CASE ~(m = n /\ k = key)
    <3>1. texts'[m][k] = texts[m][k]
      BY <2>2 DEF RecordsInv, TextsGood
    <3> QED
      BY <3>1 DEF RecordsInv, TextsGood
  <2> QED
    BY <2>1, <2>2
<1> QED
  BY <1>2, <1>3, SameOwners DEF TextsGood

LEMMA AddressesStay ==
  RecordsInv /\ UNCHANGED registryVars /\ UNCHANGED addresses => AddressesGood'
BY SameOwners DEF RecordsInv, AddressesGood

LEMMA TextsStay ==
  RecordsInv /\ UNCHANGED registryVars /\ UNCHANGED texts => TextsGood'
BY SameOwners DEF RecordsInv, TextsGood

LEMMA PrimaryStays ==
  RecordsInv /\ UNCHANGED registryVars /\ UNCHANGED <<primary, chosen>>
    => PrimaryGood' /\ ChosenGood'
BY SameOwners DEF RecordsInv, PrimaryGood, ChosenGood

\* One primary name is written: to none, or to a name owned today.
LEMMA PrimaryWritten ==
  ASSUME RecordsInv, UNCHANGED registryVars, NEW a \in Accounts,
         NEW p \in PrimaryRecord,
         p.node = None => p = NoPrimary,
         \A n \in Nodes : p.node = n =>
           Tells(a, p.generation, p.inTenure, OwnerOf(n), generation[n]),
         primary' = [primary EXCEPT ![a] = p]
  PROVE  PrimaryGood'
<1>1. \A b \in Accounts : primary'[b] = IF b = a THEN p ELSE primary[b]
  BY DEF RecordsInv, PrimaryGood
<1>2. primary' \in [Accounts -> PrimaryRecord]
  BY DEF RecordsInv, PrimaryGood
<1>3. ASSUME NEW b \in Accounts
      PROVE  /\ primary'[b].node = None => primary'[b] = NoPrimary
             /\ \A n \in Nodes : primary'[b].node = n =>
                  Tells(b, primary'[b].generation, primary'[b].inTenure,
                        OwnerOf(n), generation[n])
  BY <1>1 DEF RecordsInv, PrimaryGood
<1> QED
  BY <1>2, <1>3, SameOwners DEF PrimaryGood

LEMMA PrimaryNowGood ==
  ASSUME RegistryInv, NEW n \in Nodes, NEW a \in Accounts, MayWrite(a, n)
  PROVE  /\ PrimaryNow(n) \in PrimaryRecord
         /\ PrimaryNow(n).node = n /\ n # None
         /\ PrimaryNow(n).inTenure
         /\ Tells(a, PrimaryNow(n).generation, PrimaryNow(n).inTenure,
                  OwnerOf(n), generation[n])
BY StampNowTells, NoneAssumption
DEF RegistryInv, TypeOK, PrimaryNow, PrimaryRecord, MayWrite

\* An account whose primary name is inactive has chosen none.
LEMMA InactiveNotChosen ==
  ASSUME RecordsInv, NEW a \in Accounts, ~IsPrimaryActive(a, primary[a])
  PROVE  chosen[a] = None
<1> SUFFICES ASSUME chosen[a] # None PROVE FALSE
  OBVIOUS
<1>1. PICK n \in Nodes : n = chosen[a]
  BY DEF RecordsInv, ChosenGood
<1>2. primary[a].node = n /\ primary[a].inTenure /\ n # None
  BY <1>1, NoneAssumption DEF RecordsInv, ChosenGood
<1>3. Tells(a, primary[a].generation, primary[a].inTenure, OwnerOf(n),
            generation[n])
  BY <1>2 DEF RecordsInv, PrimaryGood
<1> QED
  BY <1>2, <1>3 DEF Tells, IsPrimaryActive

LEMMA RecordStepKeeps ==
  ASSUME RegistryInv, RecordsInv, RecordStep
  PROVE  RecordsInv'
<1>1. ASSUME NEW a \in Accounts, NEW n \in Nodes, NEW chain \in Chains,
             NEW target \in Accounts \cup {None},
             SetAddress(a, n, chain, target)
      PROVE  RecordsInv'
  <2> DEFINE d == IF target = None THEN NoAddress
                  ELSE [target |-> target, stamp |-> StampNow(a, n)]
  <2>1. AddressGood(d, OwnerOf(n), generation[n])
    BY <1>1, AddressNow, NoAddressGood DEF SetAddress, MayWrite
  <2>2. /\ addresses' = [addresses EXCEPT ![n][chain] = d]
        /\ UNCHANGED registryVars
        /\ UNCHANGED <<texts, primary, legacyRoutesImported, chosen>>
    BY <1>1 DEF SetAddress
  <2> HIDE DEF d
  <2> QED
    BY <2>1, <2>2, AddressWritten, TextsStay, PrimaryStays DEF RecordsInv
<1>2. ASSUME NEW a \in Accounts, NEW n \in Nodes, NEW chain \in Chains,
             ClearAddress(a, n, chain)
      PROVE  RecordsInv'
  BY <1>2, NoAddressGood, AddressWritten, TextsStay, PrimaryStays
  DEF ClearAddress, RecordsInv
<1>3. ASSUME NEW a \in Accounts, NEW n \in Nodes, NEW key \in Keys,
             NEW value \in Values \cup {None}, SetText(a, n, key, value)
      PROVE  RecordsInv'
  <2> DEFINE d == IF value = None THEN NoText
                  ELSE [value |-> value, stamp |-> StampNow(a, n)]
  <2>1. NoText \in TextRecord /\ NoText.value = None
    BY BoundsAssumption DEF NoText, TextRecord, NoStamp, Stamp
  <2>2. TextGood(d, OwnerOf(n), generation[n])
    <3>1. CASE value = None
      BY <2>1, <3>1 DEF TextGood
    <3>2. CASE value # None
      BY <1>3, <3>2, StampNowTells
      DEF TextGood, TextRecord, StampNow, SetText, MayWrite
    <3> QED
      BY <3>1, <3>2
  <2>3. /\ texts' = [texts EXCEPT ![n][key] = d]
        /\ UNCHANGED registryVars
        /\ UNCHANGED <<addresses, primary, legacyRoutesImported, chosen>>
    BY <1>3 DEF SetText
  <2> HIDE DEF d
  <2> QED
    BY <2>2, <2>3, AddressesStay, TextWritten, PrimaryStays DEF RecordsInv
<1>4. ASSUME NEW a \in Accounts, NEW n \in Nodes, SetPrimaryName(a, n)
      PROVE  RecordsInv'
  <2>1. /\ primary' = [primary EXCEPT ![a] = PrimaryNow(n)]
        /\ chosen' = [chosen EXCEPT ![a] = n]
        /\ UNCHANGED registryVars
        /\ UNCHANGED <<addresses, texts, legacyRoutesImported>>
        /\ MayWrite(a, n)
    BY <1>4 DEF SetPrimaryName
  <2>2. PrimaryGood'
    <3>1. PrimaryNow(n) \in PrimaryRecord /\ PrimaryNow(n).node # None
      BY <2>1, PrimaryNowGood
    <3>2. \A m \in Nodes : PrimaryNow(n).node = m =>
            Tells(a, PrimaryNow(n).generation, PrimaryNow(n).inTenure,
                  OwnerOf(m), generation[m])
      BY <2>1, PrimaryNowGood
    <3> QED
      BY <2>1, <3>1, <3>2, PrimaryWritten
  <2>3. ChosenGood'
    BY <2>1, PrimaryNowGood DEF RecordsInv, PrimaryGood, ChosenGood
  <2> QED
    BY <2>1, <2>2, <2>3, AddressesStay, TextsStay DEF RecordsInv
<1>5. ASSUME NEW a \in Accounts, ClearPrimaryName(a)
      PROVE  RecordsInv'
  <2>1. /\ primary' = [primary EXCEPT ![a] = NoPrimary]
        /\ chosen' = [chosen EXCEPT ![a] = None]
        /\ UNCHANGED registryVars
        /\ UNCHANGED <<addresses, texts, legacyRoutesImported>>
    BY <1>5 DEF ClearPrimaryName
  <2>2. NoPrimary \in PrimaryRecord /\ NoPrimary.node = None
    BY BoundsAssumption DEF NoPrimary, PrimaryRecord
  <2>3. PrimaryGood'
    BY <2>1, <2>2, PrimaryWritten, NoneAssumption
  <2>4. ChosenGood'
    BY <2>1 DEF RecordsInv, PrimaryGood, ChosenGood
  <2> QED
    BY <2>1, <2>3, <2>4, AddressesStay, TextsStay DEF RecordsInv
<1> QED
  BY <1>1, <1>2, <1>3, <1>4, <1>5 DEF RecordStep

\* The import writes every chain of a name at once, for its present owner.
LEMMA RoutesWritten ==
  ASSUME RegistryInv, RecordsInv, NEW a \in Accounts, NEW n \in Nodes,
         NEW routes \in [Chains \ {DefaultChain} -> Accounts \cup {None}],
         ImportLegacyRoutes(n, a, routes)
  PROVE  RecordsInv'
<1> DEFINE row == [chain \in Chains |->
                     IF chain \in DOMAIN routes /\ routes[chain] # None
                     THEN [target |-> routes[chain], stamp |-> StampNow(a, n)]
                     ELSE addresses[n][chain]]
<1>1. /\ addresses' = [addresses EXCEPT ![n] = row]
      /\ UNCHANGED registryVars /\ UNCHANGED <<texts, primary, chosen>>
      /\ legacyRoutesImported' = [legacyRoutesImported EXCEPT ![n] = TRUE]
      /\ OwnerOf(n) = a /\ generation[n] # 0
  BY DEF ImportLegacyRoutes
<1>2. ASSUME NEW chain \in Chains
      PROVE  AddressGood(row[chain], OwnerOf(n), generation[n])
  <2>1. CASE chain \in DOMAIN routes /\ routes[chain] # None
    <3>1. routes[chain] \in Accounts \cup {None}
      BY <2>1
    <3>2. AddressGood([target |-> routes[chain], stamp |-> StampNow(a, n)],
                      OwnerOf(n), generation[n])
      BY <1>1, <2>1, <3>1, AddressNow
    <3> QED
      BY <2>1, <3>2
  <2>2. CASE ~(chain \in DOMAIN routes /\ routes[chain] # None)
    BY <2>2 DEF RecordsInv, AddressesGood
  <2> QED
    BY <2>1, <2>2
<1>3. row \in [Chains -> AddressRecord]
  <2>1. \A chain \in Chains : row[chain] \in AddressRecord
    BY <1>2 DEF AddressGood
  <2> QED
    BY <2>1
<1> HIDE DEF row
<1>4. addresses' \in [Nodes -> [Chains -> AddressRecord]]
  BY <1>1, <1>3 DEF RecordsInv, AddressesGood
<1>5. ASSUME NEW m \in Nodes, NEW chain \in Chains
      PROVE  AddressGood(addresses'[m][chain], OwnerOf(m), generation[m])
  <2>1. CASE m = n
    BY <1>1, <1>2, <2>1 DEF RecordsInv, AddressesGood
  <2>2. CASE m # n
    BY <1>1, <2>2 DEF RecordsInv, AddressesGood
  <2> QED
    BY <2>1, <2>2
<1>6. AddressesGood'
  BY <1>1, <1>4, <1>5, SameOwners DEF AddressesGood
<1> QED
  BY <1>1, <1>6, TextsStay, PrimaryStays DEF RecordsInv

LEMMA ImportStepKeeps ==
  ASSUME RegistryInv, RecordsInv, ImportStep
  PROVE  RecordsInv'
<1>1. ASSUME NEW a \in Accounts, NEW n \in Nodes, InitializePrimaryName(a, n)
      PROVE  RecordsInv'
  <2>1. /\ primary' = [primary EXCEPT ![a] = PrimaryNow(n)]
        /\ UNCHANGED registryVars
        /\ UNCHANGED <<addresses, texts, legacyRoutesImported, chosen>>
        /\ MayWrite(a, n) /\ ~IsPrimaryActive(a, primary[a])
    BY <1>1 DEF InitializePrimaryName
  <2>2. PrimaryGood'
    <3>1. PrimaryNow(n) \in PrimaryRecord /\ PrimaryNow(n).node # None
      BY <2>1, PrimaryNowGood
    <3>2. \A m \in Nodes : PrimaryNow(n).node = m =>
            Tells(a, PrimaryNow(n).generation, PrimaryNow(n).inTenure,
                  OwnerOf(m), generation[m])
      BY <2>1, PrimaryNowGood
    <3> QED
      BY <2>1, <3>1, <3>2, PrimaryWritten
  <2>3. chosen[a] = None
    BY <2>1, InactiveNotChosen
  <2>4. ChosenGood'
    BY <2>1, <2>3 DEF RecordsInv, PrimaryGood, ChosenGood
  <2> QED
    BY <2>1, <2>2, <2>4, AddressesStay, TextsStay DEF RecordsInv
<1> QED
  BY <1>1, RoutesWritten DEF ImportStep

\* Registry V3 moves in the composed system only by its own steps.
LEMMA RegistryMoves ==
  [ResolverNext]_resolverVars => [Next]_registryVars
<1>1. RecordStep => UNCHANGED registryVars
  BY DEF RecordStep, SetAddress, ClearAddress, SetText, SetPrimaryName,
         ClearPrimaryName
<1>2. ImportStep => UNCHANGED registryVars
  BY DEF ImportStep, ImportLegacyRoutes, InitializePrimaryName
<1>3. RegistryStep => Next
  BY DEF RegistryStep
<1>4. UNCHANGED resolverVars => UNCHANGED registryVars
  BY DEF resolverVars
<1> QED
  BY <1>1, <1>2, <1>3, <1>4 DEF ResolverNext

LEMMA RegistryKeptByNext ==
  RegistryInv /\ [Next]_registryVars => RegistryInv'
BY NextType, NextNames, NextAnchored DEF RegistryInv

LEMMA ResolverNextInv ==
  ResolverInv /\ [ResolverNext]_resolverVars => ResolverInv'
<1> SUFFICES ASSUME ResolverInv, [ResolverNext]_resolverVars
             PROVE  ResolverInv'
  OBVIOUS
<1>1. RegistryInv /\ RecordsInv
  BY DEF ResolverInv
<1>2. RegistryInv'
  BY <1>1, RegistryMoves, RegistryKeptByNext
<1>3. CASE RegistryStep
  BY <1>1, <1>2, <1>3, RecordsAge DEF RegistryStep, ResolverInv
<1>4. CASE RecordStep
  BY <1>1, <1>2, <1>4, RecordStepKeeps DEF ResolverInv
<1>5. CASE ImportStep
  BY <1>1, <1>2, <1>5, ImportStepKeeps DEF ResolverInv
<1>6. CASE UNCHANGED resolverVars
  <2>1. UNCHANGED registryVars /\ UNCHANGED recordVars
    BY <1>6 DEF resolverVars
  <2> QED
    BY <1>1, <1>2, <2>1, AddressesStay, TextsStay, PrimaryStays
    DEF recordVars, RecordsInv, ResolverInv
<1> QED
  BY <1>3, <1>4, <1>5, <1>6 DEF ResolverNext

LEMMA ResolverInvariant == ResolverSpec => []ResolverInv
BY ResolverInitInv, ResolverNextInv, PTL DEF ResolverSpec

-----------------------------------------------------------------------------
(* What follows for a reader of the records *)

\* Every variable of the resolver keeps its type, an erased record keeps no
\* stamp, and no stamp is of a generation yet to come.
THEOREM ResolverTypesKept == ResolverSpec => []ResolverTypeOK
<1>1. ResolverInv => ResolverTypeOK
  <2> SUFFICES ASSUME ResolverInv PROVE ResolverTypeOK
    OBVIOUS
  <2>1. ASSUME NEW n \in Nodes, NEW chain \in Chains
        PROVE  /\ addresses[n][chain].target = None
                    <=> addresses[n][chain].stamp = NoStamp
               /\ addresses[n][chain].stamp.generation <= generation[n]
    <3> DEFINE d == addresses[n][chain]
    <3>1. AddressGood(d, OwnerOf(n), generation[n]) /\ generation[n] \in Nat
      BY BoundsAssumption
      DEF ResolverInv, RecordsInv, AddressesGood, RegistryInv, TypeOK
    <3> HIDE DEF d
    <3>2. CASE d.target = None
      <4>1. d.stamp = NoStamp /\ d.stamp.generation = 0
        BY <3>1, <3>2 DEF AddressGood, NoAddress, NoStamp
      <4> QED
        BY <3>1, <3>2, <4>1 DEF d
    <3>3. CASE d.target # None
      <4>1. d.stamp.generation \in 1 .. generation[n]
        BY <3>1, <3>3 DEF AddressGood, Tells
      <4>2. d.stamp # NoStamp
        BY <3>1, <4>1 DEF NoStamp
      <4> QED
        BY <3>1, <3>3, <4>1, <4>2 DEF d
    <3> QED
      BY <3>2, <3>3
  <2> QED
    BY <2>1 DEF ResolverInv, RecordsInv, AddressesGood, TextsGood,
                PrimaryGood, ChosenGood, ResolverTypeOK
<1> QED
  BY <1>1, ResolverInvariant, PTL

\* The invariant says of addresses and texts what their readers are told.
LEMMA RecordsTellTenure == ResolverInv => RecordsLiveExactlyInTenure
<1> SUFFICES ASSUME ResolverInv PROVE RecordsLiveExactlyInTenure
  OBVIOUS
<1>1. ASSUME NEW n \in Nodes, NEW chain \in Chains
      PROVE  AddressActive(n, chain) <=>
               /\ addresses[n][chain].target # None
               /\ addresses[n][chain].stamp.inTenure
  BY DEF ResolverInv, RecordsInv, AddressesGood, AddressGood, Tells,
         AddressActive, StampHolds
<1>2. ASSUME NEW n \in Nodes, NEW key \in Keys
      PROVE  TextActive(n, key) <=>
               texts[n][key].value # None /\ texts[n][key].stamp.inTenure
  BY DEF ResolverInv, RecordsInv, TextsGood, TextGood, Tells,
         TextActive, StampHolds
<1> QED
  BY <1>1, <1>2 DEF RecordsLiveExactlyInTenure

\* An account's primary name is active exactly in tenure.
LEMMA PrimaryActive ==
  ASSUME ResolverInv, NEW a \in Accounts
  PROVE  IsPrimaryActive(a, primary[a])
           <=> primary[a].node # None /\ primary[a].inTenure
<1>1. primary[a].node \in Nodes \cup {None} /\ a # None
  BY NoneAssumption DEF ResolverInv, RecordsInv, PrimaryGood, PrimaryRecord
<1>2. CASE primary[a].node = None
  BY <1>2 DEF IsPrimaryActive
<1>3. ASSUME NEW n \in Nodes, primary[a].node = n
      PROVE  IsPrimaryActive(a, primary[a])
               <=> primary[a].node # None /\ primary[a].inTenure
  <2>1. Tells(a, primary[a].generation, primary[a].inTenure, OwnerOf(n),
              generation[n])
    BY <1>3 DEF ResolverInv, RecordsInv, PrimaryGood
  <2> QED
    BY <1>1, <1>3, <2>1, NoneAssumption DEF IsPrimaryActive, Tells
<1> QED
  BY <1>1, <1>2, <1>3

LEMMA PrimaryTellsTenure == ResolverInv => PrimaryLiveExactlyInTenure
BY PrimaryActive DEF PrimaryLiveExactlyInTenure, PrimaryOf

LEMMA ChoicesShown == ResolverInv => OwnChoiceStands
<1> SUFFICES ASSUME ResolverInv, NEW a \in Accounts, chosen[a] # None
             PROVE  PrimaryOf(a) = chosen[a]
  BY DEF OwnChoiceStands
<1>1. primary[a].node = chosen[a] /\ primary[a].inTenure
  BY DEF ResolverInv, RecordsInv, ChosenGood
<1> QED
  BY <1>1, PrimaryActive DEF PrimaryOf

\* addressFor and text answer from a record exactly while the ownership it was
\* written under lasts.
THEOREM RecordsLiveInTenure == ResolverSpec => []RecordsLiveExactlyInTenure
BY RecordsTellTenure, ResolverInvariant, PTL

\* primaryNames shows a primary name exactly while it is owned without
\* interruption.
THEOREM PrimaryLivesInTenure == ResolverSpec => []PrimaryLiveExactlyInTenure
BY PrimaryTellsTenure, ResolverInvariant, PTL

\* setPrimaryName's choice is never displaced by initializePrimaryName.
THEOREM OwnChoicesStand == ResolverSpec => []OwnChoiceStands
BY ChoicesShown, ResolverInvariant, PTL
=============================================================================
