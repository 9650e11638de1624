------------------------------ MODULE FeeRecords ------------------------------
(***************************************************************************)
(* What the server promises about forwarding fees already paid, whatever   *)
(* its requests do between their database statements: a fee is put on      *)
(* record once it is verified, is tied to at most one burn, which is a     *)
(* successful forwarded one tied to no other fee, and stays tied until its *)
(* record is let go.  ForwardingRecovery implements it; the browser's      *)
(* side, UsdcTransfer, is composed with it.                                *)
(***************************************************************************)
EXTENDS UsdcChain

CONSTANT None

ASSUME NoneAssumption == None \notin Fees \cup Burns

VARIABLES
  held,   \* the fees on record
  tied    \* the burn each fee was used with

recordVars == <<held, tied>>
feeRecordsVars == <<chainVars, recordVars>>

\* POST "register" of a verified fee, by whoever asks.
Record(f) ==
  /\ FeeVerified(f)
  /\ held' = held \cup {f}
  /\ UNCHANGED tied

\* POST "consume"
Tie(f, b) ==
  /\ f \in held /\ BurnVerified(b)
  /\ tied[f] = None /\ \A g \in Fees : tied[g] # b
  /\ tied' = [tied EXCEPT ![f] = b]
  /\ UNCHANGED held

\* Records past their seven days go, and take their tie with them.
Release(fees) ==
  /\ held' = held \ fees
  /\ tied' = [f \in Fees |-> IF f \in fees THEN None ELSE tied[f]]

RecordsInit ==
  held = {} /\ tied = [f \in Fees |-> None]

ChainStep ==
  \/ \E f \in Fees : SendFee(f) \/ MineFee(f)
  \/ \E b \in Burns :
       (\E kind \in Kinds \ {"none"} : SendBurn(b, kind)) \/ MineBurn(b)

FeeRecordsInit == ChainInit /\ RecordsInit
FeeRecordsNext ==
  \/ ChainStep /\ UNCHANGED recordVars
  \/ /\ \/ \E f \in Fees : Record(f) \/ \E b \in Burns : Tie(f, b)
        \/ \E fees \in SUBSET held : Release(fees)
     /\ UNCHANGED chainVars

FeeRecordsSpec == FeeRecordsInit /\ [][FeeRecordsNext]_feeRecordsVars
=============================================================================
