------------------------------- MODULE UsdcChain -------------------------------
(***************************************************************************)
(* What the chains know of a payment with automatic forwarding: the XDCID  *)
(* fee, an ordinary transfer of USDC, and the transaction that moves the   *)
(* payment itself.  The server and the browser read its receipts.          *)
(***************************************************************************)
CONSTANTS
  Fees,   \* hashes of convenience-fee transactions
  Burns   \* hashes of the source transactions that move the payment

VARIABLES
  feeTx,  \* what became of each fee transaction
  burnTx  \* kind and fate of each source transaction

chainVars == <<feeTx, burnTx>>

Kinds == {"none", "direct", "standard", "forwarded"}
Fates == {"unsent", "sent", "success", "reverted"}
BurnTx == [kind : Kinds, status : Fates]
UnsentBurn == [kind |-> "none", status |-> "unsent"]

\* verifyFeeTransaction: a successful receipt with the exact fee transfer.
FeeVerified(f) == feeTx[f] = "success"

\* verifyForwardedBurn: a successful receipt with the exact forwarding event.
BurnVerified(b) ==
  burnTx[b].kind = "forwarded" /\ burnTx[b].status = "success"

SendFee(f) ==
  /\ feeTx[f] = "unsent"
  /\ feeTx' = [feeTx EXCEPT ![f] = "sent"]
  /\ UNCHANGED burnTx

MineFee(f) ==
  /\ feeTx[f] = "sent"
  /\ \E fate \in {"success", "reverted"} : feeTx' = [feeTx EXCEPT ![f] = fate]
  /\ UNCHANGED burnTx

SendBurn(b, kind) ==
  /\ burnTx[b] = UnsentBurn
  /\ burnTx' = [burnTx EXCEPT ![b] = [kind |-> kind, status |-> "sent"]]
  /\ UNCHANGED feeTx

MineBurn(b) ==
  /\ burnTx[b].status = "sent"
  /\ \E fate \in {"success", "reverted"} :
       burnTx' = [burnTx EXCEPT ![b].status = fate]
  /\ UNCHANGED feeTx

ChainInit ==
  /\ feeTx = [f \in Fees |-> "unsent"]
  /\ burnTx = [b \in Burns |-> UnsentBurn]

ChainTypeOK == feeTx \in [Fees -> Fates] /\ burnTx \in [Burns -> BurnTx]
=============================================================================
