------------------------------- MODULE MCPayments -------------------------------
(* The invoices of ARCOX Pay and the agent cards, for TLC.  They share no      *)
(* state, so that a behaviour moves one of them, chosen at the start.          *)
EXTENDS PayInvoice, Cards, TLC

CONSTANTS i1, i2, t1, deposited, minted, d1, d2, m1

TwoInvoices == {i1, i2}
OneTx == {t1}
PaysFirst == {<<t1, i1>>}
TwoNotices == {deposited, minted}
Events == (deposited :> "deposit") @@ (minted :> "mint")
(* The deposit refers to the invoice, the mint to the invoice as well.       *)
References == (deposited :> i1) @@ (minted :> i1)
Hashes == (deposited :> NoTx) @@ (minted :> t1)
TwoDeliveries == {d1, d2}
OnePayment == {m1}
Asked == {"cancelled"}
Symmetry == Permutations(TwoDeliveries)

VARIABLE paymentPart
paymentVars == <<vars, cardVars, paymentPart>>

PaymentInit ==
  /\ Init /\ CardsInit
  /\ paymentPart \in {"invoices", "cards"}
  /\ paymentPart = "invoices" => onchainMode
  /\ paymentPart = "cards" => enabled

PaymentNext ==
  /\ UNCHANGED paymentPart
  /\ \/ paymentPart = "invoices" /\ Next /\ UNCHANGED cardVars
     \/ paymentPart = "cards" /\ CardsNext /\ UNCHANGED vars

PaymentSpec == PaymentInit /\ [][PaymentNext]_paymentVars
=================================================================================
