--------------------------- MODULE SettlementLedger ---------------------------
(***************************************************************************)
(* What the x402 payment subsystem promises, whatever way it learns about  *)
(* payments: a bill is issued once and keeps its payer and its price, money *)
(* arrives on an append-only ledger, and a bill is settled only by a        *)
(* transfer of exactly its price that has already arrived.  A settled bill  *)
(* stays settled; a later reconciliation may only point it to another       *)
(* transfer that would have settled it as well.                             *)
(***************************************************************************)
EXTENDS Integers, Sequences

CONSTANTS
  Bills,    \* identifiers bills can be issued under
  Payers,   \* wallets bills are issued to
  NotIssued \* the content of a bill nobody has issued

VARIABLES
  bill,     \* [Bills -> NotIssued or the payer and the price]
  received, \* sequence of the amounts received, in order of arrival
  proof     \* [Bills -> position in received of what settled it, 0 if nothing]

ledgerVars == <<bill, received, proof>>

LedgerInit ==
  /\ bill = [b \in Bills |-> NotIssued]
  /\ received = << >>
  /\ proof = [b \in Bills |-> 0]

Issue(b) ==
  /\ bill[b] = NotIssued
  /\ bill'[b] \in [payer : Payers, price : Nat \ {0}]
  /\ bill' = [bill EXCEPT ![b] = bill'[b]]
  /\ UNCHANGED <<received, proof>>

Receive ==
  /\ Len(received') = Len(received) + 1
  /\ received' = Append(received, received'[Len(received) + 1])
  /\ UNCHANGED <<bill, proof>>

Settle(b) ==
  /\ bill[b] # NotIssued
  /\ \E t \in DOMAIN received :
       /\ received[t] = bill[b].price
       /\ proof' = [proof EXCEPT ![b] = t]
  /\ UNCHANGED <<bill, received>>

LedgerNext ==
  \/ \E b \in Bills : Issue(b) \/ Settle(b)
  \/ Receive

LedgerSpec == LedgerInit /\ [][LedgerNext]_ledgerVars
===============================================================================
