------------------------- MODULE X402InvoiceRefinement -------------------------
(***************************************************************************)
(* X402Invoice implements SettlementLedger if file writes do not fail.      *)
(*                                                                          *)
(* Then the file is a copy of the map (Mirrored), a restart changes nothing *)
(* the ledger can see, and every other step is one of the steps that        *)
(* X402InvoiceProofs distinguishes: a quiet one is a stutter of the ledger, *)
(* a payment is its Settle.                                                 *)
(***************************************************************************)
EXTENDS X402InvoiceProofs, SequenceTheorems

Mirrored == file = inv

LedgerStep == [Ledger!LedgerNext]_(Ledger!ledgerVars)

(* The ledger's view of the whole store. *)
Bill(db) == [i \in Invoices |-> BillOf(db[i])]
Proof(db) == [i \in Invoices |-> ProofOf(db[i])]
Received(c) == [t \in DOMAIN c |-> c[t].amount]

(* A record that follows another looks the same to the ledger. *)
LEMMA FollowsLooksTheSame ==
  ASSUME NEW r, NEW q, Follows(q, r)
  PROVE  BillOf(q) = BillOf(r) /\ ProofOf(q) = ProofOf(r)
  BY NoInvoiceAssumption DEF Follows, BillOf, ProofOf

(* A paid record keeps its bill and shows its proof. *)
LEMMA PaidShows ==
  ASSUME NEW r \in Invoice, NEW t \in TransferIds
  PROVE  BillOf(Paid(r, t)) = BillOf(r) /\ ProofOf(Paid(r, t)) = t
<1>1. Paid(r, t) \in Invoice /\ Paid(r, t).status = "paid" /\ Paid(r, t).txHash = t
      /\ Paid(r, t).ownerWallet = r.ownerWallet /\ Paid(r, t).amount = r.amount
  BY StatusNames DEF Paid, Invoice
<1> QED BY <1>1, NoInvoiceAssumption DEF BillOf, ProofOf

(* A quiet step of the store is a stutter of the ledger. *)
LEMMA QuietStutters ==
  ASSUME IInv, Quiet, chain' = chain
  PROVE  LedgerStep
<1>1. Bill(inv') = Bill(inv) /\ Proof(inv') = Proof(inv)
  <2>1. CASE UNCHANGED <<inv, file>>
    BY <2>1
  <2>2. ASSUME NEW db, Calm(db), Save(db)
        PROVE  Bill(inv') = Bill(inv) /\ Proof(inv') = Proof(inv)
    BY <2>2, FollowsLooksTheSame DEF Calm, Save, Bill, Proof
  <2> QED BY <2>1, <2>2 DEF Quiet
<1> QED BY <1>1 DEF LedgerStep, Ledger!ledgerVars, Bill, Proof

(* A payment with evidence is a Settle of the ledger. *)
LEMMA PaysSettles ==
  ASSUME IInv, NEW i \in Invoices, NEW t \in DOMAIN chain, Pays(i, t), chain' = chain
  PROVE  LedgerStep
<1>1. PICK db : PaysWith(db, i, t) /\ Save(db)
  BY DEF Pays
<1>2. t \in TransferIds /\ inv[i] \in Invoice /\ inv[i] # NoInvoice
  BY <1>1, ChainIds, NoInvoiceAssumption DEF PaysWith, IInv
<1>3. inv' = db /\ db[i] = Paid(inv[i], t)
      /\ \A j \in Invoices \ {i} : Follows(db[j], inv[j])
  BY <1>1 DEF PaysWith, Save
<1>4. BillOf(db[i]) = BillOf(inv[i]) /\ ProofOf(db[i]) = t
  BY <1>2, <1>3, PaidShows
<1>5. \A j \in Invoices \ {i} : BillOf(db[j]) = BillOf(inv[j]) /\ ProofOf(db[j]) = ProofOf(inv[j])
  BY <1>3, FollowsLooksTheSame
<1>6. Bill(inv') = Bill(inv) /\ Proof(inv') = [Proof(inv) EXCEPT ![i] = t]
  BY <1>3, <1>4, <1>5 DEF Bill, Proof
<1>7. Bill(inv)[i] # NoInvoice /\ Bill(inv)[i].price = inv[i].amount
  <2>1. inv[i].ownerWallet \in Owners /\ inv[i].amount \in Amounts
    BY <1>2 DEF Invoice
  <2>2. Bill(inv)[i] = [payer |-> inv[i].ownerWallet, price |-> inv[i].amount]
    BY <1>2 DEF Bill, BillOf
  <2> QED BY <2>1, <2>2, NoInvoiceAssumption
<1>8. t \in DOMAIN Received(chain) /\ Received(chain)[t] = inv[i].amount
  BY <1>1 DEF PaysWith, Evidence, Received
<1>9. Ledger!Settle(i)
  BY <1>6, <1>7, <1>8 DEF Ledger!Settle, Bill, Proof, Received
<1> QED BY <1>9 DEF LedgerStep, Ledger!LedgerNext

(* Creating an invoice issues a bill. *)
LEMMA CreateIssues ==
  ASSUME IInv, NEW i \in Invoices, NEW o \in Owners, NEW base \in BasePrices,
         CreateInvoice(i, o, base)
  PROVE  LedgerStep
<1>1. counter' \in 1 .. UniqueRange
  BY NextUniqueInRange DEF CreateInvoice, IInv, TypeOK
<1>2. PICK t \in 0 .. Len(chain) :
        inv' = [inv EXCEPT ![i] = NewInvoice(o, base + counter', t)]
  BY DEF CreateInvoice, Save
<1> DEFINE r == NewInvoice(o, base + counter', t)
           order == [payer |-> o, price |-> base + counter']
<1>3. r \in Invoice /\ r.status = "payment_required" /\ r.ownerWallet = o
      /\ r.amount = base + counter'
  BY <1>1, NewInvoiceGood DEF IInv
<1>4. inv[i] = NoInvoice /\ chain' = chain /\ inv' = [inv EXCEPT ![i] = r]
  BY <1>2 DEF CreateInvoice
<1> HIDE DEF r
<1>5. BillOf(r) = order /\ ProofOf(r) = 0
  BY <1>3, NoInvoiceAssumption DEF BillOf, ProofOf
<1>6. Bill(inv)[i] = NoInvoice /\ Proof(inv)[i] = 0
  BY <1>4 DEF Bill, Proof, BillOf, ProofOf
<1>7. Bill(inv') = [Bill(inv) EXCEPT ![i] = order] /\ Proof(inv') = Proof(inv)
  BY <1>4, <1>5, <1>6 DEF Bill, Proof, IInv, TypeOK
<1>8. order \in [payer : Owners, price : Nat \ {0}]
  <2>1. base \in Nat \ {0} /\ counter' \in Nat
    BY <1>1, PricesAssumption, LimitsAssumption
  <2>2. \A b \in Nat \ {0}, c \in Nat : b + c \in Nat \ {0}
    OBVIOUS
  <2>3. base + counter' \in Nat \ {0}
    BY <2>1, <2>2
  <2> QED BY <2>3
<1>9. Bill(inv')[i] = order
  BY <1>7 DEF Bill
<1> HIDE DEF order
<1>10. Ledger!Issue(i)
  BY <1>4, <1>6, <1>7, <1>8, <1>9 DEF Ledger!Issue, Bill, Proof
<1> QED BY <1>10 DEF LedgerStep, Ledger!LedgerNext

(* The ledger receives as many amounts as there are transfers. *)
LEMMA ReceivedSeq ==
  ASSUME NEW c \in Seq(Transfer)
  PROVE  Received(c) \in Seq(Amounts) /\ Len(Received(c)) = Len(c)
<1>1. Len(c) \in Nat /\ DOMAIN c = 1 .. Len(c) /\ c \in [1 .. Len(c) -> Transfer]
  BY LenProperties
<1>2. Received(c) \in [1 .. Len(c) -> Amounts]
  BY <1>1 DEF Received, Transfer
<1>3. Received(c) \in Seq(Amounts)
  BY <1>1, <1>2, SeqDef
<1>4. DOMAIN Received(c) = 1 .. Len(Received(c)) /\ Len(Received(c)) \in Nat
  BY <1>3, LenProperties
<1>5. DOMAIN Received(c) = 1 .. Len(c)
  BY <1>2
<1>6. ASSUME NEW m \in Nat, NEW n \in Nat, 1 .. m = 1 .. n
      PROVE  m = n
  <2>1. m # 0 => m \in 1 .. n
    BY <1>6
  <2>2. n # 0 => n \in 1 .. m
    BY <1>6
  <2> QED BY <2>1, <2>2
<1> QED BY <1>1, <1>3, <1>4, <1>5, <1>6

(* A transfer that becomes final is received. *)
LEMMA TransferReceives ==
  ASSUME IInv, NEW kind \in Methods, NEW w \in Wallets, NEW amount \in Amounts,
         TransferFinal(kind, w, amount)
  PROVE  LedgerStep
<1> DEFINE x == [kind |-> kind, from |-> w, amount |-> amount]
<1>1. chain \in Seq(Transfer) /\ x \in Transfer /\ chain' = Append(chain, x) /\ inv' = inv
  BY DEF TransferFinal, Transfer, IInv, TypeOK
<1>2. Received(chain) \in Seq(Amounts) /\ Len(Received(chain)) = Len(chain)
  BY <1>1, ReceivedSeq
<1>3. x.amount = amount
  OBVIOUS
<1> HIDE DEF x
<1>4. Len(chain') = Len(chain) + 1 /\ chain'[Len(chain) + 1] = x
      /\ \A t \in 1 .. Len(chain) : chain'[t] = chain[t]
  BY <1>1
<1>5. Received(chain') \in Seq(Amounts) /\ Len(Received(chain')) = Len(chain) + 1
  <2>1. chain' \in Seq(Transfer)
    BY <1>1
  <2> QED BY <1>4, <2>1, ReceivedSeq
<1>6. Received(chain') = Append(Received(chain), amount)
      /\ Received(chain')[Len(chain) + 1] = amount
  BY <1>1, <1>2, <1>3, <1>4, <1>5 DEF Received
<1>7. Ledger!Receive
  BY <1>1, <1>2, <1>5, <1>6 DEF Ledger!Receive, Received
<1> QED BY <1>7 DEF LedgerStep, Ledger!LedgerNext

(* Every step of the store is a step or a stutter of the ledger. *)
LEMMA NextLedgerStep ==
  ASSUME IInv, Mirrored, [Next]_vars
  PROVE  LedgerStep
<1>1. ASSUME chain' = chain, Quiet \/ \E i \in Invoices, t \in DOMAIN chain : Pays(i, t)
      PROVE  LedgerStep
  BY <1>1, QuietStutters, PaysSettles
<1>2. ASSUME UNCHANGED <<inv, file, chain>> PROVE LedgerStep
  BY <1>1, <1>2 DEF Quiet
<1>3. ASSUME NEW i \in Invoices, NEW o \in Owners, NEW base \in BasePrices,
             CreateInvoice(i, o, base)
      PROVE  LedgerStep
  BY <1>3, CreateIssues
<1>4. ASSUME NEW i \in Invoices, TimePasses(i) PROVE LedgerStep
  BY <1>2, <1>4 DEF TimePasses
<1>5. ASSUME NEW i \in Invoices, Estimate(i) PROVE LedgerStep
  BY <1>1, <1>5, EstimateQuiet DEF Estimate
<1>6. ASSUME NEW i \in Invoices, NEW t \in TransferIds, SpendSubmitted(i, t) PROVE LedgerStep
  BY <1>1, <1>6, SpendSubmittedQuiet DEF SpendSubmitted
<1>7. ASSUME NEW i \in Invoices, NEW p \in Pollers, ReconcileStart(p, i) PROVE LedgerStep
  BY <1>1, <1>7, SaveRefreshedQuiet DEF ReconcileStart
<1>8. ASSUME NEW p \in Pollers, ReconcileGateway(p) PROVE LedgerStep
  BY <1>1, <1>8, ReconcileGatewayStep DEF ReconcileGateway, Quiet
<1>9. ASSUME NEW p \in Pollers, ReconcileLogs(p) PROVE LedgerStep
  BY <1>1, <1>9, ReconcileLogsStep DEF ReconcileLogs, Quiet
<1>10. ASSUME NEW t \in TransferIds, Webhook(t) PROVE LedgerStep
  BY <1>1, <1>10, WebhookStep DEF Webhook
<1>11. ASSUME NEW kind \in Methods, NEW w \in Wallets, NEW amount \in Amounts,
              TransferFinal(kind, w, amount)
       PROVE  LedgerStep
  BY <1>11, TransferReceives
<1>12. CASE Restart
  BY <1>2, <1>12 DEF Restart, Mirrored
<1>13. CASE UNCHANGED vars
  BY <1>2, <1>13 DEF vars
<1> QED BY <1>3, <1>4, <1>5, <1>6, <1>7, <1>8, <1>9, <1>10, <1>11, <1>12, <1>13 DEF Next

(* With reliable writes the file is a copy of the map. *)
LEMMA MirroredKept ==
  ASSUME DiskOutcomes \subseteq {TRUE}, Mirrored, [Next]_vars
  PROVE  Mirrored'
<1>1. ASSUME NEW db, Save(db) PROVE Mirrored'
  BY <1>1 DEF Save, Mirrored
<1>2. ASSUME UNCHANGED <<inv, file>> PROVE Mirrored'
  BY <1>2 DEF Mirrored
<1>3. ASSUME NEW S, SaveRefreshed(S) PROVE Mirrored'
  BY <1>1, <1>2, <1>3 DEF SaveRefreshed
<1>4. ASSUME NEW i, NEW o, NEW base, CreateInvoice(i, o, base) PROVE Mirrored'
  BY <1>1, <1>4 DEF CreateInvoice
<1>5. ASSUME NEW i, Estimate(i) PROVE Mirrored'
  BY <1>1, <1>3, <1>5 DEF Estimate
<1>6. ASSUME NEW i, NEW t, SpendSubmitted(i, t) PROVE Mirrored'
  BY <1>1, <1>3, <1>6 DEF SpendSubmitted
<1>7. ASSUME NEW i, NEW p, ReconcileStart(p, i) PROVE Mirrored'
  BY <1>3, <1>7 DEF ReconcileStart
<1>8. ASSUME NEW p, ReconcileGateway(p) \/ ReconcileLogs(p) PROVE Mirrored'
  BY <1>1, <1>2, <1>8 DEF ReconcileGateway, ReconcileLogs, Pay
<1>9. ASSUME NEW t, Webhook(t) PROVE Mirrored'
  BY <1>1, <1>3, <1>9 DEF Webhook
<1>10. CASE Restart
  BY <1>10 DEF Restart, Mirrored
<1> QED BY <1>2, <1>4, <1>5, <1>6, <1>7, <1>8, <1>9, <1>10
        DEF Next, TimePasses, TransferFinal, vars

(* The initial store is the empty ledger. *)
LEMMA InitLedger == Init => Ledger!LedgerInit
  BY DEF Init, Ledger!LedgerInit, BillOf, ProofOf

(* The invoice store implements the ledger: for all invoices, transfers,     *)
(* requests and restarts, a settled invoice stays settled, by transfers of   *)
(* exactly its price that had arrived before - if file writes succeed.       *)
THEOREM SpecImplementsLedger ==
  ASSUME DiskOutcomes \subseteq {TRUE}
  PROVE  Spec => ImplementsLedger
<1>1. Init => Mirrored
  BY DEF Init, Mirrored
<1>2. Mirrored /\ [Next]_vars => Mirrored'
  BY MirroredKept
<1>3. IInv /\ Mirrored /\ [Next]_vars => [Ledger!LedgerNext]_(Ledger!ledgerVars)
  BY NextLedgerStep DEF LedgerStep
<1> QED BY <1>1, <1>2, <1>3, SpecIInv, InitLedger, PTL
        DEF Spec, ImplementsLedger, Ledger!LedgerSpec
================================================================================
