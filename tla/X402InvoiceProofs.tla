--------------------------- MODULE X402InvoiceProofs ---------------------------
(***************************************************************************)
(* Theorems about X402Invoice, for every value of its constants.            *)
(*                                                                          *)
(* The invariants are proved from one inductive invariant, IInv.  Every     *)
(* action but CreateInvoice and Restart changes the store in one of two     *)
(* ways, Quiet and Pays below; the lemmas about the actions establish which, *)
(* and both the invariance and the refinement follow from that.             *)
(***************************************************************************)
EXTENDS X402Invoice, FiniteSetTheorems, TLAPS

Database == [Invoices -> Invoice \cup {NoInvoice}]

(* What is true of every invoice, given the chain: a claimed Gateway transfer *)
(* makes it a gateway invoice, and a paid one has its evidence.               *)
GoodRecord(r, c) ==
  /\ r.spendTxHash # 0 => r.paymentMethod = "gateway"
  /\ r.status = "paid" =>
       /\ r.txHash \in DOMAIN c
       /\ c[r.txHash].amount = r.amount
       /\ r.paymentMethod = "direct" =>
            /\ c[r.txHash].kind = "direct"
            /\ c[r.txHash].from = r.ownerWallet
            /\ ~RpcMayFail => r.txHash > r.createdAt

Good(db, c) == \A i \in Invoices : db[i] # NoInvoice => GoodRecord(db[i], c)

(* A request waits only for an invoice of the map. *)
PollsCreated ==
  \A p \in Pollers : poll[p].stage # "idle" => inv[poll[p].invoice] # NoInvoice

IInv == TypeOK /\ Good(inv, chain) /\ Good(file, chain) /\ PollsCreated

(* Record q may follow record r without r being settled by the step. *)
Follows(q, r) ==
  \/ q = r
  \/ /\ r \in Invoice /\ q \in Invoice
     /\ q.ownerWallet = r.ownerWallet /\ q.amount = r.amount
     /\ r.status # "paid" /\ q.status # "paid"
     /\ q.status \in OpenStatuses => r.status \in OpenStatuses
     /\ q.spendTxHash # 0 => q.paymentMethod = "gateway"

(* t is what LogMatches, GatewayMatches and WebhookMatches look for. *)
Evidence(r, t) ==
  /\ t \in DOMAIN chain
  /\ chain[t].amount = r.amount
  /\ r.paymentMethod = "direct" =>
       /\ chain[t].kind = "direct"
       /\ chain[t].from = r.ownerWallet
       /\ ~RpcMayFail => t > r.createdAt

Calm(db) == db \in Database /\ \A i \in Invoices : Follows(db[i], inv[i])

PaysWith(db, i, t) ==
  /\ db \in Database
  /\ inv[i] \in Invoice /\ Evidence(inv[i], t)
  /\ db[i] = Paid(inv[i], t)
  /\ \A j \in Invoices \ {i} : Follows(db[j], inv[j])

Quiet == UNCHANGED <<inv, file>> \/ \E db : Calm(db) /\ Save(db)
Pays(i, t) == \E db : PaysWith(db, i, t) /\ Save(db)

--------------------------------------------------------------------------------
(* Lemmas about records. *)

(* The suffix is never 0 and never exceeds its range. *)
LEMMA NextUniqueInRange ==
  ASSUME NEW c \in 0 .. UniqueRange
  PROVE  NextUnique(c) \in 1 .. UniqueRange
  BY LimitsAssumption DEF NextUnique

(* How the sets of statuses lie in each other. *)
LEMMA StatusNames ==
  /\ OpenStatuses \subseteq Statuses /\ Statuses \subseteq SettlementStatuses
  /\ {"expired", "paid"} \subseteq Statuses \ OpenStatuses
  /\ {"payment_required", "estimate_ready", "settlement_pending"} = OpenStatuses
  /\ "recovery_required" \in SettlementStatuses
  BY DEF OpenStatuses, Statuses, SettlementStatuses

(* Setting both statuses gives an invoice. *)
LEMMA WithStatus ==
  ASSUME NEW r \in Invoice, NEW s \in Statuses, NEW q \in SettlementStatuses
  PROVE  [r EXCEPT !.status = s, !.settlementStatus = q] \in Invoice
  BY DEF Invoice

(* Looking at an invoice changes it quietly, whether or not it expires. *)
LEMMA RefreshedFollows ==
  ASSUME IInv, NEW i \in Invoices
  PROVE  /\ Refreshed(i) \in Invoice \cup {NoInvoice}
         /\ Follows(Refreshed(i), inv[i])
<1>1. CASE IsOpen(inv[i]) /\ i \in overdue
  <2>1. inv[i] \in Invoice /\ inv[i].status # "paid"
    BY <1>1, StatusNames DEF IsOpen, IInv, TypeOK
  <2> DEFINE q == IF inv[i].settlementStatus = "settlement_pending"
                  THEN "recovery_required" ELSE "expired"
             r == [inv[i] EXCEPT !.status = "expired", !.settlementStatus = q]
  <2>2. q \in SettlementStatuses
    BY StatusNames
  <2>3. Refreshed(i) = r
    BY <1>1 DEF Refreshed
  <2>4. r \in Invoice
    <3> HIDE DEF q
    <3> QED BY <2>1, <2>2, WithStatus, StatusNames
  <2>5. /\ r.status = "expired" /\ r.ownerWallet = inv[i].ownerWallet
        /\ r.amount = inv[i].amount /\ r.spendTxHash = inv[i].spendTxHash
        /\ r.paymentMethod = inv[i].paymentMethod
    BY <2>1 DEF Invoice
  <2>6. GoodRecord(inv[i], chain)
    BY <1>1 DEF IInv, Good, IsOpen
  <2> HIDE DEF r
  <2> QED BY <2>1, <2>3, <2>4, <2>5, <2>6, StatusNames DEF Follows, GoodRecord
<1>2. CASE ~(IsOpen(inv[i]) /\ i \in overdue)
  BY <1>2 DEF Refreshed, IInv, TypeOK, Follows
<1> QED BY <1>1, <1>2

(* An invoice that is open after the look is the one that was there. *)
LEMMA OpenUnchanged ==
  ASSUME IInv, NEW i \in Invoices, IsOpen(Refreshed(i))
  PROVE  /\ Refreshed(i) = inv[i] /\ inv[i] \in Invoice
         /\ inv[i].status # "paid" /\ inv[i].status \in OpenStatuses
<1>1. CASE IsOpen(inv[i]) /\ i \in overdue
  <2>1. inv[i] \in Invoice
    BY <1>1 DEF IsOpen, IInv, TypeOK
  <2>2. Refreshed(i).status = "expired"
    BY <1>1, <2>1 DEF Refreshed, Invoice
  <2> QED BY <2>2, StatusNames DEF IsOpen
<1>2. CASE ~(IsOpen(inv[i]) /\ i \in overdue)
  BY <1>2, StatusNames DEF Refreshed, IInv, TypeOK, IsOpen
<1> QED BY <1>1, <1>2

(* Looking at any set of invoices is quiet. *)
LEMMA RefreshCalm ==
  ASSUME IInv, NEW S
  PROVE  Calm(Refresh(S))
<1>1. \A i \in Invoices : Refresh(S)[i] = IF i \in S THEN Refreshed(i) ELSE inv[i]
  BY DEF Refresh
<1>2. \A i \in Invoices : /\ Refresh(S)[i] \in Invoice \cup {NoInvoice}
                          /\ Follows(Refresh(S)[i], inv[i])
  BY <1>1, RefreshedFollows DEF IInv, TypeOK, Follows
<1>3. Refresh(S) = [i \in Invoices |-> Refresh(S)[i]]
  BY DEF Refresh
<1> QED BY <1>2, <1>3 DEF Calm, Database

LEMMA SaveRefreshedQuiet ==
  ASSUME IInv, NEW S, SaveRefreshed(S)
  PROVE  Quiet
  BY RefreshCalm DEF SaveRefreshed, Quiet

(* A payment with evidence gives a good record of the same invoice. *)
LEMMA PaidGood ==
  ASSUME NEW r \in Invoice, NEW t \in TransferIds, Evidence(r, t),
         r.spendTxHash # 0 => r.paymentMethod = "gateway"
  PROVE  /\ Paid(r, t) \in Invoice /\ GoodRecord(Paid(r, t), chain)
         /\ Paid(r, t).status = "paid" /\ Paid(r, t).txHash = t
         /\ Paid(r, t).ownerWallet = r.ownerWallet /\ Paid(r, t).amount = r.amount
<1>1. /\ Paid(r, t).status = "paid" /\ Paid(r, t).txHash = t
      /\ Paid(r, t).ownerWallet = r.ownerWallet /\ Paid(r, t).amount = r.amount
      /\ Paid(r, t).paymentMethod = r.paymentMethod
      /\ Paid(r, t).createdAt = r.createdAt /\ Paid(r, t).spendTxHash = r.spendTxHash
  BY DEF Paid, Invoice
<1>2. Paid(r, t) \in Invoice
  BY StatusNames DEF Paid, Invoice
<1> QED BY <1>1, <1>2 DEF Evidence, GoodRecord

--------------------------------------------------------------------------------
(* Lemmas about the actions: each changes the store quietly or pays one       *)
(* invoice with evidence.                                                     *)

LEMMA ChainIds ==
  ASSUME TypeOK, NEW t \in DOMAIN chain
  PROVE  t \in TransferIds /\ t # 0 /\ chain[t] \in Transfer
  BY LimitsAssumption DEF TypeOK, TransferIds

LEMMA EstimateQuiet ==
  ASSUME IInv, NEW i \in Invoices, Estimate(i)
  PROVE  Quiet
<1>1. CASE IsOpen(Refreshed(i))
  <2> DEFINE r == [inv[i] EXCEPT !.status = "estimate_ready", !.settlementStatus = "estimate_ready"]
             db == [inv EXCEPT ![i] = r]
  <2>1. /\ inv[i] \in Invoice /\ inv[i].status # "paid" /\ inv[i].status \in OpenStatuses
        /\ GoodRecord(inv[i], chain)
    BY <1>1, OpenUnchanged, NoInvoiceAssumption DEF IInv, Good
  <2>2. r \in Invoice /\ r.status = "estimate_ready" /\ r.ownerWallet = inv[i].ownerWallet
        /\ r.amount = inv[i].amount /\ r.spendTxHash = inv[i].spendTxHash
        /\ r.paymentMethod = inv[i].paymentMethod
    BY <2>1, StatusNames DEF Invoice
  <2>3. Save(db)
    BY <1>1, <2>1 DEF Estimate, IInv, TypeOK
  <2>4. Follows(r, inv[i])
    BY <2>1, <2>2 DEF Follows, GoodRecord
  <2>5. Calm(db)
    <3> HIDE DEF r
    <3> QED BY <2>2, <2>4 DEF Calm, Database, IInv, TypeOK, Follows
  <2> HIDE DEF db
  <2> QED BY <2>3, <2>5 DEF Quiet
<1>2. CASE ~IsOpen(Refreshed(i))
  BY <1>2, SaveRefreshedQuiet DEF Estimate
<1> QED BY <1>1, <1>2

LEMMA SpendSubmittedQuiet ==
  ASSUME IInv, NEW i \in Invoices, NEW t \in TransferIds, SpendSubmitted(i, t)
  PROVE  Quiet
<1>1. CASE IsOpen(Refreshed(i))
  <2> DEFINE r == [inv[i] EXCEPT !.status = "settlement_pending",
                                 !.settlementStatus = "settlement_pending",
                                 !.paymentMethod = "gateway",
                                 !.spendTxHash = t]
             db == [inv EXCEPT ![i] = r]
  <2>1. inv[i] \in Invoice /\ inv[i].status # "paid" /\ inv[i].status \in OpenStatuses
    BY <1>1, OpenUnchanged
  <2>2. r \in Invoice /\ r.status = "settlement_pending" /\ r.ownerWallet = inv[i].ownerWallet
        /\ r.amount = inv[i].amount /\ r.paymentMethod = "gateway"
    BY <2>1, StatusNames DEF Invoice, Methods
  <2>3. Save(db)
    BY <1>1, <2>1 DEF SpendSubmitted, IInv, TypeOK
  <2>4. Follows(r, inv[i])
    BY <2>1, <2>2 DEF Follows
  <2>5. Calm(db)
    <3> HIDE DEF r
    <3> QED BY <2>2, <2>4 DEF Calm, Database, IInv, TypeOK, Follows
  <2> HIDE DEF db
  <2> QED BY <2>3, <2>5 DEF Quiet
<1>2. CASE ~IsOpen(Refreshed(i))
  BY <1>2, SaveRefreshedQuiet DEF SpendSubmitted
<1> QED BY <1>1, <1>2

(* Paying a created invoice with evidence is what Pays says. *)
LEMMA PayPays ==
  ASSUME IInv, NEW i \in Invoices, NEW t \in DOMAIN chain,
         inv[i] # NoInvoice, Evidence(inv[i], t), Pay(i, t)
  PROVE  Pays(i, t)
<1> DEFINE db == [inv EXCEPT ![i] = Paid(inv[i], t)]
<1>1. inv[i] \in Invoice /\ GoodRecord(inv[i], chain) /\ t \in TransferIds
  BY ChainIds DEF IInv, TypeOK, Good
<1>2. Paid(inv[i], t) \in Invoice
  BY <1>1, PaidGood DEF GoodRecord
<1>3. Save(db)
  BY DEF Pay
<1>4. PaysWith(db, i, t)
  BY <1>1, <1>2 DEF PaysWith, Database, IInv, TypeOK, Follows
<1> HIDE DEF db
<1> QED BY <1>3, <1>4 DEF Pays

LEMMA ReconcileGatewayStep ==
  ASSUME IInv, NEW p \in Pollers, ReconcileGateway(p)
  PROVE  UNCHANGED <<inv, file>> \/ \E i \in Invoices, t \in DOMAIN chain : Pays(i, t)
<1> DEFINE i == poll[p].invoice
           t == poll[p].transfer
<1>1. i \in Invoices /\ inv[i] # NoInvoice
  BY DEF ReconcileGateway, IInv, TypeOK, PollsCreated, Waiting, Idle
<1>2. CASE GatewayMatches(i, t) /\ Pay(i, t)
  <2>1. t \in DOMAIN chain /\ t # 0 /\ inv[i].paymentMethod = "gateway"
    BY <1>1, <1>2, ChainIds DEF GatewayMatches, IInv, Good, GoodRecord
  <2>2. Evidence(inv[i], t)
    BY <1>2, <2>1 DEF GatewayMatches, Evidence
  <2> QED BY <1>1, <1>2, <2>1, <2>2, PayPays
<1>3. CASE UNCHANGED <<inv, file>>
  BY <1>3
<1> QED BY <1>2, <1>3 DEF ReconcileGateway

LEMMA ReconcileLogsStep ==
  ASSUME IInv, NEW p \in Pollers, ReconcileLogs(p)
  PROVE  UNCHANGED <<inv, file>> \/ \E i \in Invoices, t \in DOMAIN chain : Pays(i, t)
<1> DEFINE i == poll[p].invoice
<1>1. i \in Invoices /\ inv[i] # NoInvoice
  BY DEF ReconcileLogs, IInv, TypeOK, PollsCreated, Waiting, Idle
<1>2. ASSUME NEW t \in DOMAIN chain, LogMatches(i, t), Pay(i, t)
      PROVE  Pays(i, t)
  BY <1>1, <1>2, PayPays DEF LogMatches, Evidence
<1> QED BY <1>1, <1>2 DEF ReconcileLogs

LEMMA WebhookStep ==
  ASSUME IInv, NEW t \in TransferIds, Webhook(t)
  PROVE  Quiet \/ \E i \in Invoices, u \in DOMAIN chain : Pays(i, u)
<1> DEFINE matching == {i \in Created : WebhookMatches(Refreshed(i), t)}
<1>1. ASSUME NEW i \in matching, NEW S,
             Save([Refresh(S) EXCEPT ![i] = Paid(inv[i], t)])
      PROVE  Pays(i, t)
  <2> DEFINE db == [Refresh(S) EXCEPT ![i] = Paid(inv[i], t)]
  <2>1. i \in Invoices /\ inv[i] \in Invoice /\ GoodRecord(inv[i], chain)
        /\ inv[i].paymentMethod = "gateway" /\ chain[t].amount = inv[i].amount
    BY OpenUnchanged, NoInvoiceAssumption DEF Created, WebhookMatches, IInv, Good
  <2>2. t \in DOMAIN chain
    BY DEF Webhook
  <2>3. Evidence(inv[i], t)
    BY <2>1, <2>2 DEF Evidence
  <2>4. Paid(inv[i], t) \in Invoice
    BY <2>1, <2>3, PaidGood DEF GoodRecord
  <2>5. Calm(Refresh(S))
    BY RefreshCalm
  <2>6. PaysWith(db, i, t)
    BY <2>1, <2>3, <2>4, <2>5 DEF PaysWith, Calm, Database
  <2>7. Save(db)
    BY <1>1
  <2> HIDE DEF db
  <2> QED BY <2>6, <2>7 DEF Pays
<1>2. CASE SaveRefreshed(Created)
  BY <1>2, SaveRefreshedQuiet
<1>3. t \in DOMAIN chain
  BY DEF Webhook
<1>4. matching \subseteq Invoices
  BY DEF Created
<1> QED BY <1>1, <1>2, <1>3, <1>4 DEF Webhook

--------------------------------------------------------------------------------
(* The inductive invariant. *)

StoreKept ==
  /\ inv' \in Database /\ file' \in Database
  /\ Good(inv', chain) /\ Good(file', chain)
  /\ \A i \in Invoices : inv[i] # NoInvoice => inv'[i] # NoInvoice

LEMMA CalmKeeps ==
  ASSUME IInv, NEW db, Calm(db)
  PROVE  Good(db, chain) /\ \A i \in Invoices : inv[i] # NoInvoice => db[i] # NoInvoice
<1> SUFFICES ASSUME NEW i \in Invoices
             PROVE  /\ db[i] # NoInvoice => GoodRecord(db[i], chain)
                    /\ inv[i] # NoInvoice => db[i] # NoInvoice
  BY DEF Good
<1>1. Follows(db[i], inv[i])
  BY DEF Calm
<1> QED BY <1>1, NoInvoiceAssumption DEF Follows, GoodRecord, IInv, Good

LEMMA PaysKeeps ==
  ASSUME IInv, NEW db, NEW i \in Invoices, NEW t \in DOMAIN chain, PaysWith(db, i, t)
  PROVE  Good(db, chain) /\ \A j \in Invoices : inv[j] # NoInvoice => db[j] # NoInvoice
<1> SUFFICES ASSUME NEW j \in Invoices
             PROVE  /\ db[j] # NoInvoice => GoodRecord(db[j], chain)
                    /\ inv[j] # NoInvoice => db[j] # NoInvoice
  BY DEF Good
<1>1. CASE j = i
  BY <1>1, PaidGood, ChainIds, NoInvoiceAssumption DEF PaysWith, IInv, Good, GoodRecord
<1>2. CASE j # i
  <2>1. Follows(db[j], inv[j])
    BY <1>2 DEF PaysWith
  <2> QED BY <2>1, NoInvoiceAssumption DEF Follows, GoodRecord, IInv, Good
<1> QED BY <1>1, <1>2

LEMMA StoreStep ==
  ASSUME IInv, Quiet \/ \E i \in Invoices, t \in DOMAIN chain : Pays(i, t)
  PROVE  StoreKept
<1>0. inv \in Database /\ file \in Database /\ Good(inv, chain) /\ Good(file, chain)
  BY DEF IInv, TypeOK, Database
<1>1. ASSUME NEW db \in Database, Save(db), Good(db, chain),
             \A i \in Invoices : inv[i] # NoInvoice => db[i] # NoInvoice
      PROVE  StoreKept
  BY <1>0, <1>1 DEF Save, StoreKept
<1>2. CASE UNCHANGED <<inv, file>>
  BY <1>0, <1>2 DEF StoreKept
<1>3. CASE \E db : Calm(db) /\ Save(db)
  BY <1>1, <1>3, CalmKeeps DEF Calm
<1>4. ASSUME NEW i \in Invoices, NEW t \in DOMAIN chain, Pays(i, t)
      PROVE  StoreKept
  BY <1>1, <1>4, PaysKeeps DEF Pays, PaysWith
<1> QED BY <1>2, <1>3, <1>4 DEF Quiet

(* What is left of IInv once the store is kept and the chain is as before. *)
LEMMA StoreKeptGood ==
  ASSUME StoreKept, chain' = chain
  PROVE  /\ inv' \in [Invoices -> Invoice \cup {NoInvoice}]
         /\ file' \in [Invoices -> Invoice \cup {NoInvoice}]
         /\ Good(inv, chain)' /\ Good(file, chain)'
  BY DEF StoreKept, Database, Good

LEMMA QuietKeepsIInv ==
  ASSUME IInv, StoreKept, chain' = chain,
         UNCHANGED <<counter, overdue, restarts, boot>>,
         notices' \subseteq DOMAIN chain,
         poll' \in [Pollers -> Waiting \cup {Idle}],
         \A p \in Pollers : poll'[p].stage # "idle" =>
           poll'[p].invoice \in Invoices /\ inv[poll'[p].invoice] # NoInvoice
  PROVE  IInv'
<1>1. TypeOK'
  BY StoreKeptGood DEF IInv, TypeOK
<1>2. PollsCreated'
  BY DEF PollsCreated, StoreKept
<1> QED BY <1>1, <1>2, StoreKeptGood DEF IInv

(* A request in flight is for an invoice of the map. *)
LEMMA PollInFlight ==
  ASSUME IInv, NEW q \in Pollers, poll[q].stage # "idle"
  PROVE  poll[q] \in Waiting /\ poll[q].invoice \in Invoices /\ inv[poll[q].invoice] # NoInvoice
<1>1. poll[q] \in Waiting
  BY DEF IInv, TypeOK, Idle
<1> QED BY <1>1 DEF IInv, PollsCreated, Waiting

(* A step of one request that is well formed keeps all of them so. *)
LEMMA PollStep ==
  ASSUME IInv, NEW p \in Pollers, NEW w \in Waiting \cup {Idle},
         w.stage # "idle" => w.invoice \in Invoices /\ inv[w.invoice] # NoInvoice,
         poll' = [poll EXCEPT ![p] = w]
  PROVE  /\ poll' \in [Pollers -> Waiting \cup {Idle}]
         /\ \A q \in Pollers : poll'[q].stage # "idle" =>
              poll'[q].invoice \in Invoices /\ inv[poll'[q].invoice] # NoInvoice
<1>1. poll \in [Pollers -> Waiting \cup {Idle}]
  BY DEF IInv, TypeOK
<1>2. \A q \in Pollers : poll'[q] = IF q = p THEN w ELSE poll[q]
  BY <1>1
<1>3. ASSUME NEW q \in Pollers, poll'[q].stage # "idle"
      PROVE  poll'[q].invoice \in Invoices /\ inv[poll'[q].invoice] # NoInvoice
  <2>1. CASE q = p
    BY <1>2, <1>3, <2>1
  <2>2. CASE q # p
    <3>1. poll'[q] = poll[q]
      BY <1>2, <2>2
    <3> QED BY <1>3, <3>1, PollInFlight
  <2> QED BY <2>1, <2>2
<1> QED BY <1>1, <1>3

LEMMA InitIInv == Init => IInv
<1> SUFFICES ASSUME Init PROVE IInv
  OBVIOUS
<1>1. TypeOK
  BY LimitsAssumption DEF Init, TypeOK, Idle, Transfer
<1>2. Good(inv, chain) /\ Good(file, chain) /\ PollsCreated
  BY DEF Init, Good, PollsCreated, Idle
<1> QED BY <1>1, <1>2 DEF IInv

LEMMA NewInvoiceGood ==
  ASSUME TypeOK, NEW o \in Owners, NEW base \in BasePrices, NEW t \in 0 .. Len(chain),
         NEW unique \in 1 .. UniqueRange
  PROVE  /\ NewInvoice(o, base + unique, t) \in Invoice
         /\ GoodRecord(NewInvoice(o, base + unique, t), chain)
         /\ NewInvoice(o, base + unique, t).status = "payment_required"
         /\ NewInvoice(o, base + unique, t).ownerWallet = o
         /\ NewInvoice(o, base + unique, t).amount = base + unique
<1>1. base + unique \in Amounts
  BY DEF Amounts
<1>2. t \in TransferIds /\ 0 \in TransferIds
  BY LimitsAssumption DEF TypeOK, TransferIds
<1>3. "payment_required" \in Statuses /\ "payment_required" \in SettlementStatuses
      /\ "direct" \in Methods
  BY StatusNames DEF Methods
<1> QED BY <1>1, <1>2, <1>3 DEF NewInvoice, Invoice, GoodRecord

LEMMA CreateKeepsIInv ==
  ASSUME IInv, NEW i \in Invoices, NEW o \in Owners, NEW base \in BasePrices,
         CreateInvoice(i, o, base)
  PROVE  IInv'
<1>1. counter' \in 1 .. UniqueRange /\ counter' \in 0 .. UniqueRange
  BY NextUniqueInRange DEF CreateInvoice, IInv, TypeOK
<1>2. PICK t \in 0 .. Len(chain) :
        Save([inv EXCEPT ![i] = NewInvoice(o, base + counter', t)])
  BY DEF CreateInvoice
<1> DEFINE r == NewInvoice(o, base + counter', t)
           db == [inv EXCEPT ![i] = r]
<1>3. r \in Invoice /\ GoodRecord(r, chain)
  BY <1>1, NewInvoiceGood DEF IInv
<1> HIDE DEF r
<1>4. /\ db \in Database /\ Good(db, chain)
      /\ \A j \in Invoices : inv[j] # NoInvoice => db[j] # NoInvoice
  BY <1>3, NoInvoiceAssumption DEF Database, Good, IInv, TypeOK
<1>5. Save(db)
  BY <1>2 DEF r
<1> HIDE DEF db
<1>6. StoreKept
  BY <1>4, <1>5 DEF StoreKept, Save, IInv, TypeOK, Database
<1>7. chain' = chain /\ UNCHANGED <<notices, poll, overdue, restarts>>
      /\ boot' = [boot EXCEPT ![i] = restarts]
  BY DEF CreateInvoice
<1>8. TypeOK'
  <2>1. boot' \in [Invoices -> 0 .. restarts]
    BY <1>7, LimitsAssumption DEF IInv, TypeOK
  <2> QED BY <1>1, <1>6, <1>7, <2>1, StoreKeptGood DEF IInv, TypeOK
<1>9. PollsCreated'
  <2>1. SUFFICES ASSUME NEW q \in Pollers, poll[q].stage # "idle"
                 PROVE  inv'[poll[q].invoice] # NoInvoice
    BY <1>7 DEF PollsCreated
  <2> QED BY <1>6, <2>1, PollInFlight DEF StoreKept
<1> QED BY <1>6, <1>7, <1>8, <1>9, StoreKeptGood DEF IInv

LEMMA TransferKeepsIInv ==
  ASSUME IInv, NEW kind \in Methods, NEW w \in Wallets, NEW amount \in Amounts,
         TransferFinal(kind, w, amount)
  PROVE  IInv'
<1> DEFINE x == [kind |-> kind, from |-> w, amount |-> amount]
<1>1. x \in Transfer /\ chain' = Append(chain, x) /\ Len(chain) < MaxTransfers
      /\ UNCHANGED <<inv, file, counter, notices, poll, overdue, restarts, boot>>
  BY DEF TransferFinal, Transfer
<1> HIDE DEF x
<1>2. /\ chain' \in Seq(Transfer) /\ Len(chain') <= MaxTransfers
      /\ DOMAIN chain \subseteq DOMAIN chain'
      /\ \A t \in DOMAIN chain : chain'[t] = chain[t]
  BY <1>1, LimitsAssumption DEF IInv, TypeOK
<1>3. ASSUME NEW db, Good(db, chain) PROVE Good(db, chain')
  BY <1>2, <1>3 DEF Good, GoodRecord
<1>4. TypeOK'
  BY <1>1, <1>2 DEF IInv, TypeOK
<1>5. Good(inv, chain)' /\ Good(file, chain)'
  <2>1. Good(inv, chain') /\ Good(file, chain')
    BY <1>3 DEF IInv
  <2> QED BY <2>1, <1>1 DEF Good
<1>6. PollsCreated'
  BY <1>1 DEF PollsCreated, IInv
<1> QED BY <1>4, <1>5, <1>6 DEF IInv

LEMMA RestartKeepsIInv ==
  ASSUME IInv, Restart
  PROVE  IInv'
<1>1. TypeOK'
  BY LimitsAssumption DEF Restart, IInv, TypeOK
<1>2. Good(inv, chain)' /\ Good(file, chain)' /\ PollsCreated'
  BY DEF Restart, IInv, Good, PollsCreated, Idle
<1> QED BY <1>1, <1>2 DEF IInv

(* Every step keeps the inductive invariant. *)
LEMMA NextIInv == IInv /\ [Next]_vars => IInv'
<1> SUFFICES ASSUME IInv, [Next]_vars PROVE IInv'
  OBVIOUS
<1>1. ASSUME NEW i \in Invoices, NEW o \in Owners, NEW base \in BasePrices,
             CreateInvoice(i, o, base)
      PROVE  IInv'
  BY <1>1, CreateKeepsIInv
<1>2. ASSUME NEW i \in Invoices, TimePasses(i)
      PROVE  IInv'
  <2>1. overdue' \subseteq Invoices /\ UNCHANGED <<inv, file, counter, notices, poll, chain, restarts, boot>>
    BY <1>2 DEF TimePasses, IInv, TypeOK
  <2> QED BY <2>1 DEF IInv, TypeOK, Good, PollsCreated
<1>3. ASSUME NEW i \in Invoices, Estimate(i)
      PROVE  IInv'
  <2>1. StoreKept
    BY <1>3, EstimateQuiet, StoreStep
  <2> QED BY <1>3, <2>1, QuietKeepsIInv DEF Estimate, IInv, TypeOK, PollsCreated, Waiting, Idle
<1>4. ASSUME NEW i \in Invoices, NEW t \in TransferIds, SpendSubmitted(i, t)
      PROVE  IInv'
  <2>1. StoreKept
    BY <1>4, SpendSubmittedQuiet, StoreStep
  <2> QED BY <1>4, <2>1, QuietKeepsIInv DEF SpendSubmitted, IInv, TypeOK, PollsCreated, Waiting, Idle
<1>5. ASSUME NEW i \in Invoices, NEW p \in Pollers, ReconcileStart(p, i)
      PROVE  IInv'
  <2>1. StoreKept
    BY <1>5, SaveRefreshedQuiet, StoreStep DEF ReconcileStart
  <2> DEFINE asksGateway == inv[i].paymentMethod = "gateway" /\ inv[i].spendTxHash # 0
             w == [stage    |-> IF asksGateway THEN "gateway" ELSE "logs",
                   invoice  |-> i,
                   transfer |-> IF asksGateway THEN inv[i].spendTxHash ELSE 0]
  <2>2. poll' = poll \/ poll' = [poll EXCEPT ![p] = w]
    BY <1>5 DEF ReconcileStart
  <2>3. inv[i] \in Invoice /\ inv[i] # NoInvoice
    BY <1>5 DEF ReconcileStart, Created, IInv, TypeOK
  <2>4. w \in Waiting /\ w.invoice = i
    BY <2>3, LimitsAssumption DEF Waiting, Invoice, TransferIds
  <2> HIDE DEF w
  <2>5. /\ poll' \in [Pollers -> Waiting \cup {Idle}]
        /\ \A q \in Pollers : poll'[q].stage # "idle" =>
             poll'[q].invoice \in Invoices /\ inv[poll'[q].invoice] # NoInvoice
    <3>1. CASE poll' = poll
      BY <3>1, PollInFlight DEF IInv, TypeOK
    <3>2. CASE poll' = [poll EXCEPT ![p] = w]
      BY <2>3, <2>4, <3>2, PollStep
    <3> QED BY <2>2, <3>1, <3>2
  <2> QED BY <1>5, <2>1, <2>5, QuietKeepsIInv DEF ReconcileStart, IInv, TypeOK
<1>6. ASSUME NEW p \in Pollers, ReconcileGateway(p)
      PROVE  IInv'
  <2>1. StoreKept
    BY <1>6, ReconcileGatewayStep, StoreStep DEF Quiet
  <2>2. /\ poll' \in [Pollers -> Waiting \cup {Idle}]
        /\ \A q \in Pollers : poll'[q].stage # "idle" =>
             poll'[q].invoice \in Invoices /\ inv[poll'[q].invoice] # NoInvoice
    <3> DEFINE w == [poll[p] EXCEPT !.stage = "logs", !.transfer = 0]
    <3>1. poll[p] \in Waiting /\ poll[p].invoice \in Invoices /\ inv[poll[p].invoice] # NoInvoice
      BY <1>6, PollInFlight DEF ReconcileGateway
    <3>2. 0 \in TransferIds
      BY LimitsAssumption DEF TransferIds
    <3>3. w \in Waiting /\ w.invoice = poll[p].invoice
      BY <3>1, <3>2 DEF Waiting
    <3>4. Idle.stage = "idle"
      BY DEF Idle
    <3>5. poll' = [poll EXCEPT ![p] = Idle] \/ poll' = [poll EXCEPT ![p] = w]
      BY <1>6 DEF ReconcileGateway, IInv, TypeOK
    <3> HIDE DEF w
    <3>6. CASE poll' = [poll EXCEPT ![p] = Idle]
      BY <3>4, <3>6, PollStep
    <3>7. CASE poll' = [poll EXCEPT ![p] = w]
      BY <3>1, <3>3, <3>7, PollStep
    <3> QED BY <3>5, <3>6, <3>7
  <2> QED BY <1>6, <2>1, <2>2, QuietKeepsIInv DEF ReconcileGateway, IInv, TypeOK
<1>7. ASSUME NEW p \in Pollers, ReconcileLogs(p)
      PROVE  IInv'
  <2>1. StoreKept
    BY <1>7, ReconcileLogsStep, StoreStep DEF Quiet
  <2>2. /\ poll' \in [Pollers -> Waiting \cup {Idle}]
        /\ \A q \in Pollers : poll'[q].stage # "idle" =>
             poll'[q].invoice \in Invoices /\ inv[poll'[q].invoice] # NoInvoice
    BY <1>7 DEF ReconcileLogs, IInv, TypeOK, PollsCreated, Waiting, Idle
  <2> QED BY <1>7, <2>1, <2>2, QuietKeepsIInv DEF ReconcileLogs, IInv, TypeOK
<1>8. ASSUME NEW t \in TransferIds, Webhook(t)
      PROVE  IInv'
  <2>1. StoreKept
    BY <1>8, WebhookStep, StoreStep
  <2> QED BY <1>8, <2>1, QuietKeepsIInv DEF Webhook, IInv, TypeOK, PollsCreated, Waiting, Idle
<1>9. ASSUME NEW kind \in Methods, NEW w \in Wallets, NEW amount \in Amounts,
             TransferFinal(kind, w, amount)
      PROVE  IInv'
  BY <1>9, TransferKeepsIInv
<1>10. CASE Restart
  BY <1>10, RestartKeepsIInv
<1>11. CASE UNCHANGED vars
  BY <1>11 DEF vars, IInv, TypeOK, Good, PollsCreated
<1> QED BY <1>1, <1>2, <1>3, <1>4, <1>5, <1>6, <1>7, <1>8, <1>9, <1>10, <1>11 DEF Next

(* The inductive invariant holds in every reachable state. *)
THEOREM SpecIInv == Spec => []IInv
  BY InitIInv, NextIInv, PTL DEF Spec

(* Type correctness of the invoice store. *)
THEOREM SpecTypeOK == Spec => []TypeOK
<1>1. IInv => TypeOK
  BY DEF IInv
<1> QED BY <1>1, SpecIInv, PTL

(* A paid invoice names a final transfer of its amount, made by its owner if  *)
(* the invoice is direct - in memory and on disk, through every interleaving, *)
(* failed write and restart.                                                  *)
THEOREM SpecPaidHasEvidence == Spec => []PaidHasEvidence
<1>1. IInv => PaidHasEvidence
  BY DEF IInv, Good, GoodRecord, PaidHasEvidence, EvidencedIn
<1> QED BY <1>1, SpecIInv, PTL

(* While blocks can be looked up, no direct invoice is settled by a transfer  *)
(* older than itself.                                                         *)
THEOREM SpecDirectIsFresh == Spec => []DirectIsFresh
<1>1. IInv => DirectIsFresh
  BY DEF IInv, Good, GoodRecord, DirectIsFresh, Created
<1> QED BY <1>1, SpecIInv, PTL

--------------------------------------------------------------------------------
(* What the steps do to the open invoices and to the amounts.                *)

(* Invoices stay with their owner and amount, and none is opened. *)
Keeps(db) ==
  \A i \in Invoices :
    /\ IsOpen(db[i]) => IsOpen(inv[i])
    /\ db[i] # NoInvoice <=> inv[i] # NoInvoice
    /\ inv[i] # NoInvoice =>
         db[i].amount = inv[i].amount /\ db[i].ownerWallet = inv[i].ownerWallet

LEMMA StoreKeeps ==
  ASSUME IInv, Quiet \/ \E i \in Invoices, t \in DOMAIN chain : Pays(i, t)
  PROVE  UNCHANGED <<inv, file>> \/ \E db : Keeps(db) /\ Save(db)
<1>1. ASSUME NEW r, NEW q, Follows(q, r)
      PROVE  /\ IsOpen(q) => IsOpen(r)
             /\ q # NoInvoice <=> r # NoInvoice
             /\ q.amount = r.amount /\ q.ownerWallet = r.ownerWallet
  BY <1>1, NoInvoiceAssumption DEF Follows, IsOpen
<1>2. ASSUME NEW db, Calm(db), Save(db)
      PROVE  Keeps(db)
  BY <1>1, <1>2 DEF Calm, Keeps
<1>3. ASSUME NEW i \in Invoices, NEW t \in DOMAIN chain, NEW db, PaysWith(db, i, t)
      PROVE  Keeps(db)
  <2>1. /\ db[i] \in Invoice /\ db[i].status = "paid" /\ inv[i] \in Invoice
        /\ db[i].ownerWallet = inv[i].ownerWallet /\ db[i].amount = inv[i].amount
    BY <1>3, PaidGood, ChainIds, NoInvoiceAssumption DEF PaysWith, IInv, Good, GoodRecord
  <2>2. ~IsOpen(db[i])
    BY <2>1, StatusNames DEF IsOpen
  <2> QED BY <1>1, <1>3, <2>1, <2>2, NoInvoiceAssumption DEF PaysWith, Keeps
<1> QED BY <1>2, <1>3 DEF Quiet, Pays

LEMMA StepCases ==
  ASSUME IInv, [Next]_vars
  PROVE  \/ \E i \in Invoices, o \in Owners, base \in BasePrices : CreateInvoice(i, o, base)
         \/ Restart
         \/ /\ UNCHANGED <<counter, restarts, boot>>
            /\ UNCHANGED <<inv, file>> \/ \E db : Keeps(db) /\ Save(db)
<1> DEFINE Goal == /\ UNCHANGED <<counter, restarts, boot>>
                   /\ UNCHANGED <<inv, file>> \/ \E db : Keeps(db) /\ Save(db)
<1>1. ASSUME NEW i \in Invoices, TimePasses(i) PROVE Goal
  BY <1>1 DEF TimePasses
<1>2. ASSUME NEW i \in Invoices, Estimate(i) PROVE Goal
  BY <1>2, EstimateQuiet, StoreKeeps DEF Estimate
<1>3. ASSUME NEW i \in Invoices, NEW t \in TransferIds, SpendSubmitted(i, t) PROVE Goal
  BY <1>3, SpendSubmittedQuiet, StoreKeeps DEF SpendSubmitted
<1>4. ASSUME NEW i \in Invoices, NEW p \in Pollers, ReconcileStart(p, i) PROVE Goal
  BY <1>4, SaveRefreshedQuiet, StoreKeeps DEF ReconcileStart
<1>5. ASSUME NEW p \in Pollers, ReconcileGateway(p) PROVE Goal
  BY <1>5, ReconcileGatewayStep, StoreKeeps DEF ReconcileGateway
<1>6. ASSUME NEW p \in Pollers, ReconcileLogs(p) PROVE Goal
  BY <1>6, ReconcileLogsStep, StoreKeeps DEF ReconcileLogs
<1>7. ASSUME NEW t \in TransferIds, Webhook(t) PROVE Goal
  BY <1>7, WebhookStep, StoreKeeps DEF Webhook
<1>8. ASSUME NEW kind \in Methods, NEW w \in Wallets, NEW amount \in Amounts,
             TransferFinal(kind, w, amount)
      PROVE  Goal
  BY <1>8 DEF TransferFinal
<1>9. ASSUME UNCHANGED vars PROVE Goal
  BY <1>9 DEF vars
<1> HIDE DEF Goal
<1>10. Goal \/ Restart
       \/ \E i \in Invoices, o \in Owners, base \in BasePrices : CreateInvoice(i, o, base)
  BY <1>1, <1>2, <1>3, <1>4, <1>5, <1>6, <1>7, <1>8, <1>9 DEF Next
<1> QED BY <1>10 DEF Goal

--------------------------------------------------------------------------------
(* The cap on open invoices. *)

LEMMA OpenFinite ==
  ASSUME NEW db, NEW o
  PROVE  IsFiniteSet(OpenOf(db, o)) /\ Cardinality(OpenOf(db, o)) \in Nat
<1>1. OpenOf(db, o) \subseteq Invoices
  BY DEF OpenOf
<1> QED BY <1>1, InvoicesAssumption, FS_Subset, FS_CardinalityType

LEMMA OpenCapStep == IInv /\ OpenCap /\ [Next]_vars => OpenCap'
<1> SUFFICES ASSUME IInv, OpenCap, [Next]_vars PROVE OpenCap'
  OBVIOUS
<1>0. ASSUME NEW db, Save(db), \A o \in Owners : Cardinality(OpenOf(db, o)) <= MaxUnpaid
      PROVE  OpenCap'
  <2>1. inv' = db /\ file' \in {db, file}
    BY <1>0 DEF Save
  <2> QED BY <1>0, <2>1 DEF OpenCap, OpenOf, IsOpen
<1>1. ASSUME NEW i \in Invoices, NEW o \in Owners, NEW base \in BasePrices,
             CreateInvoice(i, o, base)
      PROVE  OpenCap'
  <2>1. PICK t \in 0 .. Len(chain) :
          Save([inv EXCEPT ![i] = NewInvoice(o, base + counter', t)])
    BY <1>1 DEF CreateInvoice
  <2> DEFINE r == NewInvoice(o, base + counter', t)
             db == [inv EXCEPT ![i] = r]
  <2>2. r.ownerWallet = o
    BY DEF NewInvoice
  <2>3. Save(db) /\ inv \in [Invoices -> Invoice \cup {NoInvoice}] /\ inv[i] = NoInvoice
        /\ Cardinality(OpenOf(inv, o)) < MaxUnpaid
    BY <1>1, <2>1 DEF CreateInvoice, IInv, TypeOK
  <2> HIDE DEF r
  <2>4. \A j \in Invoices : db[j] = IF j = i THEN r ELSE inv[j]
    BY <2>3
  <2> HIDE DEF db
  <2>5. ASSUME NEW w \in Owners PROVE Cardinality(OpenOf(db, w)) <= MaxUnpaid
    <3>1. CASE w = o
      <4>1. OpenOf(db, w) \subseteq OpenOf(inv, w) \cup {i}
        BY <2>4 DEF OpenOf
      <4>0. IsFiniteSet(OpenOf(inv, w)) /\ Cardinality(OpenOf(inv, w)) \in Nat
        BY OpenFinite
      <4>. DEFINE S == OpenOf(inv, w)
      <4>5. /\ IsFiniteSet(S \cup {i})
            /\ Cardinality(S \cup {i}) = IF i \in S THEN Cardinality(S) ELSE Cardinality(S) + 1
        <5>. HIDE DEF S
        <5>1. IsFiniteSet(S)
          BY <4>0 DEF S
        <5>. QED BY <5>1, FS_AddElement
      <4>2. /\ IsFiniteSet(OpenOf(inv, w) \cup {i})
            /\ Cardinality(OpenOf(inv, w) \cup {i}) <= Cardinality(OpenOf(inv, w)) + 1
        BY <4>0, <4>5
      <4>3. Cardinality(OpenOf(db, w)) <= Cardinality(OpenOf(inv, w) \cup {i})
        BY <4>1, <4>2, FS_Subset
      <4>4. /\ Cardinality(OpenOf(db, w)) \in Nat /\ Cardinality(OpenOf(inv, w)) \in Nat
            /\ Cardinality(OpenOf(inv, w) \cup {i}) \in Nat
        BY <4>2, OpenFinite, FS_CardinalityType
      <4> QED BY <2>3, <3>1, <4>2, <4>3, <4>4, LimitsAssumption
    <3>2. CASE w # o
      <4>1. OpenOf(db, w) \subseteq OpenOf(inv, w)
        BY <2>2, <2>4, <3>2 DEF OpenOf
      <4>2. Cardinality(OpenOf(db, w)) <= Cardinality(OpenOf(inv, w))
        BY <4>1, OpenFinite, FS_Subset
      <4> QED BY <4>2, OpenFinite, LimitsAssumption DEF OpenCap
    <3> QED BY <3>1, <3>2
  <2> QED BY <1>0, <2>3, <2>5
<1>2. CASE Restart
  BY <1>2 DEF Restart, OpenCap, OpenOf, IsOpen
<1>3. CASE UNCHANGED <<inv, file>>
  BY <1>3 DEF OpenCap, OpenOf, IsOpen
<1>4. ASSUME NEW db, Keeps(db), Save(db)
      PROVE  OpenCap'
  <2>1. ASSUME NEW o \in Owners PROVE Cardinality(OpenOf(db, o)) <= MaxUnpaid
    <3>1. OpenOf(db, o) \subseteq OpenOf(inv, o)
      BY <1>4 DEF Keeps, OpenOf, IsOpen
    <3>2. Cardinality(OpenOf(db, o)) <= Cardinality(OpenOf(inv, o))
      BY <3>1, OpenFinite, FS_Subset
    <3> QED BY <3>2, OpenFinite, LimitsAssumption DEF OpenCap
  <2> QED BY <1>0, <1>4, <2>1
<1> QED BY <1>1, <1>2, <1>3, <1>4, StepCases

(* No owner has more open invoices than the cap, in memory or in the file,    *)
(* through creations, expiries, late webhooks, lost writes and restarts.      *)
THEOREM SpecOpenCap == Spec => []OpenCap
<1>1. Init => OpenCap
  <2> SUFFICES ASSUME Init, NEW o \in Owners
               PROVE  OpenOf(inv, o) = {} /\ OpenOf(file, o) = {} /\ Cardinality({}) <= MaxUnpaid
    BY DEF OpenCap
  <2> QED BY LimitsAssumption, FS_EmptySet DEF Init, OpenOf, IsOpen
<1>2. IInv /\ OpenCap /\ [Next]_vars => OpenCap'
  BY OpenCapStep
<1> QED BY <1>1, <1>2, SpecIInv, PTL DEF Spec

--------------------------------------------------------------------------------
(* The suffixes of the amounts. *)

(* What the file holds is an earlier state of what memory holds. *)
FileBehind ==
  \A i \in Invoices : file[i] # NoInvoice =>
    inv[i] # NoInvoice /\ inv[i].amount = file[i].amount

(* The invoices of this run of the process have had the suffixes 1, 2, ...,   *)
(* counter, and the invoices of any one run have amounts of their own.        *)
ThisRun == {i \in Created : boot[i] = restarts}
AmountsSeparate ==
  /\ counter = Cardinality(ThisRun)
  /\ \A i \in ThisRun : \E b \in BasePrices, u \in 1 .. counter : inv[i].amount = b + u
  /\ \A i, j \in Created : i # j /\ boot[i] = boot[j] => inv[i].amount # inv[j].amount

SuffixInv == FileBehind /\ (SuffixSeparates => AmountsSeparate)

(* Prices further apart than the suffixes: the amount tells the suffix. *)
LEMMA SuffixTells ==
  ASSUME SuffixSeparates, NEW b \in BasePrices, NEW c \in BasePrices,
         NEW u \in 1 .. UniqueRange, NEW v \in 1 .. UniqueRange, u # v
  PROVE  b + u # c + v
<1>1. b \in Nat /\ c \in Nat /\ UniqueRange \in Nat
  BY PricesAssumption, LimitsAssumption
<1>2. CASE b = c
  BY <1>1, <1>2
<1>3. CASE b < c
  BY <1>1, <1>3 DEF SuffixSeparates
<1>4. CASE c < b
  BY <1>1, <1>4 DEF SuffixSeparates
<1> QED BY <1>1, <1>2, <1>3, <1>4

(* There is a suffix left while an invoice is left. *)
LEMMA SuffixLeft ==
  ASSUME IInv, SuffixSeparates, AmountsSeparate, NEW i \in Invoices, inv[i] = NoInvoice
  PROVE  /\ IsFiniteSet(ThisRun) /\ Cardinality(ThisRun) \in Nat
         /\ counter < UniqueRange /\ NextUnique(counter) = counter + 1
<1>1. ThisRun \cup {i} \subseteq Invoices /\ i \notin ThisRun /\ ThisRun \subseteq Invoices
  BY DEF ThisRun, Created
<1>2. IsFiniteSet(ThisRun) /\ Cardinality(ThisRun) \in Nat
  BY <1>1, InvoicesAssumption, FS_Subset, FS_CardinalityType
<1>3. /\ IsFiniteSet(ThisRun \cup {i})
      /\ Cardinality(ThisRun \cup {i}) = Cardinality(ThisRun) + 1
  BY <1>1, <1>2, FS_AddElement
<1>4. Cardinality(ThisRun \cup {i}) <= Cardinality(Invoices) /\ Cardinality(Invoices) \in Nat
  BY <1>1, InvoicesAssumption, FS_Subset, FS_CardinalityType
<1>5. counter < UniqueRange
  BY <1>2, <1>3, <1>4, LimitsAssumption DEF SuffixSeparates, AmountsSeparate
<1>6. counter % UniqueRange = counter
  BY <1>2, <1>5, LimitsAssumption DEF AmountsSeparate
<1> QED BY <1>2, <1>5, <1>6 DEF NextUnique

LEMMA CreateSeparates ==
  ASSUME IInv, SuffixInv, NEW i \in Invoices, NEW o \in Owners, NEW base \in BasePrices,
         CreateInvoice(i, o, base)
  PROVE  SuffixInv'
<1>1. PICK t \in 0 .. Len(chain) :
        Save([inv EXCEPT ![i] = NewInvoice(o, base + counter', t)])
  BY DEF CreateInvoice
<1> DEFINE r == NewInvoice(o, base + counter', t)
<1>2. /\ inv[i] = NoInvoice /\ file[i] = NoInvoice /\ counter' = NextUnique(counter)
      /\ boot' = [boot EXCEPT ![i] = restarts] /\ restarts' = restarts
  BY DEF CreateInvoice
<1>3. r # NoInvoice /\ r.amount = base + counter'
  <2>1. counter' \in 1 .. UniqueRange
    BY <1>2, NextUniqueInRange DEF IInv, TypeOK
  <2> QED BY <2>1, NewInvoiceGood, NoInvoiceAssumption DEF IInv
<1>4. inv' = [inv EXCEPT ![i] = r] /\ file' \in {inv', file}
  BY <1>1 DEF Save
<1> HIDE DEF r
<1>5. /\ \A j \in Invoices : inv'[j] = IF j = i THEN r ELSE inv[j]
      /\ \A j \in Invoices : boot'[j] = IF j = i THEN restarts ELSE boot[j]
  BY <1>2, <1>4 DEF IInv, TypeOK
<1>6. FileBehind'
  BY <1>2, <1>4, <1>5, ZenonT(60) DEF SuffixInv, FileBehind
<1>7. ASSUME SuffixSeparates PROVE AmountsSeparate'
  <2>1. AmountsSeparate
    BY <1>7 DEF SuffixInv
  <2>2. /\ IsFiniteSet(ThisRun) /\ Cardinality(ThisRun) \in Nat
        /\ counter < UniqueRange /\ counter' = counter + 1
    BY <1>2, <1>7, <2>1, SuffixLeft
  <2>3. counter = Cardinality(ThisRun) /\ counter \in Nat /\ UniqueRange \in Nat
    BY <2>1, <2>2, LimitsAssumption DEF AmountsSeparate
  <2>4. /\ ThisRun' = ThisRun \cup {i} /\ i \notin ThisRun /\ Created' = Created \cup {i}
        /\ ThisRun \subseteq Created /\ Created \subseteq Invoices /\ i \notin Created
    BY <1>2, <1>3, <1>5 DEF ThisRun, Created
  <2>5. counter' = Cardinality(ThisRun')
    BY <2>2, <2>3, <2>4, FS_AddElement
  <2>6. ASSUME NEW j \in ThisRun'
        PROVE  \E b \in BasePrices, u \in 1 .. counter' : inv'[j].amount = b + u
    <3>1. CASE j = i
      BY <1>3, <1>5, <2>2, <2>3, <3>1
    <3>2. CASE j # i
      <4>1. j \in ThisRun /\ inv'[j] = inv[j]
        BY <1>5, <2>4, <2>6, <3>2
      <4>2. PICK b \in BasePrices, u \in 1 .. counter : inv[j].amount = b + u
        BY <2>1, <4>1 DEF AmountsSeparate
      <4> QED BY <2>2, <2>3, <4>1, <4>2
    <3> QED BY <3>1, <3>2
  <2>7. ASSUME NEW j \in ThisRun PROVE inv[j].amount # r.amount
    <3>1. PICK b \in BasePrices, u \in 1 .. counter : inv[j].amount = b + u
      BY <2>1, <2>7 DEF AmountsSeparate
    <3>2. u \in 1 .. UniqueRange /\ counter' \in 1 .. UniqueRange /\ u # counter'
      BY <2>2, <2>3, <3>1
    <3> QED BY <1>3, <1>7, <3>1, <3>2, SuffixTells
  <2>8. ASSUME NEW j \in Created', NEW k \in Created', j # k, boot'[j] = boot'[k]
        PROVE  inv'[j].amount # inv'[k].amount
    <3>1. CASE j # i /\ k # i
      BY <1>5, <2>1, <2>4, <2>8, <3>1 DEF AmountsSeparate
    <3>2. CASE j = i
      <4>1. k \in ThisRun /\ inv'[j] = r /\ inv'[k] = inv[k]
        BY <1>5, <2>4, <2>8, <3>2 DEF ThisRun
      <4> QED BY <2>7, <4>1
    <3>3. CASE k = i
      <4>1. j \in ThisRun /\ inv'[k] = r /\ inv'[j] = inv[j]
        BY <1>5, <2>4, <2>8, <3>3 DEF ThisRun
      <4> QED BY <2>7, <4>1
    <3> QED BY <3>1, <3>2, <3>3
  <2> QED BY <2>5, <2>6, <2>8 DEF AmountsSeparate
<1> QED BY <1>6, <1>7 DEF SuffixInv, SuffixSeparates

LEMMA SuffixInvStep == IInv /\ SuffixInv /\ [Next]_vars => SuffixInv'
<1> SUFFICES ASSUME IInv, SuffixInv, [Next]_vars PROVE SuffixInv'
  OBVIOUS
<1>1. ASSUME NEW i \in Invoices, NEW o \in Owners, NEW base \in BasePrices,
             CreateInvoice(i, o, base)
      PROVE  SuffixInv'
  BY <1>1, CreateSeparates
<1>2. CASE Restart
  <2>1. /\ inv' = file /\ file' = file /\ counter' = 0 /\ boot' = boot
        /\ restarts' = restarts + 1 /\ restarts \in Nat /\ boot \in [Invoices -> 0 .. restarts]
    BY <1>2, LimitsAssumption DEF Restart, IInv, TypeOK
  <2>2. Created' \subseteq Created /\ Created' \subseteq Invoices
        /\ \A i \in Created' : inv'[i].amount = inv[i].amount
    BY <2>1 DEF SuffixInv, FileBehind, Created
  <2>3. ThisRun' = {}
    <3>1. \A i \in Invoices : boot'[i] \in 0 .. restarts
      BY <2>1
    <3>2. \A i \in Invoices : boot'[i] # restarts'
      BY <2>1, <3>1
    <3> QED BY <2>2, <3>2 DEF ThisRun
  <2>4. FileBehind'
    BY <2>1 DEF FileBehind
  <2>5. ASSUME SuffixSeparates PROVE AmountsSeparate'
    BY <2>1, <2>2, <2>3, <2>5, FS_EmptySet DEF SuffixInv, AmountsSeparate
  <2> QED BY <2>4, <2>5 DEF SuffixInv, SuffixSeparates
<1>3. ASSUME UNCHANGED <<counter, restarts, boot, inv, file>>
      PROVE  SuffixInv'
  BY <1>3 DEF SuffixInv, FileBehind, SuffixSeparates, AmountsSeparate, ThisRun, Created
<1>4. ASSUME NEW db, Keeps(db), Save(db), UNCHANGED <<counter, restarts, boot>>
      PROVE  SuffixInv'
  <2>1. inv' = db /\ file' \in {db, file}
    BY <1>4 DEF Save
  <2>2. /\ Created' = Created /\ Created \subseteq Invoices
        /\ \A i \in Created : inv'[i].amount = inv[i].amount
    BY <1>4, <2>1 DEF Keeps, Created
  <2>3. FileBehind'
    BY <1>4, <2>1 DEF Keeps, SuffixInv, FileBehind
  <2>4. ThisRun' = ThisRun /\ ThisRun \subseteq Created
    BY <1>4, <2>2 DEF ThisRun
  <2>5. ASSUME SuffixSeparates PROVE AmountsSeparate'
    <3>1. AmountsSeparate
      BY <2>5 DEF SuffixInv
    <3>2. \A i \in ThisRun' : \E b \in BasePrices, u \in 1 .. counter' : inv'[i].amount = b + u
      BY <1>4, <2>2, <2>4, <3>1 DEF AmountsSeparate
    <3> QED BY <1>4, <2>2, <2>4, <3>1, <3>2 DEF AmountsSeparate
  <2> QED BY <2>3, <2>5 DEF SuffixInv, SuffixSeparates
<1> QED BY <1>1, <1>2, <1>3, <1>4, StepCases

(* One transfer never settles two invoices of one run of the process, if the  *)
(* suffix does not wrap and the prices are further apart than it.             *)
THEOREM SpecOneTransferOneInvoice == Spec => []OneTransferOneInvoice
<1>1. Init => SuffixInv
  <2> SUFFICES ASSUME Init PROVE SuffixInv
    OBVIOUS
  <2>1. Created = {} /\ ThisRun = {} /\ counter = 0 /\ \A i \in Invoices : file[i] = NoInvoice
    BY DEF Init, Created, ThisRun
  <2> QED BY <2>1, FS_EmptySet DEF SuffixInv, FileBehind, AmountsSeparate
<1>2. IInv /\ SuffixInv => OneTransferOneInvoice
  <2> SUFFICES ASSUME IInv, SuffixInv, SuffixSeparates, NEW i \in Created, NEW j \in Created,
                      i # j, boot[i] = boot[j], inv[i].status = "paid", inv[j].status = "paid"
               PROVE  inv[i].txHash # inv[j].txHash
    BY DEF OneTransferOneInvoice
  <2>1. inv[i].amount # inv[j].amount
    BY DEF SuffixInv, AmountsSeparate
  <2>2. /\ chain[inv[i].txHash].amount = inv[i].amount
        /\ chain[inv[j].txHash].amount = inv[j].amount
    BY DEF IInv, Good, GoodRecord, Created
  <2> QED BY <2>1, <2>2
<1>3. IInv /\ SuffixInv /\ [Next]_vars => SuffixInv'
  BY SuffixInvStep
<1> QED BY <1>1, <1>2, <1>3, SpecIInv, PTL DEF Spec
================================================================================
