------------------------------ MODULE X402Invoice ------------------------------
(***************************************************************************)
(* The x402 invoice store of src/middleware/x402Middleware.mjs: invoices    *)
(* are created with an amount of their own, expire when somebody looks at   *)
(* them too late, and are settled by evidence from three sources - the Arc  *)
(* Transfer logs, the Circle Gateway transfer record, a Circle webhook -    *)
(* that arrive in any order and in the middle of each other's awaits.       *)
(* Every change is written through to a JSON file; a restart reads it back  *)
(* and forgets what was only in memory.                                     *)
(*                                                                          *)
(* The module models the store with its JSON file as the only persistence   *)
(* (no Supabase).  Only 'arc-usdc-direct' invoices are created, as every    *)
(* caller does; the recipient, the chain and the asset are configured.      *)
(***************************************************************************)
EXTENDS Integers, Sequences, FiniteSets

CONSTANTS
  Invoices,     \* ids randomUUID may draw, each at most once
  NoInvoice,    \* content of an id that was not drawn yet
  Wallets,      \* wallets that send transfers to the treasury
  Owners,       \* the wallets among them that ask for invoices
  Pollers,      \* reconcile requests that may be in flight together
  BasePrices,   \* configured prices, in base units
  UniqueRange,  \* number of values of the unique suffix (999)
  MaxUnpaid,    \* X402_MAX_UNPAID_PER_OWNER
  DiskOutcomes, \* outcomes of a file write: {TRUE}, or {TRUE, FALSE}
  RpcMayFail,   \* TRUE if a block lookup may fail (its error is swallowed)
  MaxTransfers, \* bound: transfers the environment makes
  MaxRestarts   \* bound: restarts

RetainedInvoices == 1000

(* persistInvoices keeps the RetainedInvoices invoices touched last; with    *)
(* fewer ids than that it drops nothing.                                     *)
ASSUME InvoicesAssumption ==
  /\ IsFiniteSet(Invoices)
  /\ Cardinality(Invoices) <= RetainedInvoices
ASSUME LimitsAssumption ==
  /\ UniqueRange \in Nat \ {0}
  /\ MaxUnpaid \in Nat \ {0}
  /\ MaxTransfers \in Nat
  /\ MaxRestarts \in Nat
ASSUME OwnersAssumption == Owners \subseteq Wallets
ASSUME PricesAssumption == BasePrices \subseteq Nat \ {0}
ASSUME EnvironmentAssumption ==
  /\ DiskOutcomes \subseteq BOOLEAN
  /\ RpcMayFail \in BOOLEAN

VARIABLES
  inv,      \* the in-memory invoice map
  file,     \* the contents of the JSON file
  counter,  \* uniqueCounter, in memory only
  notices,  \* webhook notification ids handled since the process started
  poll,     \* what each reconcile request is waiting for
  chain,    \* transfers to the treasury that are final, in order
  overdue,  \* open invoices whose expiresAt has passed
  restarts, \* number of restarts so far
  boot      \* history: the value of restarts when an invoice was created

vars == <<inv, file, counter, notices, poll, chain, overdue, restarts, boot>>

--------------------------------------------------------------------------------
(* Data.  A transfer is known by its position on the chain, 0 is no transfer. *)

OpenStatuses == {"payment_required", "estimate_ready", "settlement_pending"}
Statuses == OpenStatuses \cup {"expired", "paid"}
SettlementStatuses == Statuses \cup {"recovery_required"}
Methods == {"direct", "gateway"}
Amounts == {base + unique : base \in BasePrices, unique \in 1 .. UniqueRange}
TransferIds == 0 .. MaxTransfers

Invoice ==
  [status : Statuses, settlementStatus : SettlementStatuses,
   paymentMethod : Methods, ownerWallet : Owners, amount : Amounts,
   createdAt : TransferIds,  \* the last transfer over 30 s older than the invoice
   txHash : TransferIds, spendTxHash : TransferIds]

ASSUME NoInvoiceAssumption ==
  /\ NoInvoice \notin Invoice
  /\ NoInvoice \notin [payer : Owners, price : Amounts]

Transfer == [kind : Methods, from : Wallets, amount : Amounts]

Idle == [stage |-> "idle"]
Waiting == [stage : {"gateway", "logs"}, invoice : Invoices, transfer : TransferIds]

Created == {i \in Invoices : inv[i] # NoInvoice}
IsOpen(r) == r # NoInvoice /\ r.status \in OpenStatuses
OpenOf(db, o) == {i \in Invoices : IsOpen(db[i]) /\ db[i].ownerWallet = o}

--------------------------------------------------------------------------------
(* Steps shared by the handlers. *)

(* persistInvoices: the whole map is written after every change; a failed    *)
(* write is logged and forgotten.                                            *)
Save(db) ==
  /\ inv' = db
  /\ \E written \in DiskOutcomes : file' = IF written THEN db ELSE file

(* nextUniqueAmount: the suffix after c, 1 .. UniqueRange round and round.   *)
NextUniqueWrapsEarly(c) == (c % (UniqueRange - 1)) + 1  \* mutant: wraps one value early
NextUnique(c) == (c % UniqueRange) + 1

(* The record getX402Invoice returns: an open invoice whose time is over     *)
(* becomes expired when it is looked at, not before.                         *)
Refreshed(i) ==
  IF IsOpen(inv[i]) /\ i \in overdue
  THEN [inv[i] EXCEPT !.status = "expired",
                      !.settlementStatus = IF @ = "settlement_pending"
                                           THEN "recovery_required"
                                           ELSE "expired"]
  ELSE inv[i]

Refresh(S) == [i \in Invoices |-> IF i \in S THEN Refreshed(i) ELSE inv[i]]

SaveRefreshed(S) ==
  IF Refresh(S) = inv THEN UNCHANGED <<inv, file>> ELSE Save(Refresh(S))

Paid(r, t) == [r EXCEPT !.status = "paid", !.settlementStatus = "paid", !.txHash = t]

Pay(i, t) == Save([inv EXCEPT ![i] = Paid(inv[i], t)])

(* A transfer log that reconcileX402Invoice accepts: the payer, the amount,  *)
(* and a block no older than the invoice - unless the block lookup failed.   *)
LogMatchesAnyPayer(i, t) ==  \* mutant: the payer is not compared
  /\ chain[t].kind = "direct"
  /\ chain[t].amount = inv[i].amount
  /\ t > inv[i].createdAt \/ RpcMayFail

LogMatchesAnyAge(i, t) ==  \* mutant: the age of the block is not compared
  /\ chain[t].kind = "direct"
  /\ chain[t].from = inv[i].ownerWallet
  /\ chain[t].amount = inv[i].amount

LogMatches(i, t) ==
  /\ chain[t].kind = "direct"
  /\ chain[t].from = inv[i].ownerWallet
  /\ chain[t].amount = inv[i].amount
  /\ t > inv[i].createdAt \/ RpcMayFail

(* A Gateway record findFinalizedGatewayTransfer accepts: it was asked for t *)
(* and the invoice still claims t when the answer comes.                     *)
GatewayMatches(i, t) ==
  /\ t \in DOMAIN chain
  /\ chain[t].kind = "gateway"
  /\ chain[t].amount = inv[i].amount
  /\ inv[i].spendTxHash = t

(* An invoice processCircleX402Webhook lets transfer t settle: by amount.    *)
WebhookMatches(r, t) ==
  /\ IsOpen(r)
  /\ r.paymentMethod = "gateway"
  /\ r.amount = chain[t].amount

NewInvoice(o, amount, t) ==
  [status |-> "payment_required", settlementStatus |-> "payment_required",
   paymentMethod |-> "direct", ownerWallet |-> o, amount |-> amount,
   createdAt |-> t, txHash |-> 0, spendTxHash |-> 0]

--------------------------------------------------------------------------------
Init ==
  /\ inv = [i \in Invoices |-> NoInvoice]
  /\ file = inv
  /\ counter = 0
  /\ notices = {}
  /\ poll = [p \in Pollers |-> Idle]
  /\ chain = << >>
  /\ overdue = {}
  /\ restarts = 0
  /\ boot = [i \in Invoices |-> 0]

(* Mutant: the cap is compared with > instead of >=. *)
CreateInvoiceOverCap(i, o, base) ==
  /\ inv[i] = NoInvoice /\ file[i] = NoInvoice
  /\ Cardinality(OpenOf(inv, o)) <= MaxUnpaid
  /\ counter' = NextUnique(counter)
  /\ \E t \in 0 .. Len(chain) :
       Save([inv EXCEPT ![i] = NewInvoice(o, base + counter', t)])
  /\ boot' = [boot EXCEPT ![i] = restarts]
  /\ UNCHANGED <<notices, poll, chain, overdue, restarts>>

(* createX402Invoice, with assertX402AbuseLimits and nextUniqueAmount. *)
CreateInvoice(i, o, base) ==
  /\ inv[i] = NoInvoice /\ file[i] = NoInvoice
  /\ Cardinality(OpenOf(inv, o)) < MaxUnpaid
  /\ counter' = NextUnique(counter)
  /\ \E t \in 0 .. Len(chain) :
       Save([inv EXCEPT ![i] = NewInvoice(o, base + counter', t)])
  /\ boot' = [boot EXCEPT ![i] = restarts]
  /\ UNCHANGED <<notices, poll, chain, overdue, restarts>>

(* expiresAt of an open invoice passes; nothing in the store changes yet. *)
TimePasses(i) ==
  /\ IsOpen(inv[i]) /\ i \notin overdue
  /\ overdue' = overdue \cup {i}
  /\ UNCHANGED <<inv, file, counter, notices, poll, chain, restarts, boot>>

(* Mutant: a paid invoice can be estimated again. *)
EstimateUnguarded(i) ==
  /\ i \in Created
  /\ Save([inv EXCEPT ![i].status = "estimate_ready",
                      ![i].settlementStatus = "estimate_ready"])
  /\ UNCHANGED <<counter, notices, poll, chain, overdue, restarts, boot>>

(* estimateUnifiedBalanceX402 *)
Estimate(i) ==
  /\ i \in Created
  /\ IF IsOpen(Refreshed(i))
     THEN Save([inv EXCEPT ![i].status = "estimate_ready",
                           ![i].settlementStatus = "estimate_ready"])
     ELSE SaveRefreshed({i})
  /\ UNCHANGED <<counter, notices, poll, chain, overdue, restarts, boot>>

(* markUnifiedBalanceSpendSubmitted: the caller names the Gateway transfer   *)
(* it made, final or not, or none (t = 0).                                   *)
SpendSubmitted(i, t) ==
  /\ i \in Created
  /\ IF IsOpen(Refreshed(i))
     THEN Save([inv EXCEPT ![i].status = "settlement_pending",
                           ![i].settlementStatus = "settlement_pending",
                           ![i].paymentMethod = "gateway",
                           ![i].spendTxHash = t])
     ELSE SaveRefreshed({i})
  /\ UNCHANGED <<counter, notices, poll, chain, overdue, restarts, boot>>

(* reconcileX402Invoice up to its first await. *)
ReconcileStart(p, i) ==
  /\ poll[p] = Idle
  /\ i \in Created
  /\ SaveRefreshed({i})
  /\ LET asksGateway == inv[i].paymentMethod = "gateway" /\ inv[i].spendTxHash # 0
     IN  poll' = IF inv[i].status = "paid"
                 THEN poll
                 ELSE [poll EXCEPT ![p] =
                        [stage    |-> IF asksGateway THEN "gateway" ELSE "logs",
                         invoice  |-> i,
                         transfer |-> IF asksGateway THEN inv[i].spendTxHash ELSE 0]]
  /\ UNCHANGED <<counter, notices, chain, overdue, restarts, boot>>

(* The Gateway answers: with the transfer, with nothing usable (the logs are *)
(* read next), or with an error that ends the request.                       *)
ReconcileGateway(p) ==
  /\ poll[p].stage = "gateway"
  /\ LET i == poll[p].invoice
         t == poll[p].transfer
     IN  \/ /\ GatewayMatches(i, t)
            /\ Pay(i, t)
            /\ poll' = [poll EXCEPT ![p] = Idle]
         \/ /\ poll' \in {[poll EXCEPT ![p] = Idle],
                         [poll EXCEPT ![p].stage = "logs", ![p].transfer = 0]}
            /\ UNCHANGED <<inv, file>>
  /\ UNCHANGED <<counter, notices, chain, overdue, restarts, boot>>

(* The Transfer logs are read: any log that matches may be the first one     *)
(* found, and none need be (failed chunks and receipts count as no log).     *)
(* What happened to the invoice during the awaits is not looked at again.    *)
ReconcileLogs(p) ==
  /\ poll[p].stage = "logs"
  /\ \/ \E t \in DOMAIN chain :
          LogMatches(poll[p].invoice, t) /\ Pay(poll[p].invoice, t)
     \/ UNCHANGED <<inv, file>>
  /\ poll' = [poll EXCEPT ![p] = Idle]
  /\ UNCHANGED <<counter, notices, chain, overdue, restarts, boot>>

(* processCircleX402Webhook for a final inbound transfer.  The invoices are  *)
(* walked in map order up to the first match, refreshing each one; a second  *)
(* delivery of the same notification changes nothing.                        *)
Webhook(t) ==
  /\ t \in DOMAIN chain \ notices
  /\ notices' = notices \cup {t}
  /\ LET matching == {i \in Created : WebhookMatches(Refreshed(i), t)}
     IN  \/ \E i \in matching, passed \in SUBSET (Created \ matching) :
              Save([Refresh(passed) EXCEPT ![i] = Paid(inv[i], t)])
         \/ matching = {} /\ SaveRefreshed(Created)
  /\ UNCHANGED <<counter, poll, chain, overdue, restarts, boot>>

(* Somebody's transfer to the treasury becomes final. *)
TransferFinal(kind, w, amount) ==
  /\ Len(chain) < MaxTransfers
  /\ chain' = Append(chain, [kind |-> kind, from |-> w, amount |-> amount])
  /\ UNCHANGED <<inv, file, counter, notices, poll, overdue, restarts, boot>>

(* The process dies and comes back: loadPersistentInvoices. *)
Restart ==
  /\ restarts < MaxRestarts
  /\ restarts' = restarts + 1
  /\ inv' = file
  /\ counter' = 0
  /\ notices' = {}
  /\ poll' = [p \in Pollers |-> Idle]
  /\ UNCHANGED <<file, chain, overdue, boot>>

Next ==
  \/ \E i \in Invoices :
       \/ \E o \in Owners, base \in BasePrices : CreateInvoice(i, o, base)
       \/ TimePasses(i)
       \/ Estimate(i)
       \/ \E t \in TransferIds : SpendSubmitted(i, t)
       \/ \E p \in Pollers : ReconcileStart(p, i)
  \/ \E p \in Pollers : ReconcileGateway(p) \/ ReconcileLogs(p)
  \/ \E t \in TransferIds : Webhook(t)
  \/ \E kind \in Methods, w \in Wallets, amount \in Amounts :
       TransferFinal(kind, w, amount)
  \/ Restart

Spec == Init /\ [][Next]_vars

--------------------------------------------------------------------------------
(* Type invariant of the store and of the requests in flight. *)
TypeOK ==
  /\ inv \in [Invoices -> Invoice \cup {NoInvoice}]
  /\ file \in [Invoices -> Invoice \cup {NoInvoice}]
  /\ counter \in 0 .. UniqueRange
  /\ notices \subseteq DOMAIN chain
  /\ poll \in [Pollers -> Waiting \cup {Idle}]
  /\ chain \in Seq(Transfer) /\ Len(chain) <= MaxTransfers
  /\ overdue \subseteq Invoices
  /\ restarts \in 0 .. MaxRestarts
  /\ boot \in [Invoices -> 0 .. restarts]

EvidencedIn(db) ==
  \A i \in Invoices : db[i] # NoInvoice /\ db[i].status = "paid" =>
    LET t == db[i].txHash IN
    /\ t \in DOMAIN chain
    /\ chain[t].amount = db[i].amount
    /\ db[i].paymentMethod = "direct" =>
         chain[t].kind = "direct" /\ chain[t].from = db[i].ownerWallet

(* "Direct MSCA invoices must reconcile from an Arc Transfer log, where      *)
(* payer binding is available" (x402Middleware.mjs:819-821): however         *)
(* requests, webhooks, restarts and lost writes interleave, a paid invoice   *)
(* names a final transfer of exactly its amount, and a paid direct invoice   *)
(* one its owner made - in memory and in the file alike.                     *)
PaidHasEvidence == EvidencedIn(inv) /\ EvidencedIn(file)

(* docs/arcox-intel.md:111, "caps open invoices per wallet": no sequence of  *)
(* creations, expiries, late webhooks and restarts leaves an owner with more *)
(* open invoices than the cap, and the file never holds more either.         *)
OpenCap ==
  \A o \in Owners : /\ Cardinality(OpenOf(inv, o)) <= MaxUnpaid
                    /\ Cardinality(OpenOf(file, o)) <= MaxUnpaid

(* The 30 s rule at x402Middleware.mjs:395-399: as long as blocks can be     *)
(* looked up, a direct invoice is never settled by a transfer older than     *)
(* itself, even one of the same owner and amount left over from before a     *)
(* restart reset the suffix counter.                                         *)
DirectIsFresh ==
  ~RpcMayFail =>
    \A i \in Created : inv[i].status = "paid" /\ inv[i].paymentMethod = "direct" =>
      inv[i].txHash > inv[i].createdAt

(* What nextUniqueAmount is for (x402Middleware.mjs:155-160): one transfer   *)
(* never settles two invoices created in the same run of the process, if     *)
(* the suffix did not wrap and the prices are further apart than it.         *)
SuffixSeparates ==
  /\ Cardinality(Invoices) <= UniqueRange
  /\ \A b, c \in BasePrices : b < c => c - b >= UniqueRange

OneTransferOneInvoice ==
  SuffixSeparates =>
    \A i, j \in Created :
      /\ i # j /\ boot[i] = boot[j]
      /\ inv[i].status = "paid" /\ inv[j].status = "paid"
      => inv[i].txHash # inv[j].txHash

(* What the ledger sees of an invoice. *)
BillOf(r) == IF r = NoInvoice THEN NoInvoice
             ELSE [payer |-> r.ownerWallet, price |-> r.amount]
ProofOf(r) == IF r # NoInvoice /\ r.status = "paid" THEN r.txHash ELSE 0

Ledger == INSTANCE SettlementLedger WITH
  Bills <- Invoices, Payers <- Owners, NotIssued <- NoInvoice,
  bill <- [i \in Invoices |-> BillOf(inv[i])],
  received <- [t \in DOMAIN chain |-> chain[t].amount],
  proof <- [i \in Invoices |-> ProofOf(inv[i])]

(* The store keeps the promise of SettlementLedger, given that file writes   *)
(* succeed: settled invoices stay settled through races and restarts.        *)
ImplementsLedger == Ledger!LedgerSpec
================================================================================
