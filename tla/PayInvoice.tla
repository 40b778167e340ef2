------------------------------ MODULE PayInvoice ------------------------------
(***************************************************************************)
(* ARCOX Pay invoices (server.mjs) and the Circle Gateway notifications    *)
(* that settle them, with the claim a delivery takes in the database       *)
(* (supabaseOperationalState.mjs and its SQL functions) before it works.   *)
(*                                                                         *)
(* The file of invoices is read and written as a whole.  A handler is      *)
(* atomic between two awaits; what it read before an await and writes      *)
(* after it is the copy in its `work` record.                              *)
(***************************************************************************)
EXTENDS Naturals, FiniteSets

CONSTANTS
  Invoices, NoInvoice,
  Txs, NoTx,
  Settles,     \* pairs <<tx, invoice>>: tx pays the merchant the exact amount
  Notices,     \* notifications of Circle
  EventOf,     \* "deposit", "forwarded", "mint" or "other", per notification
  InvoiceOf,   \* the invoice a notification refers to, or NoInvoice
  TxOf,        \* the transaction it names, or NoTx
  Deliveries,  \* HTTP deliveries, each of one notification
  Payments,    \* mark-paid requests
  Patches,     \* the statuses merchants ask for
  DbModes,     \* whether the claim authority may be configured, or not
  MaxOutages,  \* bound: claims that get no answer
  MaxRestarts  \* bound

Statuses == {"unpaid", "pending", "paid", "expired", "failed", "cancelled"}
Record == [status : Statuses, txHash : Txs \cup {NoTx}]

PayInvoiceAssumption ==
  /\ NoInvoice \notin Invoices \cup Record /\ NoTx \notin Txs
  /\ Settles \subseteq Txs \X Invoices
  /\ EventOf \in [Notices -> {"deposit", "forwarded", "mint", "other"}]
  /\ InvoiceOf \in [Notices -> Invoices \cup {NoInvoice}]
  /\ TxOf \in [Notices -> Txs \cup {NoTx}]
  /\ Patches \subseteq {"unpaid", "pending", "expired", "failed", "cancelled"}
  /\ DbModes \subseteq BOOLEAN /\ MaxOutages \in Nat /\ MaxRestarts \in Nat
ASSUME PayInvoiceAssumption

VARIABLES
  db,       \* invoices-db.json
  overdue,  \* invoices whose expiresAt has passed
  onchain,  \* transactions with a successful receipt
  event,    \* webhook-events-db.json: "none", "received" or "processed"
  claims,   \* webhook_events rows: processed, token holder, lease not expired
  late,     \* notifications whose completion waits in the write queue
  work,     \* deliveries in progress
  pay,      \* mark-paid requests in progress
  applied,  \* history: times a notification changed an invoice
  lapses,   \* history: leases that ran out and claims without an answer
  outages, restarts,
  enabled   \* the claim authority is configured; never changes

vars == <<db, overdue, onchain, event, claims, late, work, pay, applied, lapses,
          outages, restarts, enabled>>

Closed == {"paid", "failed", "cancelled", "expired"}
Db == [Invoices -> Record \cup {NoInvoice}]
Exists(i) == db[i] # NoInvoice

(* What extractWebhookFields finds in the payload of a notification. *)
Fields(n) == [eventType |-> EventOf[n], invoiceId |-> InvoiceOf[n], txHash |-> TxOf[n]]

(* saveInvoices: the whole file is replaced at once, by a rename. *)
SaveInvoices(copy) == db' = copy

(* A read-modify-write of the file of events under its lock directory. *)
StoreEvent(n, state) == event' = [event EXCEPT ![n] = state]

(* refreshInvoiceStatus *)
Refreshed(i) ==
  IF db[i].status \notin Closed /\ i \in overdue
  THEN [db[i] EXCEPT !.status = "expired"]
  ELSE db[i]

Init ==
  /\ db = [i \in Invoices |-> NoInvoice]
  /\ overdue = {} /\ onchain = {}
  /\ event = [n \in Notices |-> "none"]
  /\ claims = [n \in Notices |-> [processed |-> FALSE, holder |-> NoTx, live |-> FALSE]]
  /\ late = {}
  /\ work = [d \in Deliveries |-> [stage |-> "new"]]
  /\ pay = [p \in Payments |-> [stage |-> "new"]]
  /\ applied = [n \in Notices |-> 0] /\ lapses = [n \in Notices |-> 0]
  /\ outages = 0 /\ restarts = 0
  /\ enabled \in DbModes

--------------------------------------------------------------------------------
(* The world. *)

TimePasses(i) ==
  /\ Exists(i) /\ i \notin overdue
  /\ overdue' = overdue \cup {i}
  /\ UNCHANGED <<db, onchain, event, claims, late, work, pay, applied, lapses, outages, restarts, enabled>>

Transfer(t) ==
  /\ t \notin onchain
  /\ onchain' = onchain \cup {t}
  /\ UNCHANGED <<db, overdue, event, claims, late, work, pay, applied, lapses, outages, restarts, enabled>>

--------------------------------------------------------------------------------
(* Requests of merchants and payers. *)

OthersIdle == UNCHANGED <<overdue, onchain, event, claims, late, work, applied, lapses, outages, restarts, enabled>>

(* createInvoice *)
Create(i) ==
  /\ ~Exists(i)
  /\ SaveInvoices([db EXCEPT ![i] = [status |-> "unpaid", txHash |-> NoTx]])
  /\ UNCHANGED pay /\ OthersIdle

(* getInvoiceOrThrow *)
Opened(i) == [db EXCEPT ![i] = Refreshed(i)]

(* patchInvoice: a settled or overdue invoice only closes. *)
MayMove(i, status) ==
  /\ Refreshed(i).status # "paid"
  /\ Refreshed(i).status = "expired" => status = "expired"
  /\ i \in overdue => status \in {"expired", "failed", "cancelled"}

(* PATCH /api/invoices/:id by the merchant. *)
Patch(i, status) ==
  /\ Exists(i)
  /\ SaveInvoices(IF MayMove(i, status) THEN [Opened(i) EXCEPT ![i].status = status]
                                        ELSE Opened(i))
  /\ UNCHANGED pay /\ OthersIdle

(* POST /api/invoices/:id/mark-paid up to the await of the receipt. *)
MarkPaidStart(p, i, t) ==
  /\ pay[p].stage = "new"
  /\ Exists(i)
  /\ SaveInvoices(Opened(i))
  /\ pay' = [pay EXCEPT ![p] = [stage |-> "verifying", invoice |-> i, tx |-> t]]
  /\ OthersIdle

PaymentLogMatchesAny(t, i) == TRUE  \* mutant: the logs are not compared
PaymentLogMatches(t, i) == <<t, i>> \in Settles
Verifies(t, i) == t \in onchain /\ PaymentLogMatches(t, i)

(* markInvoicePaid reads the file again after the await. *)
MarkPaidEnd(p) ==
  /\ pay[p].stage = "verifying"
  /\ LET i == pay[p].invoice
         r == Refreshed(i)
     IN  IF /\ Verifies(pay[p].tx, i)
            /\ Exists(i) /\ r.status \notin {"paid", "expired"} /\ i \notin overdue
         THEN SaveInvoices([db EXCEPT ![i] = [status |-> "paid", txHash |-> pay[p].tx]])
         ELSE UNCHANGED db
  /\ pay' = [pay EXCEPT ![p] = [stage |-> "done"]]
  /\ OthersIdle

(* The receipt cannot be read. *)
MarkPaidThrows(p) ==
  /\ pay[p].stage = "verifying"
  /\ pay' = [pay EXCEPT ![p] = [stage |-> "done"]]
  /\ UNCHANGED db /\ OthersIdle

--------------------------------------------------------------------------------
(* Notifications: the claim. *)

Done(d) == work' = [work EXCEPT ![d] = [stage |-> "done"]]
At(d, stage) == work' = [work EXCEPT ![d].stage = stage]
ClaimUnchanged == UNCHANGED <<db, overdue, onchain, pay, applied, restarts, enabled>>

(* A delivery arrives at /circle-gateway, or at /circle, which only stores;  *)
(* the two differ after the claim.                                           *)
Deliver(d, n) ==
  /\ work[d].stage = "new"
  /\ work' = [work EXCEPT ![d] = [stage |-> "claiming", notice |-> n]]
  /\ UNCHANGED <<event, claims, late, lapses, outages>> /\ ClaimUnchanged

GrantableIgnoringProcessed(n) == ~claims[n].live  \* mutant: the first test is lost
Grantable(n) == ~claims[n].processed /\ ~claims[n].live

(* arcox_claim_webhook_event under its row lock. *)
ClaimLands(d) ==
  /\ enabled
  /\ work[d].stage = "claiming"
  /\ LET n == work[d].notice IN
     IF Grantable(n)
     THEN /\ claims' = [claims EXCEPT ![n].holder = d, ![n].live = TRUE]
          /\ At(d, "claimed")
     ELSE UNCHANGED claims /\ At(d, "refused")
  /\ UNCHANGED <<event, late, lapses, outages>> /\ ClaimUnchanged

AnsweredDuplicate(d) ==
  /\ work[d].stage = "refused"
  /\ Done(d)
  /\ UNCHANGED <<event, claims, late, lapses, outages>> /\ ClaimUnchanged

(* claimWebhookEvent takes a call that failed, landed or not, for a claim.   *)
ClaimUnanswered(d) ==
  /\ enabled
  /\ work[d].stage \in {"claiming", "claimed", "refused"}
  /\ outages < MaxOutages
  /\ outages' = outages + 1
  /\ lapses' = [lapses EXCEPT ![work[d].notice] = @ + 1]
  /\ At(d, "unavailable")
  /\ UNCHANGED <<event, claims, late>> /\ ClaimUnchanged

(* The lease of 120 s runs out. *)
LeaseExpires(n) ==
  /\ claims[n].live
  /\ claims' = [claims EXCEPT ![n].live = FALSE]
  /\ lapses' = [lapses EXCEPT ![n] = @ + 1]
  /\ UNCHANGED <<event, late, work, outages>> /\ ClaimUnchanged

--------------------------------------------------------------------------------
(* Notifications: the work. *)

WorkUnchanged == UNCHANGED <<overdue, onchain, claims, pay, lapses, outages, restarts, enabled>>

(* findInvoiceForWebhook: by reference, else by a transaction already known. *)
Candidates(n) ==
  LET f == Fields(n) IN
  IF f.invoiceId # NoInvoice /\ Exists(f.invoiceId) THEN {f.invoiceId}
  ELSE {i \in Invoices : f.txHash # NoTx /\ Exists(i) /\ db[i].txHash = f.txHash}

(* The synchronous part of updateGenericWebhookEvent, then the await of the  *)
(* completion, or none without a database.                                   *)
Finish(d, n) ==
  /\ StoreEvent(n, "processed")
  /\ work' = [work EXCEPT ![d] = IF enabled THEN [stage |-> "completing", notice |-> n]
                                 ELSE [stage |-> "done"]]

Began(d) == work[d].stage \in {"claimed", "unavailable"} \cup
                              (IF enabled THEN {} ELSE {"claiming"})

(* saveGenericWebhookEvent without a database: the file is the authority.    *)
LocalDuplicate(d) ==
  /\ ~enabled /\ work[d].stage = "claiming"
  /\ event[work[d].notice] # "none"
  /\ Done(d)
  /\ UNCHANGED <<db, event, late, applied>> /\ WorkUnchanged

NewWork(d) == Began(d) /\ (enabled \/ event[work[d].notice] = "none")

(* Nothing to do: no invoice, an event without effect, a paid invoice; or    *)
(* the delivery came to the endpoint that only stores, whatever the event.   *)
NoEffect(d) ==
  /\ NewWork(d)
  /\ Finish(d, work[d].notice)
  /\ UNCHANGED <<db, late, applied>> /\ WorkUnchanged

Moved(r, status, t) == [status |-> status, txHash |-> IF t = NoTx THEN r.txHash ELSE t]

NotPaidUnchecked(i) == TRUE  \* mutant: a settled invoice is moved as well
NotPaid(i) == db[i].status # "paid"

(* A deposit or a forwarded mint: pending, whatever the invoice was before   *)
(* but paid, overdue and cancelled invoices included.                        *)
Progress(d) ==
  /\ NewWork(d)
  /\ LET n == work[d].notice IN
     /\ Fields(n).eventType \in {"deposit", "forwarded"}
     /\ \E i \in Candidates(n) :
          /\ NotPaid(i)
          /\ SaveInvoices([db EXCEPT ![i] = Moved(@, "pending", Fields(n).txHash)])
     /\ Finish(d, n)
     /\ applied' = [applied EXCEPT ![n] = @ + 1]
  /\ UNCHANGED late /\ WorkUnchanged

(* A finalized mint: the whole file is kept across the await of the receipt. *)
VerifyStart(d) ==
  /\ NewWork(d)
  /\ LET n == work[d].notice IN
     /\ Fields(n).eventType = "mint"
     /\ StoreEvent(n, "received")
     /\ \E i \in Candidates(n) :
          /\ db[i].status # "paid"
          /\ IF Fields(n).txHash = NoTx THEN Done(d)
             ELSE work' = [work EXCEPT ![d] =
                    [stage |-> "verifying", notice |-> n, invoice |-> i,
                     snapshot |-> [db EXCEPT ![i] = Refreshed(i)]]]
  /\ UNCHANGED <<db, late, applied>> /\ WorkUnchanged

(* The receipt matches: the copy read before the await is saved. *)
Verified(d) ==
  /\ work[d].stage = "verifying"
  /\ LET n == work[d].notice
         i == work[d].invoice
     IN  /\ Verifies(Fields(n).txHash, i)
         /\ SaveInvoices([work[d].snapshot EXCEPT ![i] = Moved(@, "paid", Fields(n).txHash)])
         /\ Finish(d, n)
         /\ applied' = [applied EXCEPT ![n] = @ + 1]
  /\ UNCHANGED late /\ WorkUnchanged

(* It does not, or cannot be read: the handler throws, and the event stays   *)
(* stored as received.                                                       *)
VerifyThrows(d) ==
  /\ work[d].stage = "verifying"
  /\ Done(d)
  /\ UNCHANGED <<db, event, late, applied>> /\ WorkUnchanged

ReleasedStillLive == [processed |-> TRUE, holder |-> NoTx, live |-> TRUE]  \* mutant: expiry kept
Released == [processed |-> TRUE, holder |-> NoTx, live |-> FALSE]

(* arcox_complete_webhook_event for the token of this delivery; otherwise    *)
(* the event goes to the write queue.                                        *)
Complete(d) ==
  /\ work[d].stage = "completing"
  /\ LET n == work[d].notice IN
     \/ /\ claims[n].holder = d
        /\ claims' = [claims EXCEPT ![n] = Released]
        /\ UNCHANGED late
     \/ late' = late \cup {n} /\ UNCHANGED claims
  /\ Done(d)
  /\ UNCHANGED <<event, lapses, outages>> /\ ClaimUnchanged

LateUpsert(n) ==
  /\ n \in late
  /\ late' = late \ {n}
  /\ claims' = [claims EXCEPT ![n].processed = TRUE]
  /\ UNCHANGED <<event, work, lapses, outages>> /\ ClaimUnchanged

(* The process dies: files and rows stay, requests and the queue are gone.   *)
Restart ==
  /\ restarts < MaxRestarts
  /\ restarts' = restarts + 1
  /\ late' = {}
  /\ work' = [d \in Deliveries |-> IF work[d].stage = "new" THEN work[d] ELSE [stage |-> "done"]]
  /\ pay' = [p \in Payments |-> IF pay[p].stage = "new" THEN pay[p] ELSE [stage |-> "done"]]
  /\ UNCHANGED <<db, overdue, onchain, event, claims, applied, lapses, outages, enabled>>

Next ==
  \/ \E i \in Invoices :
       \/ Create(i) \/ TimePasses(i)
       \/ \E s \in Patches : Patch(i, s)
       \/ \E p \in Payments, t \in Txs : MarkPaidStart(p, i, t)
  \/ \E t \in Txs : Transfer(t)
  \/ \E p \in Payments : MarkPaidEnd(p) \/ MarkPaidThrows(p)
  \/ \E d \in Deliveries :
       \/ \E n \in Notices : Deliver(d, n)
       \/ ClaimLands(d) \/ AnsweredDuplicate(d) \/ ClaimUnanswered(d)
       \/ LocalDuplicate(d) \/ NoEffect(d) \/ Progress(d)
       \/ VerifyStart(d) \/ Verified(d) \/ VerifyThrows(d) \/ Complete(d)
  \/ \E n \in Notices : LeaseExpires(n) \/ LateUpsert(n)
  \/ Restart

Spec == Init /\ [][Next]_vars

--------------------------------------------------------------------------------
Working == [stage : {"new", "done"}]
      \cup [stage : {"claiming", "claimed", "refused", "unavailable"},
            notice : Notices]
      \cup [stage : {"verifying"}, notice : Notices, invoice : Invoices, snapshot : Db]
      \cup [stage : {"completing"}, notice : Notices]

(* Type invariant of the two files, the rows and the requests. *)
TypeOK ==
  /\ db \in Db
  /\ overdue \subseteq Invoices /\ onchain \subseteq Txs /\ late \subseteq Notices
  /\ event \in [Notices -> {"none", "received", "processed"}]
  /\ claims \in [Notices -> [processed : BOOLEAN, holder : Deliveries \cup {NoTx}, live : BOOLEAN]]
  /\ work \in [Deliveries -> Working]
  /\ \A n \in Notices : claims[n].live => claims[n].holder # NoTx
  /\ applied \in [Notices -> Nat] /\ lapses \in [Notices -> Nat]
  /\ enabled \in DbModes
  /\ outages \in 0 .. MaxOutages /\ restarts \in 0 .. MaxRestarts

PaidIn(d) == {i \in Invoices : d[i] # NoInvoice /\ d[i].status = "paid"}

Pays(t, i) == t \in onchain /\ <<t, i>> \in Settles

(* "Payment fields can only be updated by verified on-chain settlement"      *)
(* (server.mjs:3325): a paid invoice names a successful transaction of its   *)
(* amount to its merchant, in the file and in every copy of it that a        *)
(* handler keeps across an await and may still save.                         *)
PaidHasPayment ==
  /\ \A i \in PaidIn(db) : Pays(db[i].txHash, i)
  /\ \A d \in Deliveries : work[d].stage = "verifying" =>
       \A i \in PaidIn(work[d].snapshot) : Pays(work[d].snapshot[i].txHash, i)

(* "Paid invoice cannot be changed" (server.mjs:1563), and no invoice        *)
(* disappears - but for one window: a delivery that waits for a receipt      *)
(* saves the file as it was before (server.mjs:1823-1840) and takes back     *)
(* what happened meanwhile.  No other step does.                             *)
Keeps(i, before, after) ==
  /\ before[i] # NoInvoice => after[i] # NoInvoice
  /\ i \in PaidIn(before) => i \in PaidIn(after)
TakesBackOnlyByOverlap ==
  [][\A i \in Invoices : Keeps(i, db, db')
       \/ \E d \in Deliveries : /\ work[d].stage = "verifying"
                                /\ ~Keeps(i, db, work[d].snapshot)]_vars

(* "Send duplicate webhook and confirm it does not double-process"           *)
(* (docs/sandbox-testing.md:13): however deliveries, failing claims, late    *)
(* completions and restarts interleave, a notification changes an invoice    *)
(* at most once, and once more only for a lease that ran out or a claim      *)
(* that went unanswered.  Without the database the file admits only one.     *)
EffectOnce == \A n \in Notices : applied[n] <= 1 + lapses[n]
================================================================================
