----------------------------- MODULE PaymentProofs -----------------------------
(***************************************************************************)
(* Theorems about the ARCOX Pay invoices (PayInvoice) and the agent cards   *)
(* (Cards), for any number of invoices, transactions, notifications,        *)
(* deliveries and calls, and whatever the bounds.                           *)
(***************************************************************************)
EXTENDS PayInvoice, Cards, FiniteSetTheorems, TLAPS

(* The two files, the rows and the requests. *)
PayTypes ==
  /\ db \in Db
  /\ overdue \subseteq Invoices /\ onchain \subseteq Txs
  /\ event \in [Notices -> {"none", "received", "processed"}]
  /\ claims \in [Notices -> [processed : BOOLEAN, holder : Deliveries \cup {NoTx}, live : BOOLEAN]]
  /\ work \in [Deliveries -> Working]
  /\ applied \in [Notices -> Nat] /\ lapses \in [Notices -> Nat]
  /\ enabled \in BOOLEAN

(* The deliveries that hold a claim of a notification, or go on without one,  *)
(* and may still change its invoice.                                          *)
Appliers(n) ==
  {d \in Deliveries : work[d].stage \in {"claimed", "unavailable", "verifying"} /\ work[d].notice = n}

(* Whoever decides - the row, or the file without a database - admits nobody  *)
(* else for now.                                                              *)
Taken(n) == IF enabled THEN claims[n].processed \/ claims[n].live ELSE event[n] # "none"
Room(n) == lapses[n] + IF Taken(n) THEN 1 ELSE 0

(* The effects a notification had and those that may follow were all admitted *)
(* by the claim that stands or by one that lapsed.                            *)
EffectsLeft(n) ==
  /\ IsFiniteSet(Appliers(n))
  /\ applied[n] + Cardinality(Appliers(n)) <= Room(n)

PayInv ==
  /\ PayTypes
  /\ PaidHasPayment
  /\ \A n \in Notices : EffectsLeft(n)

--------------------------------------------------------------------------------
(* The records of the deliveries. *)

LEMMA WorkFields ==
  ASSUME NEW w \in Working
  PROVE  /\ w.stage \in {"new", "done", "claiming", "claimed", "refused", "unavailable",
                         "verifying", "completing"}
         /\ w.stage \notin {"new", "done"} => w.notice \in Notices
         /\ w.stage = "verifying" => w.invoice \in Invoices /\ w.snapshot \in Db
         /\ w.stage \in {"claiming", "claimed", "refused", "unavailable"} =>
              w \in [stage : {"claiming", "claimed", "refused", "unavailable"}, notice : Notices]
  BY DEF Working

(* A delivery takes its next stage, and the others stay where they are. *)
LEMMA WorkMoves ==
  ASSUME PayTypes, NEW d \in Deliveries, NEW w \in Working,
         work' = [work EXCEPT ![d] = w]
  PROVE  /\ work' \in [Deliveries -> Working] /\ work'[d] = w
         /\ \A e \in Deliveries \ {d} : work'[e] = work[e]
  BY DEF PayTypes

LEMMA StageMoves ==
  ASSUME PayTypes, NEW d \in Deliveries, NEW stage \in {"claiming", "claimed", "refused", "unavailable"},
         work[d].stage \in {"claiming", "claimed", "refused", "unavailable"},
         At(d, stage)
  PROVE  /\ work' \in [Deliveries -> Working]
         /\ work'[d] = [stage |-> stage, notice |-> work[d].notice]
         /\ \A e \in Deliveries \ {d} : work'[e] = work[e]
  <1>. DEFINE w == [stage |-> stage, notice |-> work[d].notice]
  <1>1. work[d] \in [stage : {"claiming", "claimed", "refused", "unavailable"}, notice : Notices]
    BY WorkFields DEF PayTypes
  <1>2. [work[d] EXCEPT !.stage = stage] = w
    BY <1>1
  <1>3. work' = [work EXCEPT ![d] = w]
    BY <1>2 DEF At, PayTypes
  <1>4. w \in Working
    BY <1>1 DEF Working
  <1>. QED
    BY <1>3, <1>4, WorkMoves

(* How the effects of a notification and those that may follow change. *)
LEMMA EffectsKept ==
  ASSUME NEW n \in Notices, PayTypes, PayTypes', EffectsLeft(n), NEW d,
         \/ /\ Appliers(n)' \subseteq Appliers(n)
            /\ applied'[n] = applied[n] /\ Room(n)' >= Room(n)
         \/ /\ d \in Appliers(n) /\ Appliers(n)' \subseteq Appliers(n) \ {d}
            /\ applied'[n] = applied[n] + 1 /\ Room(n)' >= Room(n)
         \/ /\ Appliers(n)' \subseteq Appliers(n) \cup {d}
            /\ applied'[n] = applied[n] /\ Room(n)' >= Room(n) + 1
         \/ /\ Appliers(n)' \subseteq Appliers(n)
            /\ applied'[n] = applied[n] + 1 /\ Room(n)' >= Room(n) + 1
  PROVE  EffectsLeft(n)'
  <1>. DEFINE A == Appliers(n)
              B == Appliers(n)'
  <1>1. IsFiniteSet(A) /\ Cardinality(A) \in Nat /\ applied[n] + Cardinality(A) <= Room(n)
    BY FS_CardinalityType DEF EffectsLeft
  <1>2. /\ Room(n) \in Nat /\ Room(n)' \in Nat
        /\ applied[n] \in Nat /\ applied'[n] \in Nat
    BY DEF PayTypes, Room
  <1>a. \/ B \subseteq A
        \/ d \in A /\ B \subseteq A \ {d}
        \/ B \subseteq A \cup {d}
    OBVIOUS
  <1>. HIDE DEF A
  <1>3. /\ IsFiniteSet(A \cup {d})
        /\ Cardinality(A \cup {d}) = IF d \in A THEN Cardinality(A) ELSE Cardinality(A) + 1
    BY <1>1, FS_AddElement
  <1>b. Cardinality(A \cup {d}) \in Nat
    BY <1>3, FS_CardinalityType
  <1>4. /\ IsFiniteSet(A \ {d}) /\ Cardinality(A \ {d}) \in Nat
        /\ d \in A => Cardinality(A \ {d}) = Cardinality(A) - 1
    BY <1>1, FS_RemoveElement, FS_CardinalityType
  <1>5. /\ B \subseteq A => IsFiniteSet(B) /\ Cardinality(B) <= Cardinality(A)
        /\ B \subseteq A \ {d} => IsFiniteSet(B) /\ Cardinality(B) <= Cardinality(A \ {d})
        /\ B \subseteq A \cup {d} => IsFiniteSet(B) /\ Cardinality(B) <= Cardinality(A \cup {d})
    BY <1>1, <1>3, <1>4, FS_Subset
  <1>6. IsFiniteSet(B)
    BY <1>5, <1>a
  <1>7. Cardinality(B) \in Nat
    BY <1>6, FS_CardinalityType
  <1>. HIDE DEF B
  <1>8. applied'[n] + Cardinality(B) <= Room(n)'
    BY <1>1, <1>2, <1>3, <1>4, <1>5, <1>7, <1>b DEF A, B
  <1>. QED
    BY <1>6, <1>8 DEF EffectsLeft, B

--------------------------------------------------------------------------------
(* The file of invoices: who is paid in it, and by what. *)

Receipt(t, i, receipts) == t \in receipts /\ <<t, i>> \in Settles

(* A file, or a copy of it, in which the paid invoices have their receipts. *)
Sound(file, receipts) == \A i \in PaidIn(file) : Receipt(file[i].txHash, i, receipts)

LEMMA PaidMeansSound ==
  PaidHasPayment <=>
    /\ Sound(db, onchain)
    /\ \A d \in Deliveries : work[d].stage = "verifying" => Sound(work[d].snapshot, onchain)
  BY DEF PaidHasPayment, Sound, Receipt, Pays

LEMMA SoundMeansPaid ==
  ASSUME Sound(db', onchain'),
         \A d \in Deliveries : work'[d].stage = "verifying" => Sound(work'[d].snapshot, onchain')
  PROVE  PaidHasPayment'
  BY DEF PaidHasPayment, Sound, Receipt, Pays, PaidIn

LEMMA ReceiptsStay ==
  ASSUME NEW file, NEW earlier, NEW later, earlier \subseteq later, Sound(file, earlier)
  PROVE  Sound(file, later)
  BY DEF Sound, Receipt

LEMMA ReceiptIsTyped ==
  ASSUME PayInvoiceAssumption, NEW t, NEW i, <<t, i>> \in Settles
  PROVE  t \in Txs /\ i \in Invoices
  BY DEF PayInvoiceAssumption

(* One record is written. *)
LEMMA RecordWritten ==
  ASSUME NEW file \in Db, NEW i \in Invoices, NEW r \in Record, NEW receipts,
         Sound(file, receipts), r.status = "paid" => Receipt(r.txHash, i, receipts)
  PROVE  [file EXCEPT ![i] = r] \in Db /\ Sound([file EXCEPT ![i] = r], receipts)
  <1>. DEFINE new == [file EXCEPT ![i] = r]
  <1>1. new \in Db /\ new[i] = r /\ \A j \in Invoices \ {i} : new[j] = file[j]
    BY DEF Db
  <1>. HIDE DEF new
  <1>2. ASSUME NEW j \in PaidIn(new) PROVE Receipt(new[j].txHash, j, receipts)
    <2>1. CASE j = i
      BY <1>1, <1>2, <2>1 DEF PaidIn
    <2>2. CASE j # i
      BY <1>1, <1>2, <2>2 DEF PaidIn, Sound
    <2>. QED
      BY <2>1, <2>2
  <1>3. Sound(new, receipts)
    BY <1>2 DEF Sound
  <1>. QED
    BY <1>1, <1>3 DEF new

(* What refreshInvoiceStatus makes of a record. *)
LEMMA RefreshedRecord ==
  ASSUME PayTypes, NEW i \in Invoices, Exists(i), Sound(db, onchain)
  PROVE  /\ db[i] \in Record /\ Refreshed(i) \in Record
         /\ Refreshed(i).status = "paid" => Receipt(Refreshed(i).txHash, i, onchain)
  <1>1. db[i] \in Record
    BY DEF PayTypes, Db, Exists
  <1>2. db[i].status = "paid" => Receipt(db[i].txHash, i, onchain)
    BY DEF Sound, PaidIn, Exists
  <1>3. CASE Refreshed(i) = db[i]
    BY <1>1, <1>2, <1>3
  <1>4. CASE Refreshed(i) # db[i]
    BY <1>1, <1>4 DEF Refreshed, Record, Statuses
  <1>. QED
    BY <1>3, <1>4

LEMMA RecordOpened ==
  ASSUME PayTypes, NEW i \in Invoices, Exists(i), Sound(db, onchain)
  PROVE  Opened(i) \in Db /\ Sound(Opened(i), onchain)
  BY RefreshedRecord, RecordWritten DEF Opened, PayTypes

LEMMA StatusRecord ==
  ASSUME NEW r \in Record, NEW s \in Statuses
  PROVE  [r EXCEPT !.status = s] \in Record /\ [r EXCEPT !.status = s].status = s
  BY DEF Record

LEMMA MerchantSteps ==
  ASSUME PayInv, PayInvoiceAssumption, NEW i \in Invoices,
         \/ Create(i)
         \/ \E s \in Patches : Patch(i, s)
         \/ \E p \in Payments, t \in Txs : MarkPaidStart(p, i, t)
  PROVE  OthersIdle /\ db' \in Db /\ Sound(db', onchain)
  <1>. DEFINE Goal == OthersIdle /\ db' \in Db /\ Sound(db', onchain)
  <1>0. PayTypes /\ db \in Db /\ Sound(db, onchain)
    BY PaidMeansSound DEF PayInv, PayTypes
  <1>1. ASSUME Create(i) PROVE Goal
    <2>. DEFINE r == [status |-> "unpaid", txHash |-> NoTx]
    <2>1. r \in Record /\ r.status # "paid" /\ OthersIdle /\ db' = [db EXCEPT ![i] = r]
      BY <1>1 DEF Record, Statuses, Create, SaveInvoices
    <2>. QED
      BY <1>0, <2>1, RecordWritten
  <1>2. ASSUME NEW s \in Patches, Patch(i, s) PROVE Goal
    <2>1. Exists(i) /\ OthersIdle
      BY <1>2 DEF Patch
    <2>2. CASE MayMove(i, s)
      <3>. DEFINE r == [Refreshed(i) EXCEPT !.status = s]
      <3>1. Refreshed(i) \in Record /\ s \in Statuses /\ s # "paid"
        BY <1>0, <2>1, RefreshedRecord, PayInvoiceAssumption DEF Statuses, PayInvoiceAssumption
      <3>2. r \in Record /\ r.status # "paid"
        BY <3>1, StatusRecord
      <3>3. [Opened(i) EXCEPT ![i].status = s] = [db EXCEPT ![i] = r]
        BY <1>0 DEF Opened, Db
      <3>4. db' = [db EXCEPT ![i] = r]
        BY <1>2, <2>2, <3>3 DEF Patch, SaveInvoices
      <3>. HIDE DEF r
      <3>. QED
        BY <1>0, <2>1, <3>2, <3>4, RecordWritten
    <2>3. CASE ~MayMove(i, s)
      <3>1. db' = Opened(i)
        BY <1>2, <2>3 DEF Patch, SaveInvoices
      <3>. QED
        BY <1>0, <2>1, <3>1, RecordOpened
    <2>. QED
      BY <2>2, <2>3
  <1>3. ASSUME NEW p \in Payments, NEW t \in Txs, MarkPaidStart(p, i, t) PROVE Goal
    <2>1. Exists(i) /\ OthersIdle /\ db' = Opened(i)
      BY <1>3 DEF MarkPaidStart, SaveInvoices
    <2>. QED
      BY <1>0, <2>1, RecordOpened
  <1>. QED
    BY <1>1, <1>2, <1>3

LEMMA PaymentSteps ==
  ASSUME PayInv, PayInvoiceAssumption, NEW p \in Payments, MarkPaidEnd(p) \/ MarkPaidThrows(p)
  PROVE  OthersIdle /\ db' \in Db /\ Sound(db', onchain)
  <1>. DEFINE i == pay[p].invoice
              t == pay[p].tx
              r == [status |-> "paid", txHash |-> t]
  <1>0. PayTypes /\ db \in Db /\ Sound(db, onchain) /\ OthersIdle
    BY PaidMeansSound DEF PayInv, PayTypes, MarkPaidEnd, MarkPaidThrows
  <1>1. CASE db' = db
    BY <1>0, <1>1
  <1>2. CASE db' # db
    <2>1. MarkPaidEnd(p) /\ Verifies(t, i)
      BY <1>2 DEF MarkPaidEnd, MarkPaidThrows
    <2>2. db' = [db EXCEPT ![i] = r]
      BY <1>2, <2>1 DEF MarkPaidEnd, SaveInvoices
    <2>3. <<t, i>> \in Settles /\ t \in onchain
      BY <2>1 DEF Verifies, PaymentLogMatches
    <2>. HIDE DEF i, t
    <2>4. t \in Txs /\ i \in Invoices
      BY <2>3, ReceiptIsTyped, PayInvoiceAssumption
    <2>5. r \in Record /\ Receipt(r.txHash, i, onchain)
      BY <2>3, <2>4 DEF Record, Statuses, Receipt
    <2>. HIDE DEF r
    <2>. QED
      BY <1>0, <2>2, <2>4, <2>5, RecordWritten
  <1>. QED
    BY <1>1, <1>2

--------------------------------------------------------------------------------
(* Steps that change no claim. *)

LEMMA FileStepKeepsPayInv ==
  ASSUME PayInv, OthersIdle, db' \in Db, Sound(db', onchain)
  PROVE  PayInv'
  <1>1. PayTypes'
    BY DEF PayInv, PayTypes, OthersIdle
  <1>2. PaidHasPayment'
    BY PaidMeansSound, SoundMeansPaid DEF PayInv, OthersIdle
  <1>3. \A n \in Notices : EffectsLeft(n)'
    BY DEF PayInv, EffectsLeft, Appliers, Room, Taken, OthersIdle
  <1>. QED
    BY <1>1, <1>2, <1>3 DEF PayInv

LEMMA WorldStepKeepsPayInv ==
  ASSUME PayInv,
         \/ \E i \in Invoices : TimePasses(i)
         \/ \E t \in Txs : Transfer(t)
  PROVE  PayInv'
  <1>1. /\ UNCHANGED <<db, event, claims, work, applied, lapses, enabled>>
        /\ onchain \subseteq onchain' /\ onchain' \subseteq Txs /\ overdue' \subseteq Invoices
    BY DEF TimePasses, Transfer, PayInv, PayTypes
  <1>2. PayTypes'
    BY <1>1 DEF PayInv, PayTypes
  <1>3. Sound(db', onchain')
    BY <1>1, ReceiptsStay, PaidMeansSound DEF PayInv
  <1>4. ASSUME NEW d \in Deliveries, work'[d].stage = "verifying"
        PROVE  Sound(work'[d].snapshot, onchain')
    BY <1>1, <1>4, ReceiptsStay, PaidMeansSound DEF PayInv
  <1>5. PaidHasPayment'
    BY <1>3, <1>4, SoundMeansPaid
  <1>6. \A n \in Notices : EffectsLeft(n)'
    BY <1>1 DEF PayInv, EffectsLeft, Appliers, Room, Taken
  <1>. QED
    BY <1>2, <1>5, <1>6 DEF PayInv

--------------------------------------------------------------------------------
(* Steps of one delivery. *)

Applies(d, n) == work[d].stage \in {"claimed", "unavailable", "verifying"} /\ work[d].notice = n

LEMMA OneMoves ==
  ASSUME NEW d \in Deliveries, \A e \in Deliveries \ {d} : work'[e] = work[e], NEW n
  PROVE  /\ Appliers(n)' \subseteq Appliers(n) \cup {d}
         /\ ~Applies(d, n)' => Appliers(n)' \subseteq Appliers(n) \ {d}
         /\ Applies(d, n) => d \in Appliers(n) /\ Appliers(n)' \subseteq Appliers(n)
  BY DEF Appliers, Applies

(* The files and the receipts, when the delivery keeps no copy afterwards. *)
LEMMA DeliveryKeepsPayments ==
  ASSUME PayInv, onchain' = onchain, Sound(db', onchain), NEW d \in Deliveries,
         \A e \in Deliveries \ {d} : work'[e] = work[e],
         work'[d].stage = "verifying" => Sound(work'[d].snapshot, onchain)
  PROVE  PaidHasPayment'
  <1>1. ASSUME NEW e \in Deliveries, work'[e].stage = "verifying"
        PROVE  Sound(work'[e].snapshot, onchain')
    BY <1>1, PaidMeansSound DEF PayInv
  <1>. QED
    BY <1>1, SoundMeansPaid

(* What a delivery and its notification do to the room for effects. *)
LEMMA DeliveryKeepsPayInv ==
  ASSUME PayInv, PayTypes', PaidHasPayment', NEW d \in Deliveries, NEW n \in Notices,
         \A e \in Deliveries \ {d} : work'[e] = work[e],
         \A m \in Notices \ {n} : /\ ~Applies(d, m)' \/ work'[d] = work[d]
                                  /\ applied'[m] = applied[m] /\ Room(m)' >= Room(m),
         \/ /\ ~Applies(d, n)' \/ Applies(d, n)
            /\ applied'[n] = applied[n] /\ Room(n)' >= Room(n)
         \/ /\ Applies(d, n) /\ ~Applies(d, n)'
            /\ applied'[n] = applied[n] + 1 /\ Room(n)' >= Room(n)
         \/ applied'[n] = applied[n] /\ Room(n)' >= Room(n) + 1
         \/ /\ ~Applies(d, n)'
            /\ applied'[n] = applied[n] + 1 /\ Room(n)' >= Room(n) + 1
  PROVE  PayInv'
  <1>0. PayTypes /\ PayTypes' /\ \A m \in Notices : EffectsLeft(m)
    BY DEF PayInv
  <1>1. ASSUME NEW m \in Notices \ {n} PROVE EffectsLeft(m)'
    <2>1. Appliers(m)' \subseteq Appliers(m)
      BY OneMoves DEF Appliers
    <2>. QED
      BY <1>0, <2>1, EffectsKept
  <1>2. EffectsLeft(n)'
    <2>1. CASE /\ ~Applies(d, n)' \/ Applies(d, n)
               /\ applied'[n] = applied[n] /\ Room(n)' >= Room(n)
      <3>1. Appliers(n)' \subseteq Appliers(n)
        BY <2>1, OneMoves
      <3>. QED
        BY <1>0, <2>1, <3>1, EffectsKept
    <2>2. CASE /\ Applies(d, n) /\ ~Applies(d, n)'
               /\ applied'[n] = applied[n] + 1 /\ Room(n)' >= Room(n)
      <3>1. d \in Appliers(n) /\ Appliers(n)' \subseteq Appliers(n) \ {d}
        BY <2>2, OneMoves
      <3>. QED
        BY <1>0, <2>2, <3>1, EffectsKept
    <2>3. CASE applied'[n] = applied[n] /\ Room(n)' >= Room(n) + 1
      <3>1. Appliers(n)' \subseteq Appliers(n) \cup {d}
        BY OneMoves
      <3>. QED
        BY <1>0, <2>3, <3>1, EffectsKept
    <2>4. CASE /\ ~Applies(d, n)'
               /\ applied'[n] = applied[n] + 1 /\ Room(n)' >= Room(n) + 1
      <3>1. Appliers(n)' \subseteq Appliers(n)
        BY <2>4, OneMoves
      <3>. QED
        BY <1>0, <2>4, <3>1, EffectsKept
    <2>. QED
      BY <2>1, <2>2, <2>3, <2>4
  <1>. QED
    BY <1>1, <1>2 DEF PayInv

(* The claim. *)

(* Nobody's room shrinks, and the delivery comes to no effect by it. *)
LEMMA QuietDelivery ==
  ASSUME PayInv, PayTypes', NEW d \in Deliveries,
         \A e \in Deliveries \ {d} : work'[e] = work[e],
         work'[d].stage \notin {"claimed", "unavailable", "verifying"},
         UNCHANGED <<db, onchain, applied>>,
         \A n \in Notices : Room(n)' >= Room(n)
  PROVE  PayInv'
  <1>1. PaidHasPayment'
    BY DeliveryKeepsPayments, PaidMeansSound DEF PayInv
  <1>2. ASSUME NEW n \in Notices PROVE EffectsLeft(n)'
    <2>1. Appliers(n)' \subseteq Appliers(n)
      BY DEF Appliers
    <2>. QED
      BY <2>1, EffectsKept DEF PayInv
  <1>. QED
    BY <1>1, <1>2 DEF PayInv

LEMMA DeliverKeepsPayInv ==
  ASSUME PayInv, NEW d \in Deliveries, NEW n \in Notices, Deliver(d, n)
  PROVE  PayInv'
  <1>. DEFINE w == [stage |-> "claiming", notice |-> n]
  <1>1. w \in Working
    BY DEF Working
  <1>2. work' \in [Deliveries -> Working] /\ work'[d] = w /\ \A e \in Deliveries \ {d} : work'[e] = work[e]
    BY <1>1, WorkMoves DEF Deliver, PayInv
  <1>3. /\ UNCHANGED <<db, overdue, onchain, applied, enabled, event, claims, lapses>>
        /\ work'[d].stage = "claiming"
    BY <1>2 DEF Deliver, ClaimUnchanged
  <1>4. PayTypes'
    BY <1>2, <1>3 DEF PayInv, PayTypes
  <1>5. \A m \in Notices : Room(m)' >= Room(m)
    BY <1>3 DEF Room, Taken, PayInv, PayTypes
  <1>. QED
    BY <1>2, <1>3, <1>4, <1>5, QuietDelivery

LEMMA DoneDelivery ==
  ASSUME PayInv, NEW d \in Deliveries, Done(d)
  PROVE  /\ work' \in [Deliveries -> Working] /\ work'[d].stage = "done"
         /\ \A e \in Deliveries \ {d} : work'[e] = work[e]
  <1>1. [stage |-> "done"] \in Working
    BY DEF Working
  <1>. QED
    BY <1>1, WorkMoves DEF Done, PayInv

(* A delivery that ends without an effect, by itself or with its completion. *)
LEMMA EndingKeepsPayInv ==
  ASSUME PayInv, NEW d \in Deliveries,
         AnsweredDuplicate(d) \/ LocalDuplicate(d) \/ VerifyThrows(d) \/ Complete(d)
  PROVE  PayInv'
  <1>0. PayTypes
    BY DEF PayInv
  <1>1. Done(d)
    BY DEF AnsweredDuplicate, LocalDuplicate, VerifyThrows, Complete
  <1>2. UNCHANGED <<db, overdue, onchain, applied, enabled, event, lapses>>
    BY DEF AnsweredDuplicate, LocalDuplicate, VerifyThrows, Complete, ClaimUnchanged, WorkUnchanged
  <1>3. /\ claims' \in [Notices -> [processed : BOOLEAN, holder : Deliveries \cup {NoTx}, live : BOOLEAN]]
        /\ \A n \in Notices : claims[n].processed => claims'[n].processed
        /\ \A n \in Notices : claims'[n] # claims[n] => claims'[n].processed
    <2>1. CASE Complete(d)
      <3>1. CASE UNCHANGED claims
        BY <1>0, <3>1 DEF PayTypes
      <3>2. CASE claims' # claims
        <4>1. PICK n \in Notices : claims' = [claims EXCEPT ![n] = Released]
          <5>1. work[d].notice \in Notices
            BY <1>0, <2>1, WorkFields DEF PayTypes, Complete
          <5>. QED
            BY <2>1, <3>2, <5>1 DEF Complete
        <4>. QED
          BY <1>0, <4>1 DEF PayTypes, Released
      <3>. QED
        BY <3>1, <3>2
    <2>2. CASE ~Complete(d)
      <3>1. UNCHANGED claims
        BY <2>2 DEF AnsweredDuplicate, LocalDuplicate, VerifyThrows, WorkUnchanged
      <3>. QED
        BY <1>0, <3>1 DEF PayTypes
    <2>. QED
      BY <2>1, <2>2
  <1>4. /\ work' \in [Deliveries -> Working] /\ work'[d].stage = "done"
        /\ \A e \in Deliveries \ {d} : work'[e] = work[e]
    BY <1>1, DoneDelivery
  <1>5. PayTypes'
    BY <1>0, <1>2, <1>3, <1>4 DEF PayTypes
  <1>6. \A n \in Notices : Room(n)' >= Room(n)
    BY <1>0, <1>2, <1>3 DEF Room, Taken, PayTypes
  <1>. QED
    BY <1>2, <1>4, <1>5, <1>6, QuietDelivery

LEMMA ClaimLandsKeepsPayInv ==
  ASSUME PayInv, NEW d \in Deliveries, ClaimLands(d)
  PROVE  PayInv'
  <1>0. PayTypes /\ work[d].stage = "claiming" /\ enabled
    BY DEF PayInv, ClaimLands
  <1>n. PICK n \in Notices : n = work[d].notice
    BY <1>0, WorkFields DEF PayTypes
  <1>1. UNCHANGED <<db, overdue, onchain, applied, enabled, event, lapses>>
    BY DEF ClaimLands, ClaimUnchanged
  <1>2. CASE Grantable(n)
    <2>1. claims' = [claims EXCEPT ![n].holder = d, ![n].live = TRUE] /\ At(d, "claimed")
      BY <1>2, <1>n DEF ClaimLands
    <2>2. /\ work' \in [Deliveries -> Working]
          /\ work'[d] = [stage |-> "claimed", notice |-> n]
          /\ \A e \in Deliveries \ {d} : work'[e] = work[e]
      BY <1>0, <1>n, <2>1, StageMoves
    <2>3. /\ claims' \in [Notices -> [processed : BOOLEAN, holder : Deliveries \cup {NoTx}, live : BOOLEAN]]
          /\ claims'[n].live /\ \A m \in Notices \ {n} : claims'[m] = claims[m]
      BY <1>0, <2>1 DEF PayTypes
    <2>4. PayTypes'
      BY <1>0, <1>1, <2>2, <2>3 DEF PayTypes
    <2>5. PaidHasPayment'
      BY <1>1, <2>2, DeliveryKeepsPayments, PaidMeansSound DEF PayInv
    <2>6. Room(n)' >= Room(n) + 1
      BY <1>0, <1>1, <1>2, <2>3 DEF Room, Taken, Grantable, PayTypes
    <2>7. \A m \in Notices \ {n} : ~Applies(d, m)' /\ Room(m)' >= Room(m)
      BY <1>0, <1>1, <2>2, <2>3 DEF Room, Taken, Applies, PayTypes
    <2>. QED
      BY <1>0, <1>1, <2>2, <2>4, <2>5, <2>6, <2>7, DeliveryKeepsPayInv
  <1>3. CASE ~Grantable(n)
    <2>1. UNCHANGED claims /\ At(d, "refused")
      BY <1>3, <1>n DEF ClaimLands
    <2>2. /\ work' \in [Deliveries -> Working]
          /\ work'[d] = [stage |-> "refused", notice |-> n]
          /\ \A e \in Deliveries \ {d} : work'[e] = work[e]
      BY <1>0, <1>n, <2>1, StageMoves
    <2>3. PayTypes' /\ work'[d].stage = "refused"
      BY <1>0, <1>1, <2>1, <2>2 DEF PayTypes
    <2>4. \A m \in Notices : Room(m)' >= Room(m)
      BY <1>0, <1>1, <2>1 DEF Room, Taken, PayTypes
    <2>. QED
      BY <1>1, <2>2, <2>3, <2>4, QuietDelivery
  <1>. QED
    BY <1>2, <1>3

LEMMA ClaimUnansweredKeepsPayInv ==
  ASSUME PayInv, NEW d \in Deliveries, ClaimUnanswered(d)
  PROVE  PayInv'
  <1>0. PayTypes /\ work[d].stage \in {"claiming", "claimed", "refused"}
    BY DEF PayInv, ClaimUnanswered
  <1>n. PICK n \in Notices : n = work[d].notice
    BY <1>0, WorkFields DEF PayTypes
  <1>1. UNCHANGED <<db, overdue, onchain, applied, enabled, event, claims>>
    BY DEF ClaimUnanswered, ClaimUnchanged
  <1>2. lapses' = [lapses EXCEPT ![n] = @ + 1] /\ At(d, "unavailable")
    BY <1>n DEF ClaimUnanswered
  <1>3. /\ work' \in [Deliveries -> Working]
        /\ work'[d] = [stage |-> "unavailable", notice |-> n]
        /\ \A e \in Deliveries \ {d} : work'[e] = work[e]
    BY <1>0, <1>n, <1>2, StageMoves
  <1>4. /\ lapses' \in [Notices -> Nat] /\ lapses'[n] = lapses[n] + 1
        /\ \A m \in Notices \ {n} : lapses'[m] = lapses[m]
    BY <1>0, <1>2 DEF PayTypes
  <1>5. PayTypes'
    BY <1>0, <1>1, <1>3, <1>4 DEF PayTypes
  <1>6. PaidHasPayment'
    BY <1>1, <1>3, DeliveryKeepsPayments, PaidMeansSound DEF PayInv
  <1>7. /\ Room(n)' >= Room(n) + 1
        /\ \A m \in Notices \ {n} : Room(m)' >= Room(m)
    BY <1>0, <1>1, <1>4 DEF Room, Taken, PayTypes
  <1>8. \A m \in Notices \ {n} : ~Applies(d, m)'
    BY <1>3 DEF Applies
  <1>. QED
    BY <1>0, <1>1, <1>3, <1>5, <1>6, <1>7, <1>8, DeliveryKeepsPayInv

(* The rows by themselves: a lease runs out, a completion arrives. *)
LEMMA RowStepKeepsPayInv ==
  ASSUME PayInv, NEW n \in Notices, LeaseExpires(n) \/ LateUpsert(n)
  PROVE  PayInv'
  <1>0. PayTypes
    BY DEF PayInv
  <1>1. UNCHANGED <<db, overdue, onchain, applied, enabled, event, work>>
    BY DEF LeaseExpires, LateUpsert, ClaimUnchanged
  <1>2. /\ claims' \in [Notices -> [processed : BOOLEAN, holder : Deliveries \cup {NoTx}, live : BOOLEAN]]
        /\ \A m \in Notices : claims[m].processed => claims'[m].processed
        /\ lapses' \in [Notices -> Nat]
        /\ \A m \in Notices : \/ claims'[m].live = claims[m].live /\ lapses'[m] = lapses[m]
                              \/ lapses'[m] = lapses[m] + 1
    <2>1. CASE LeaseExpires(n)
      <3>1. claims' = [claims EXCEPT ![n].live = FALSE] /\ lapses' = [lapses EXCEPT ![n] = @ + 1]
        BY <2>1 DEF LeaseExpires
      <3>2. /\ claims' \in [Notices -> [processed : BOOLEAN, holder : Deliveries \cup {NoTx}, live : BOOLEAN]]
            /\ \A m \in Notices : claims'[m].processed = claims[m].processed
            /\ \A m \in Notices \ {n} : claims'[m] = claims[m]
        BY <1>0, <3>1 DEF PayTypes
      <3>3. /\ lapses' \in [Notices -> Nat] /\ lapses'[n] = lapses[n] + 1
            /\ \A m \in Notices \ {n} : lapses'[m] = lapses[m]
        BY <1>0, <3>1 DEF PayTypes
      <3>. QED
        BY <3>2, <3>3
    <2>2. CASE LateUpsert(n)
      <3>1. claims' = [claims EXCEPT ![n].processed = TRUE] /\ UNCHANGED lapses
        BY <2>2 DEF LateUpsert
      <3>. QED
        BY <1>0, <3>1 DEF PayTypes
    <2>. QED
      BY <2>1, <2>2
  <1>3. PayTypes'
    BY <1>0, <1>1, <1>2 DEF PayTypes
  <1>4. PaidHasPayment'
    BY <1>1 DEF PayInv, PaidHasPayment, PaidIn, Pays
  <1>5. ASSUME NEW m \in Notices PROVE EffectsLeft(m)'
    <2>1. Room(m)' >= Room(m)
      BY <1>0, <1>1, <1>2 DEF Room, Taken, PayTypes
    <2>2. Appliers(m)' = Appliers(m)
      BY <1>1 DEF Appliers
    <2>. QED
      BY <1>1, <1>3, <2>1, <2>2, EffectsKept DEF PayInv
  <1>. QED
    BY <1>3, <1>4, <1>5 DEF PayInv

LEMMA RestartKeepsPayInv ==
  ASSUME PayInv, Restart
  PROVE  PayInv'
  <1>0. PayTypes
    BY DEF PayInv
  <1>1. UNCHANGED <<db, overdue, onchain, applied, enabled, event, claims, lapses>>
    BY DEF Restart
  <1>2. /\ work' \in [Deliveries -> Working]
        /\ \A d \in Deliveries : work'[d].stage \in {"new", "done"}
    <2>1. [stage |-> "done"] \in Working
      BY DEF Working
    <2>. QED
      BY <1>0, <2>1 DEF Restart, PayTypes
  <1>3. PayTypes'
    BY <1>0, <1>1, <1>2 DEF PayTypes
  <1>4. PaidHasPayment'
    BY <1>1, <1>2, PaidMeansSound, SoundMeansPaid DEF PayInv
  <1>5. ASSUME NEW m \in Notices PROVE EffectsLeft(m)'
    <2>1. Room(m)' >= Room(m)
      BY <1>0, <1>1 DEF Room, Taken, PayTypes
    <2>2. Appliers(m)' \subseteq Appliers(m)
      BY <1>2 DEF Appliers
    <2>. QED
      BY <1>1, <1>3, <2>1, <2>2, EffectsKept DEF PayInv
  <1>. QED
    BY <1>3, <1>4, <1>5 DEF PayInv

--------------------------------------------------------------------------------
(* The work of a delivery. *)

LEMMA DoneIsWorking == [stage |-> "done"] \in Working
  BY DEF Working

LEMMA FinishedWork ==
  ASSUME PayTypes, NEW d \in Deliveries, NEW n \in Notices, Finish(d, n)
  PROVE  /\ event' \in [Notices -> {"none", "received", "processed"}]
         /\ event'[n] # "none" /\ \A m \in Notices \ {n} : event'[m] = event[m]
         /\ work' \in [Deliveries -> Working]
         /\ work'[d].stage \in {"completing", "done"}
         /\ \A e \in Deliveries \ {d} : work'[e] = work[e]
  <1>. DEFINE w == IF enabled THEN [stage |-> "completing", notice |-> n] ELSE [stage |-> "done"]
  <1>1. event' = [event EXCEPT ![n] = "processed"] /\ work' = [work EXCEPT ![d] = w]
    BY DEF Finish, StoreEvent
  <1>2. w \in Working /\ w.stage \in {"completing", "done"}
    BY DEF Working
  <1>3. event \in [Notices -> {"none", "received", "processed"}]
    BY DEF PayTypes
  <1>. HIDE DEF w
  <1>4. /\ work' \in [Deliveries -> Working] /\ work'[d] = w
        /\ \A e \in Deliveries \ {d} : work'[e] = work[e]
    BY <1>1, <1>2, WorkMoves
  <1>. QED
    BY <1>1, <1>2, <1>3, <1>4

(* A delivery that may work has the claim, or goes on without one, or will    *)
(* be the first that the file knows of.                                       *)
LEMMA WorkIsAdmitted ==
  ASSUME PayTypes, NEW d \in Deliveries, NewWork(d)
  PROVE  /\ work[d].notice \in Notices
         /\ enabled => Applies(d, work[d].notice)
         /\ ~enabled => event[work[d].notice] = "none"
  BY WorkFields DEF NewWork, Began, Applies, PayTypes

LEMMA NoEffectKeepsPayInv ==
  ASSUME PayInv, NEW d \in Deliveries, NoEffect(d)
  PROVE  PayInv'
  <1>0. PayTypes /\ NewWork(d)
    BY DEF PayInv, NoEffect
  <1>n. PICK n \in Notices : n = work[d].notice
    BY <1>0, WorkIsAdmitted
  <1>1. UNCHANGED <<db, overdue, onchain, applied, enabled, claims, lapses>> /\ Finish(d, n)
    BY <1>n DEF NoEffect, WorkUnchanged
  <1>2. /\ event' \in [Notices -> {"none", "received", "processed"}]
        /\ event'[n] # "none" /\ \A m \in Notices \ {n} : event'[m] = event[m]
        /\ work' \in [Deliveries -> Working]
        /\ work'[d].stage \in {"completing", "done"}
        /\ \A e \in Deliveries \ {d} : work'[e] = work[e]
    BY <1>0, <1>1, FinishedWork
  <1>3. PayTypes'
    BY <1>0, <1>1, <1>2 DEF PayTypes
  <1>4. \A m \in Notices : Room(m)' >= Room(m)
    BY <1>0, <1>1, <1>2 DEF Room, Taken, PayTypes
  <1>. QED
    BY <1>1, <1>2, <1>3, <1>4, QuietDelivery

(* An effect: of the claim the delivery holds, or the first of all.           *)
LEMMA EffectKeepsPayInv ==
  ASSUME PayInv, NEW d \in Deliveries, NEW n \in Notices, n = work[d].notice,
         Applies(d, n) \/ (~enabled /\ event[n] = "none"),
         db' \in Db, Sound(db', onchain), WorkUnchanged, Finish(d, n),
         applied' = [applied EXCEPT ![n] = @ + 1]
  PROVE  PayInv'
  <1>0. PayTypes
    BY DEF PayInv
  <1>1. UNCHANGED <<overdue, onchain, enabled, claims, lapses>>
    BY DEF WorkUnchanged
  <1>2. /\ event' \in [Notices -> {"none", "received", "processed"}]
        /\ event'[n] # "none" /\ \A m \in Notices \ {n} : event'[m] = event[m]
        /\ work' \in [Deliveries -> Working]
        /\ work'[d].stage \in {"completing", "done"}
        /\ \A e \in Deliveries \ {d} : work'[e] = work[e]
    BY <1>0, FinishedWork
  <1>3. /\ applied' \in [Notices -> Nat] /\ applied'[n] = applied[n] + 1
        /\ \A m \in Notices \ {n} : applied'[m] = applied[m]
    BY <1>0 DEF PayTypes
  <1>4. PayTypes'
    BY <1>0, <1>1, <1>2, <1>3 DEF PayTypes
  <1>5. PaidHasPayment'
    BY <1>1, <1>2, DeliveryKeepsPayments
  <1>6. \A m \in Notices : Room(m)' >= Room(m) /\ ~Applies(d, m)'
    BY <1>0, <1>1, <1>2 DEF Room, Taken, PayTypes, Applies
  <1>7. ~enabled /\ event[n] = "none" => Room(n)' >= Room(n) + 1
    BY <1>0, <1>1, <1>2 DEF Room, Taken, PayTypes
  <1>. QED
    BY <1>2, <1>3, <1>4, <1>5, <1>6, <1>7, DeliveryKeepsPayInv

LEMMA CandidatesExist ==
  ASSUME PayTypes, PayInvoiceAssumption, NEW n \in Notices, NEW i \in Candidates(n)
  PROVE  i \in Invoices /\ Exists(i) /\ db[i] \in Record
  BY DEF Candidates, Fields, Exists, PayTypes, Db, PayInvoiceAssumption

LEMMA ProgressKeepsPayInv ==
  ASSUME PayInv, PayInvoiceAssumption, NEW d \in Deliveries, Progress(d)
  PROVE  PayInv'
  <1>0. PayTypes /\ NewWork(d) /\ Sound(db, onchain) /\ db \in Db
    BY PaidMeansSound DEF PayInv, Progress, PayTypes
  <1>n. PICK n \in Notices : n = work[d].notice
    BY <1>0, WorkIsAdmitted
  <1>1. PICK i \in Candidates(n) : SaveInvoices([db EXCEPT ![i] = Moved(@, "pending", Fields(n).txHash)])
    BY <1>n DEF Progress
  <1>2. i \in Invoices /\ db[i] \in Record
    BY <1>0, CandidatesExist
  <1>. DEFINE r == Moved(db[i], "pending", Fields(n).txHash)
  <1>3. r \in Record /\ r.status = "pending"
    BY <1>2 DEF Moved, Record, Statuses, Fields, PayInvoiceAssumption
  <1>4. db' = [db EXCEPT ![i] = r]
    BY <1>1 DEF SaveInvoices
  <1>. HIDE DEF r
  <1>5. db' \in Db /\ Sound(db', onchain)
    BY <1>0, <1>2, <1>3, <1>4, RecordWritten
  <1>6. Applies(d, n) \/ (~enabled /\ event[n] = "none")
    BY <1>0, <1>n, WorkIsAdmitted DEF PayTypes
  <1>7. WorkUnchanged /\ Finish(d, n) /\ applied' = [applied EXCEPT ![n] = @ + 1]
    BY <1>n DEF Progress
  <1>. QED
    BY <1>n, <1>5, <1>6, <1>7, EffectKeepsPayInv

LEMMA VerifiedKeepsPayInv ==
  ASSUME PayInv, PayInvoiceAssumption, NEW d \in Deliveries, Verified(d)
  PROVE  PayInv'
  <1>0. /\ PayTypes /\ work[d].stage = "verifying"
        /\ work[d].notice \in Notices /\ work[d].invoice \in Invoices /\ work[d].snapshot \in Db
        /\ Sound(work[d].snapshot, onchain)
    BY PaidMeansSound, WorkFields DEF PayInv, Verified, PayTypes
  <1>n. PICK n \in Notices : n = work[d].notice
    BY <1>0
  <1>. DEFINE i == work[d].invoice
              t == Fields(n).txHash
              file == work[d].snapshot
              r == Moved(file[i], "paid", t)
  <1>1. Verifies(t, i) /\ db' = [file EXCEPT ![i] = r]
    BY <1>n DEF Verified, SaveInvoices
  <1>2. t \in onchain /\ <<t, i>> \in Settles /\ t \in Txs /\ t # NoTx
    BY <1>0, <1>1, PayInvoiceAssumption DEF PayInvoiceAssumption, Verifies, PaymentLogMatches, PayTypes
  <1>3. r = [status |-> "paid", txHash |-> t]
    BY <1>2 DEF Moved
  <1>4. r \in Record /\ Receipt(r.txHash, i, onchain)
    BY <1>2, <1>3 DEF Record, Statuses, Receipt
  <1>. HIDE DEF i, t, file, r
  <1>5. db' \in Db /\ Sound(db', onchain)
    BY <1>0, <1>1, <1>4, RecordWritten DEF i, file
  <1>6. Applies(d, n)
    BY <1>0, <1>n DEF Applies
  <1>7. WorkUnchanged /\ Finish(d, n) /\ applied' = [applied EXCEPT ![n] = @ + 1]
    BY <1>n DEF Verified
  <1>. QED
    BY <1>n, <1>5, <1>6, <1>7, EffectKeepsPayInv

(* The copy a delivery takes with it is the file, with one record refreshed.  *)
LEMMA VerifyStartKeepsPayInv ==
  ASSUME PayInv, PayInvoiceAssumption, NEW d \in Deliveries, VerifyStart(d)
  PROVE  PayInv'
  <1>0. PayTypes /\ NewWork(d) /\ Sound(db, onchain) /\ db \in Db
    BY PaidMeansSound DEF PayInv, VerifyStart, PayTypes
  <1>n. PICK n \in Notices : n = work[d].notice
    BY <1>0, WorkIsAdmitted
  <1>1. UNCHANGED <<db, overdue, onchain, applied, enabled, claims, lapses>>
    BY DEF VerifyStart, WorkUnchanged
  <1>2. /\ event' \in [Notices -> {"none", "received", "processed"}]
        /\ event'[n] # "none" /\ \A m \in Notices \ {n} : event'[m] = event[m]
    <2>1. event' = [event EXCEPT ![n] = "received"]
      BY <1>n DEF VerifyStart, StoreEvent
    <2>. QED
      BY <1>0, <2>1 DEF PayTypes
  <1>3. PICK i \in Candidates(n) :
          IF Fields(n).txHash = NoTx THEN Done(d)
          ELSE work' = [work EXCEPT ![d] =
                 [stage |-> "verifying", notice |-> n, invoice |-> i,
                  snapshot |-> [db EXCEPT ![i] = Refreshed(i)]]]
    BY <1>n DEF VerifyStart
  <1>4. i \in Invoices /\ Exists(i)
    BY <1>0, CandidatesExist
  <1>5. Opened(i) \in Db /\ Sound(Opened(i), onchain)
    BY <1>0, <1>4, RecordOpened
  <1>6. /\ work' \in [Deliveries -> Working]
        /\ \A e \in Deliveries \ {d} : work'[e] = work[e]
        /\ \/ work'[d].stage = "done"
           \/ work'[d].stage = "verifying" /\ work'[d].notice = n /\ Sound(work'[d].snapshot, onchain)
    <2>1. CASE Fields(n).txHash = NoTx
      BY <1>3, <2>1, DoneDelivery
    <2>2. CASE Fields(n).txHash # NoTx
      <3>. DEFINE w == [stage |-> "verifying", notice |-> n, invoice |-> i, snapshot |-> Opened(i)]
      <3>1. w \in Working
        BY <1>4, <1>5 DEF Working
      <3>2. work' = [work EXCEPT ![d] = w]
        BY <1>3, <2>2 DEF Opened
      <3>3. w.stage = "verifying" /\ w.notice = n /\ w.snapshot = Opened(i)
        OBVIOUS
      <3>. HIDE DEF w
      <3>. QED
        BY <1>0, <1>5, <3>1, <3>2, <3>3, WorkMoves
    <2>. QED
      BY <2>1, <2>2
  <1>7. PayTypes'
    BY <1>0, <1>1, <1>2, <1>6 DEF PayTypes
  <1>8. PaidHasPayment'
    BY <1>0, <1>1, <1>6, DeliveryKeepsPayments
  <1>9. \A m \in Notices : Room(m)' >= Room(m) /\ (m # n => ~Applies(d, m)')
    BY <1>0, <1>1, <1>2, <1>6 DEF Room, Taken, PayTypes, Applies
  <1>10. Applies(d, n) \/ Room(n)' >= Room(n) + 1
    <2>1. enabled => Applies(d, n)
      BY <1>0, <1>n, WorkIsAdmitted
    <2>2. ~enabled => event[n] = "none"
      BY <1>0, <1>n, WorkIsAdmitted
    <2>. QED
      BY <1>0, <1>1, <1>2, <2>1, <2>2 DEF Room, Taken, PayTypes
  <1>. QED
    BY <1>1, <1>6, <1>7, <1>8, <1>9, <1>10, DeliveryKeepsPayInv

--------------------------------------------------------------------------------
(* The invoices, all steps together. *)

LEMMA InitPayInv == ASSUME PayInvoiceAssumption, Init PROVE PayInv
  <1>1. [stage |-> "new"] \in Working
    BY DEF Working
  <1>2. PayTypes
    BY <1>1, PayInvoiceAssumption DEF Init, PayTypes, Db, PayInvoiceAssumption
  <1>3. PaidHasPayment
    BY DEF Init, PaidHasPayment, PaidIn
  <1>4. ASSUME NEW n \in Notices PROVE EffectsLeft(n)
    <2>1. Appliers(n) = {}
      BY DEF Init, Appliers
    <2>2. applied[n] = 0 /\ Room(n) >= 0
      BY DEF Init, Room
    <2>. QED
      BY <2>1, <2>2, FS_EmptySet DEF EffectsLeft
  <1>. QED
    BY <1>2, <1>3, <1>4 DEF PayInv

LEMMA NextPayInv == ASSUME PayInvoiceAssumption, PayInv, [Next]_vars PROVE PayInv'
  <1>1. ASSUME NEW i \in Invoices,
               Create(i) \/ TimePasses(i) \/ (\E s \in Patches : Patch(i, s))
                 \/ (\E p \in Payments, t \in Txs : MarkPaidStart(p, i, t))
        PROVE  PayInv'
    <2>1. CASE TimePasses(i)
      BY <2>1, WorldStepKeepsPayInv
    <2>2. CASE ~TimePasses(i)
      BY <1>1, <2>2, MerchantSteps, FileStepKeepsPayInv
    <2>. QED
      BY <2>1, <2>2
  <1>2. ASSUME NEW t \in Txs, Transfer(t) PROVE PayInv'
    BY <1>2, WorldStepKeepsPayInv
  <1>3. ASSUME NEW p \in Payments, MarkPaidEnd(p) \/ MarkPaidThrows(p) PROVE PayInv'
    BY <1>3, PaymentSteps, FileStepKeepsPayInv
  <1>4. ASSUME NEW d \in Deliveries,
               \/ \E n \in Notices : Deliver(d, n)
               \/ ClaimLands(d) \/ AnsweredDuplicate(d) \/ ClaimUnanswered(d)
               \/ LocalDuplicate(d) \/ NoEffect(d) \/ Progress(d)
               \/ VerifyStart(d) \/ Verified(d) \/ VerifyThrows(d) \/ Complete(d)
        PROVE  PayInv'
    BY <1>4, DeliverKeepsPayInv, ClaimLandsKeepsPayInv, ClaimUnansweredKeepsPayInv,
       EndingKeepsPayInv, NoEffectKeepsPayInv, ProgressKeepsPayInv, VerifyStartKeepsPayInv,
       VerifiedKeepsPayInv
  <1>5. ASSUME NEW n \in Notices, LeaseExpires(n) \/ LateUpsert(n) PROVE PayInv'
    BY <1>5, RowStepKeepsPayInv
  <1>6. CASE Restart
    BY <1>6, RestartKeepsPayInv
  <1>7. CASE UNCHANGED vars
    BY <1>7 DEF vars, PayInv, PayTypes, PaidHasPayment, PaidIn, Pays, EffectsLeft, Appliers, Room, Taken
  <1>. QED
    BY <1>1, <1>2, <1>3, <1>4, <1>5, <1>6, <1>7 DEF Next

THEOREM SpecPayInv == Spec => []PayInv
  <1>1. PayInvoiceAssumption
    BY PayInvoiceAssumption
  <1>. QED
    BY <1>1, InitPayInv, NextPayInv, PTL DEF Spec

(* A paid invoice names a successful transaction of its amount to its         *)
(* merchant, in the file and in every copy a handler may still save.          *)
THEOREM SpecPaidHasPayment == Spec => []PaidHasPayment
  BY SpecPayInv, PTL DEF PayInv

(* A notification changes an invoice at most once, and once more only for a   *)
(* lease that ran out or a claim that went unanswered.                        *)
THEOREM SpecEffectOnce == Spec => []EffectOnce
  <1>1. PayInv => EffectOnce
    <2>. SUFFICES ASSUME PayInv, NEW n \in Notices
                  PROVE  applied[n] <= 1 + lapses[n]
      BY DEF EffectOnce
    <2>1. EffectsLeft(n) /\ applied[n] \in Nat /\ lapses[n] \in Nat
      BY DEF PayInv, PayTypes
    <2>2. Cardinality(Appliers(n)) \in Nat
      BY <2>1, FS_CardinalityType DEF EffectsLeft
    <2>. QED
      BY <2>1, <2>2 DEF EffectsLeft, Room
  <1>. QED
    BY <1>1, SpecPayInv, PTL

--------------------------------------------------------------------------------
(* What no step takes back. *)

LEMMA RecordKept ==
  ASSUME PayInvoiceAssumption, NEW before \in Db, NEW i \in Invoices, NEW r \in Record,
         i \in PaidIn(before) => r.status = "paid", NEW j \in Invoices
  PROVE  Keeps(j, before, [before EXCEPT ![i] = r])
  <1>1. r # NoInvoice
    BY PayInvoiceAssumption DEF PayInvoiceAssumption
  <1>. DEFINE after == [before EXCEPT ![i] = r]
  <1>2. after[i] = r /\ (j # i => after[j] = before[j])
    BY DEF Db
  <1>. HIDE DEF after
  <1>3. Keeps(j, before, after)
    BY <1>1, <1>2 DEF Keeps, PaidIn
  <1>. QED
    BY <1>3 DEF after

LEMMA OpenedKept ==
  ASSUME PayInvoiceAssumption, PayTypes, NEW i \in Invoices, Exists(i), Sound(db, onchain),
         NEW j \in Invoices
  PROVE  Keeps(j, db, Opened(i))
  <1>1. i \in PaidIn(db) => Refreshed(i).status = "paid"
    BY DEF PaidIn, Refreshed, Closed
  <1>. QED
    BY <1>1, RefreshedRecord, RecordKept DEF Opened, PayTypes

LEMMA MerchantsKeep ==
  ASSUME PayInvoiceAssumption, PayInv, NEW i \in Invoices, NEW j \in Invoices,
         \/ Create(i)
         \/ \E s \in Patches : Patch(i, s)
         \/ \E p \in Payments, t \in Txs : MarkPaidStart(p, i, t)
  PROVE  Keeps(j, db, db')
  <1>0. PayTypes /\ db \in Db /\ Sound(db, onchain)
    BY PaidMeansSound DEF PayInv, PayTypes
  <1>1. ASSUME Create(i) PROVE Keeps(j, db, db')
    <2>. DEFINE r == [status |-> "unpaid", txHash |-> NoTx]
    <2>1. r \in Record /\ i \notin PaidIn(db) /\ db' = [db EXCEPT ![i] = r]
      BY <1>1 DEF Record, Statuses, Create, SaveInvoices, PaidIn, Exists
    <2>. HIDE DEF r
    <2>. QED
      BY <1>0, <2>1, RecordKept
  <1>2. ASSUME NEW s \in Patches, Patch(i, s) PROVE Keeps(j, db, db')
    <2>1. Exists(i)
      BY <1>2 DEF Patch
    <2>2. CASE MayMove(i, s)
      <3>. DEFINE r == [Refreshed(i) EXCEPT !.status = s]
      <3>1. Refreshed(i) \in Record /\ s \in Statuses
        BY <1>0, <2>1, RefreshedRecord, PayInvoiceAssumption DEF Statuses, PayInvoiceAssumption
      <3>2. r \in Record
        BY <3>1, StatusRecord
      <3>3. [Opened(i) EXCEPT ![i].status = s] = [db EXCEPT ![i] = r]
        BY <1>0 DEF Opened, Db
      <3>4. db' = [db EXCEPT ![i] = r]
        BY <1>2, <2>2, <3>3 DEF Patch, SaveInvoices
      <3>5. i \notin PaidIn(db)
        BY <2>2 DEF MayMove, PaidIn, Refreshed, Closed
      <3>. HIDE DEF r
      <3>. QED
        BY <1>0, <3>2, <3>4, <3>5, RecordKept
    <2>3. CASE ~MayMove(i, s)
      <3>1. db' = Opened(i)
        BY <1>2, <2>3 DEF Patch, SaveInvoices
      <3>. QED
        BY <1>0, <2>1, <3>1, OpenedKept
    <2>. QED
      BY <2>2, <2>3
  <1>3. ASSUME NEW p \in Payments, NEW t \in Txs, MarkPaidStart(p, i, t) PROVE Keeps(j, db, db')
    <2>1. Exists(i) /\ db' = Opened(i)
      BY <1>3 DEF MarkPaidStart, SaveInvoices
    <2>. QED
      BY <1>0, <2>1, OpenedKept
  <1>. QED
    BY <1>1, <1>2, <1>3

LEMMA PaymentKeeps ==
  ASSUME PayInvoiceAssumption, PayInv, NEW p \in Payments, MarkPaidEnd(p), NEW j \in Invoices
  PROVE  Keeps(j, db, db')
  <1>. DEFINE i == pay[p].invoice
              t == pay[p].tx
              r == [status |-> "paid", txHash |-> t]
  <1>0. PayTypes /\ db \in Db
    BY DEF PayInv, PayTypes
  <1>1. CASE db' = db
    BY <1>1 DEF Keeps
  <1>2. CASE db' # db
    <2>1. Verifies(t, i) /\ db' = [db EXCEPT ![i] = r]
      BY <1>2 DEF MarkPaidEnd, SaveInvoices
    <2>2. <<t, i>> \in Settles
      BY <2>1 DEF Verifies, PaymentLogMatches
    <2>. HIDE DEF i, t
    <2>3. t \in Txs /\ i \in Invoices
      BY <2>2, ReceiptIsTyped, PayInvoiceAssumption
    <2>4. r \in Record /\ r.status = "paid"
      BY <2>3 DEF Record, Statuses
    <2>. HIDE DEF r
    <2>. QED
      BY <1>0, <2>1, <2>3, <2>4, RecordKept
  <1>. QED
    BY <1>1, <1>2

LEMMA ProgressKeeps ==
  ASSUME PayInvoiceAssumption, PayInv, NEW d \in Deliveries, Progress(d), NEW j \in Invoices
  PROVE  Keeps(j, db, db')
  <1>0. PayTypes /\ db \in Db /\ NewWork(d)
    BY DEF PayInv, PayTypes, Progress
  <1>n. PICK n \in Notices : n = work[d].notice
    BY <1>0, WorkIsAdmitted
  <1>1. PICK i \in Candidates(n) :
          NotPaid(i) /\ SaveInvoices([db EXCEPT ![i] = Moved(@, "pending", Fields(n).txHash)])
    BY <1>n DEF Progress
  <1>2. i \in Invoices /\ db[i] \in Record /\ i \notin PaidIn(db)
    BY <1>0, <1>1, CandidatesExist DEF NotPaid, PaidIn
  <1>. DEFINE r == Moved(db[i], "pending", Fields(n).txHash)
  <1>3. r \in Record
    BY <1>2 DEF Moved, Record, Statuses, Fields, PayInvoiceAssumption
  <1>4. db' = [db EXCEPT ![i] = r]
    BY <1>1 DEF SaveInvoices
  <1>. HIDE DEF r
  <1>. QED
    BY <1>0, <1>2, <1>3, <1>4, RecordKept

(* The one window: the copy that is saved is older than what it replaces.     *)
LEMMA VerifiedKeepsOrOverlaps ==
  ASSUME PayInvoiceAssumption, PayInv, NEW d \in Deliveries, Verified(d), NEW j \in Invoices,
         Keeps(j, db, work[d].snapshot)
  PROVE  Keeps(j, db, db')
  <1>0. /\ PayTypes /\ work[d].notice \in Notices /\ work[d].invoice \in Invoices
        /\ work[d].snapshot \in Db
    BY WorkFields DEF PayInv, Verified, PayTypes
  <1>. DEFINE i == work[d].invoice
              t == Fields(work[d].notice).txHash
              file == work[d].snapshot
              r == Moved(file[i], "paid", t)
  <1>1. Verifies(t, i) /\ db' = [file EXCEPT ![i] = r]
    BY DEF Verified, SaveInvoices
  <1>2. t \in Txs /\ t # NoTx
    BY <1>0, <1>1, PayInvoiceAssumption DEF PayInvoiceAssumption, Verifies, PayTypes
  <1>3. r \in Record /\ r.status = "paid"
    BY <1>2 DEF Moved, Record, Statuses
  <1>. HIDE DEF i, t, r
  <1>4. Keeps(j, file, [file EXCEPT ![i] = r])
    BY <1>0, <1>3, RecordKept DEF i
  <1>. HIDE DEF file
  <1>5. Keeps(j, db, file)
    BY DEF file
  <1>. QED
    BY <1>1, <1>4, <1>5 DEF Keeps, PaidIn

LEMMA NextTakesBackOnlyByOverlap ==
  ASSUME PayInvoiceAssumption, PayInv, [Next]_vars, NEW j \in Invoices
  PROVE  \/ Keeps(j, db, db')
         \/ \E d \in Deliveries : work[d].stage = "verifying" /\ ~Keeps(j, db, work[d].snapshot)
  <1>1. ASSUME NEW i \in Invoices,
               \/ Create(i)
               \/ \E s \in Patches : Patch(i, s)
               \/ \E p \in Payments, t \in Txs : MarkPaidStart(p, i, t)
        PROVE  Keeps(j, db, db')
    BY <1>1, MerchantsKeep
  <1>2. ASSUME NEW p \in Payments, MarkPaidEnd(p) PROVE Keeps(j, db, db')
    BY <1>2, PaymentKeeps
  <1>3. ASSUME NEW d \in Deliveries, Progress(d) PROVE Keeps(j, db, db')
    BY <1>3, ProgressKeeps
  <1>4. ASSUME NEW d \in Deliveries, Verified(d)
        PROVE  \/ Keeps(j, db, db')
               \/ work[d].stage = "verifying" /\ ~Keeps(j, db, work[d].snapshot)
    BY <1>4, VerifiedKeepsOrOverlaps DEF Verified
  <1>5. ASSUME UNCHANGED db PROVE Keeps(j, db, db')
    BY <1>5 DEF Keeps
  <1>6. ASSUME NEW i \in Invoices, TimePasses(i) PROVE UNCHANGED db
    BY <1>6 DEF TimePasses
  <1>7. ASSUME NEW t \in Txs, Transfer(t) PROVE UNCHANGED db
    BY <1>7 DEF Transfer
  <1>8. ASSUME NEW p \in Payments, MarkPaidThrows(p) PROVE UNCHANGED db
    BY <1>8 DEF MarkPaidThrows
  <1>9. ASSUME NEW d \in Deliveries,
               \/ \E n \in Notices : Deliver(d, n)
               \/ ClaimLands(d) \/ AnsweredDuplicate(d) \/ ClaimUnanswered(d)
               \/ LocalDuplicate(d) \/ NoEffect(d) \/ VerifyStart(d)
               \/ VerifyThrows(d) \/ Complete(d)
        PROVE  UNCHANGED db
    BY <1>9 DEF Deliver, ClaimLands, AnsweredDuplicate, ClaimUnanswered, LocalDuplicate, NoEffect,
       VerifyStart, VerifyThrows, Complete, ClaimUnchanged
  <1>10. ASSUME NEW n \in Notices, LeaseExpires(n) \/ LateUpsert(n) PROVE UNCHANGED db
    BY <1>10 DEF LeaseExpires, LateUpsert, ClaimUnchanged
  <1>11. ASSUME Restart \/ UNCHANGED vars PROVE UNCHANGED db
    BY <1>11 DEF Restart, vars
  <1>. QED
    BY <1>1, <1>2, <1>3, <1>4, <1>5, <1>6, <1>7, <1>8, <1>9, <1>10, <1>11 DEF Next

(* A paid invoice stays paid and no invoice disappears, but by a delivery     *)
(* that waits for a receipt with an older copy of the file.                   *)
THEOREM SpecTakesBackOnlyByOverlap == Spec => TakesBackOnlyByOverlap
  <1>1. ASSUME PayInvoiceAssumption, PayInv, [Next]_vars
        PROVE  [\A i \in Invoices : Keeps(i, db, db')
                  \/ \E d \in Deliveries : /\ work[d].stage = "verifying"
                                           /\ ~Keeps(i, db, work[d].snapshot)]_vars
    BY <1>1, NextTakesBackOnlyByOverlap
  <1>2. PayInvoiceAssumption
    BY PayInvoiceAssumption
  <1>. QED
    BY <1>1, <1>2, SpecPayInv, PTL DEF Spec, TakesBackOnlyByOverlap

--------------------------------------------------------------------------------
(* The cards. *)

(* A transaction as some file in memory or on disk knows it. *)
Known(r, t) == r = cardDb.txs[t] \/ \E c \in CardCalls : r = cardCalls[c].file.txs[t]
Settling(c, t) == cardCalls[c].kind \in {"settle", "transfer"} /\ cardCalls[c].tx = t

(* A call that is not waiting holds nothing, and one that settles saw its     *)
(* transaction authorized, on chain.                                          *)
CallsKnow ==
  \A c \in CardCalls :
    /\ CardIdle(c) => cardCalls[c] = NoCardCall
    /\ \A t \in CardTxs : Settling(c, t) =>
         cardCalls[c].file.txs[t].onchain /\ cardCalls[c].file.txs[t].status = "authorized"

(* No file knows a transaction before its number is given out, no two          *)
(* disagree about whose it is, and what was paid is no issuer's transaction.   *)
Unborn(t) == t > drawn => \A r \in CardTx : Known(r, t) => r = NoCardTx
Origin(t) == \A r, s \in CardTx : Known(r, t) /\ Known(s, t) /\ r.onchain => ~s.issuer
Paid(t) == transfers[t] > 0 => /\ t <= drawn
                               /\ \A r \in CardTx : Known(r, t) => ~r.issuer

(* Unless it is excused, a transaction is settled by one call at a time, and   *)
(* after its transfer the file says how it ended and nobody settles it.        *)
SettledOnce(t) ==
  t \notin loosened =>
    /\ \A c, d \in CardCalls : Settling(c, t) /\ Settling(d, t) => c = d
    /\ transfers[t] <= 1
    /\ transfers[t] > 0 => /\ cardDb.txs[t].status \in Ended
                           /\ \A c \in CardCalls : ~Settling(c, t)
TxInv(t) == Unborn(t) /\ Origin(t) /\ Paid(t) /\ SettledOnce(t)

(* What was settled here and what may be, by any file.                         *)
LiveTx(r) == ~r.issuer /\ r.status \in {"authorized", "settled"}
Live == {t \in CardTxs : \E r \in CardTx : Known(r, t) /\ LiveTx(r)}
LimitKept == overlapped \/ loosened # {} \/ Cardinality(Live) <= loosest

CardsInv == CardsTypeOK /\ CallsKnow /\ (\A t \in CardTxs : TxInv(t)) /\ LimitKept

(* Every file is as much a file after it was topped up, synced or marked.    *)
LEMMA EmptyCard ==
  ASSUME CardsAssumption
  PROVE  EmptyFile \in CardFile /\ NoCardCall \in CardCall /\ NoCardTx \in CardTx
  <1>1. (CHOOSE d \in DailyLimits : TRUE) \in DailyLimits
    BY DEF CardsAssumption
  <1>2. NoCardTx \in CardTx
    BY DEF NoCardTx, CardTx, TxStatuses
  <1>3. EmptyFile \in CardFile
    BY <1>1, <1>2 DEF EmptyFile, CardFile
  <1>4. 1 \in CardTxs
    BY DEF CardsAssumption, CardTxs
  <1>. QED
    BY <1>2, <1>3, <1>4 DEF NoCardCall, CardCall

LEMMA FundedFile ==
  ASSUME CardsAssumption, NEW f \in CardFile
  PROVE  /\ Funded(f) \in CardFile /\ Funded(f).txs = f.txs
         /\ Funded(f).daily = f.daily /\ Funded(f).status = f.status
  BY DEF CardsAssumption, Funded, CardFile

LEMMA SyncedFile ==
  ASSUME CardsTypeOK, CardsAssumption, NEW f \in CardFile
  PROVE  /\ Synced(f) \in CardFile /\ Synced(f).txs = f.txs
         /\ Synced(f).daily = f.daily /\ Synced(f).status = f.status
  <1>1. wallet \in Nat
    BY DEF CardsTypeOK, CardsAssumption
  <1>. DEFINE g == [f EXCEPT !.known = wallet]
  <1>2. /\ g \in CardFile /\ g.txs = f.txs /\ g.daily = f.daily /\ g.status = f.status
    BY <1>1 DEF CardFile
  <1>. HIDE DEF g
  <1>3. LET h == [g EXCEPT !.fresh = TRUE]
        IN  /\ h \in CardFile /\ h.txs = g.txs /\ h.daily = g.daily /\ h.status = g.status
    BY <1>2 DEF CardFile
  <1>4. Synced(f) = [g EXCEPT !.fresh = TRUE]
    BY DEF Synced, g
  <1>. QED
    BY <1>2, <1>3, <1>4

LEMMA MarkedFile ==
  ASSUME NEW f \in CardFile, NEW t \in CardTxs, NEW s \in TxStatuses
  PROVE  /\ MarkedTx(f, t, s) \in CardFile
         /\ MarkedTx(f, t, s).txs = [f.txs EXCEPT ![t].status = s]
         /\ MarkedTx(f, t, s).txs[t] = [f.txs[t] EXCEPT !.status = s]
         /\ \A u \in CardTxs \ {t} : MarkedTx(f, t, s).txs[u] = f.txs[u]
  <1>1. f.txs \in [CardTxs -> CardTx]
    BY DEF CardFile
  <1>2. [f.txs[t] EXCEPT !.status = s] \in CardTx
    BY <1>1 DEF CardTx
  <1>3. [f.txs EXCEPT ![t].status = s] \in [CardTxs -> CardTx]
    BY <1>1, <1>2
  <1>. QED
    BY <1>1, <1>2, <1>3 DEF MarkedTx, CardFile

(* A transaction is put in the file. *)
LEMMA StoredFile ==
  ASSUME NEW f \in CardFile, NEW t \in CardTxs, NEW r \in CardTx
  PROVE  /\ [f EXCEPT !.txs[t] = r] \in CardFile
         /\ [f EXCEPT !.txs[t] = r].txs[t] = r
         /\ \A u \in CardTxs \ {t} : [f EXCEPT !.txs[t] = r].txs[u] = f.txs[u]
  BY DEF CardFile

LEMMA CardsInitTypes == ASSUME CardsAssumption, CardsInit PROVE CardsTypeOK
  <1>1. cardDb \in CardFile /\ cardCalls \in [CardCalls -> CardCall]
    BY EmptyCard DEF CardsInit
  <1>2. wallet \in 0 .. WalletFunds /\ drawn \in 0 .. MaxCardTxs /\ cardChanges \in 0 .. CardChanges
    BY DEF CardsInit, CardsAssumption
  <1>. QED
    BY <1>1, <1>2 DEF CardsInit, CardsTypeOK

LEMMA WaitsTypes ==
  ASSUME CardsTypeOK, NEW c \in CardCalls, NEW t \in CardTxs, NEW f \in CardFile,
         NEW k \in {"sync", "authorize", "settle", "transfer"}, Waits(c, k, f, t)
  PROVE  cardCalls' \in [CardCalls -> CardCall]
  BY DEF CardsTypeOK, Waits, CardCall

LEMMA AnsweredTypes ==
  ASSUME CardsAssumption, CardsTypeOK, NEW c \in CardCalls, Answered(c)
  PROVE  cardCalls' \in [CardCalls -> CardCall]
  BY EmptyCard DEF CardsTypeOK, Answered

LEMMA UndoneTypes == ASSUME NEW f PROVE Undone(f) \subseteq CardTxs
  BY DEF Undone

LEMMA CallFile ==
  ASSUME CardsTypeOK, NEW c \in CardCalls
  PROVE  cardCalls[c].file \in CardFile /\ cardCalls[c].tx \in CardTxs
  BY DEF CardsTypeOK, CardCall

(* What an authorization does to the types. *)
LEMMA AuthorizesTypes ==
  ASSUME CardsAssumption, CardsTypeOK, NEW c \in CardCalls, NEW read, NEW f \in CardFile,
         Authorizes(c, read, f), cardCalls' \in [CardCalls -> CardCall]
  PROVE  CardsTypeOK'
  <1>1. drawn + 1 \in CardTxs
    BY DEF CardsTypeOK, CardsAssumption, Authorizes, CardTxs
  <1>2. [status |-> "authorized", onchain |-> onchainMode, issuer |-> FALSE] \in CardTx
    BY DEF CardsTypeOK, CardTx, TxStatuses
  <1>3. cardDb' \in CardFile
    BY <1>1, <1>2, StoredFile DEF Authorizes
  <1>4. drawn' \in 0 .. MaxCardTxs
    BY DEF CardsTypeOK, CardsAssumption, Authorizes
  <1>5. loosest' \in Nat
    BY DEF CardsTypeOK, CardsAssumption, Authorizes, CardFile
  <1>6. loosened' \subseteq CardTxs
    BY UndoneTypes DEF CardsTypeOK, Authorizes
  <1>7. overlapped' \in BOOLEAN
    BY DEF CardsTypeOK, Authorizes
  <1>. QED
    BY <1>3, <1>4, <1>5, <1>6, <1>7 DEF CardsTypeOK, Authorizes

LEMMA CardsNextTypes ==
  ASSUME CardsAssumption, CardsTypeOK, [CardsNext]_cardVars PROVE CardsTypeOK'
  <1>1. CASE CreateCard
    BY <1>1, FundedFile DEF CreateCard, CardsTypeOK, CardFile
  <1>2. CASE SetStatus
    BY <1>2 DEF SetStatus, CardChange, CardsTypeOK, CardFile, CardsAssumption
  <1>3. CASE UpdateLimits
    BY <1>3 DEF UpdateLimits, CardChange, CardsTypeOK, CardFile, CardsAssumption
  <1>4. CASE Provision
    BY <1>4 DEF Provision, CardsTypeOK, CardFile
  <1>5. CASE FundSimulated
    BY <1>5 DEF FundSimulated, CardChange, CardsTypeOK, CardFile, CardsAssumption
  <1>6. CASE BalanceAges
    <2>1. cardDb' \in CardFile
      BY <1>6 DEF BalanceAges, CardsTypeOK, CardFile
    <2>. QED
      BY <1>6, <2>1 DEF BalanceAges, CardChange, CardsTypeOK, CardsAssumption
  <1>7. CASE CardCrash
    <2>1. \A c \in CardCalls : cardCalls[c].tx \in CardTxs
      BY CallFile
    <2>2. loosened' \subseteq CardTxs
      BY <1>7, <2>1 DEF CardCrash, CardsTypeOK
    <2>3. cardCalls' \in [CardCalls -> CardCall]
      BY <1>7, EmptyCard DEF CardCrash
    <2>4. PICK c \in CardCalls, made \in BOOLEAN :
            /\ made => wallet >= 1
            /\ wallet' = IF made THEN wallet - 1 ELSE wallet
            /\ transfers' = [transfers EXCEPT ![cardCalls[c].tx] = IF made THEN @ + 1 ELSE @]
      BY <1>7 DEF CardCrash
    <2>5. wallet' \in 0 .. WalletFunds
      BY <2>4 DEF CardsTypeOK, CardsAssumption
    <2>6. transfers' \in [CardTxs -> Nat]
      BY <2>1, <2>4 DEF CardsTypeOK
    <2>. QED
      BY <1>7, <2>2, <2>3, <2>5, <2>6 DEF CardCrash, CardChange, CardsTypeOK, CardsAssumption
  <1>8. ASSUME NEW c \in CardCalls, SyncStarts(c) PROVE CardsTypeOK'
    <2>1. CASE onchainMode
      <3>1. Waits(c, "sync", cardDb, 1) /\ UNCHANGED cardDb
        BY <1>8, <2>1 DEF SyncStarts
      <3>2. cardCalls' \in [CardCalls -> CardCall]
        BY <3>1, WaitsTypes DEF CardsTypeOK, CardsAssumption, CardTxs
      <3>. QED
        BY <1>8, <3>1, <3>2 DEF SyncStarts, CardsTypeOK
    <2>2. CASE ~onchainMode
      BY <1>8, <2>2, FundedFile DEF SyncStarts, CardsTypeOK
    <2>. QED
      BY <2>1, <2>2
  <1>9. ASSUME NEW c \in CardCalls, SyncEnds(c) PROVE CardsTypeOK'
    <2>1. cardDb' \in CardFile
      BY <1>9, CallFile, SyncedFile DEF SyncEnds
    <2>2. loosened' \subseteq CardTxs
      BY <1>9, UndoneTypes DEF SyncEnds, CardsTypeOK
    <2>3. cardCalls' \in [CardCalls -> CardCall]
      BY <1>9, AnsweredTypes DEF SyncEnds
    <2>. QED
      BY <1>9, <2>1, <2>2, <2>3 DEF SyncEnds, CardsTypeOK
  <1>10. ASSUME NEW c \in CardCalls, BalanceUnread(c) \/ Declines(c) PROVE CardsTypeOK'
    <2>1. cardCalls' \in [CardCalls -> CardCall]
      BY <1>10, AnsweredTypes DEF BalanceUnread, Declines
    <2>. QED
      BY <1>10, <2>1 DEF BalanceUnread, Declines, CardsTypeOK
  <1>11. ASSUME NEW c \in CardCalls, AuthorizeNow(c) PROVE CardsTypeOK'
    <2>1. cardDb \in CardFile /\ Funded(cardDb) \in CardFile
      BY FundedFile DEF CardsTypeOK
    <2>2. PICK f \in CardFile : Authorizes(c, cardDb, f)
      BY <1>11, <2>1 DEF AuthorizeNow
    <2>3. cardCalls' \in [CardCalls -> CardCall]
      BY <1>11 DEF AuthorizeNow, CardsTypeOK
    <2>. QED
      BY <2>2, <2>3, AuthorizesTypes
  <1>12. ASSUME NEW c \in CardCalls, AuthorizeStarts(c) PROVE CardsTypeOK'
    <2>1. cardCalls' \in [CardCalls -> CardCall]
      BY <1>12, WaitsTypes DEF AuthorizeStarts, CardsTypeOK, CardsAssumption, CardTxs
    <2>. QED
      BY <1>12, <2>1 DEF AuthorizeStarts, CardsTypeOK
  <1>13. ASSUME NEW c \in CardCalls, AuthorizeEnds(c) PROVE CardsTypeOK'
    <2>1. Synced(cardCalls[c].file) \in CardFile
      BY CallFile, SyncedFile
    <2>2. cardCalls' \in [CardCalls -> CardCall]
      BY <1>13, AnsweredTypes DEF AuthorizeEnds
    <2>. QED
      BY <1>13, <2>1, <2>2, AuthorizesTypes DEF AuthorizeEnds
  <1>14. ASSUME NEW c \in CardCalls, SettleReads(c) PROVE CardsTypeOK'
    <2>1. Synced(cardCalls[c].file) \in CardFile /\ cardCalls[c].tx \in CardTxs
      BY CallFile, SyncedFile
    <2>2. MarkedTx(Synced(cardCalls[c].file), cardCalls[c].tx, "declined") \in CardFile
      BY <2>1, MarkedFile DEF TxStatuses
    <2>3. CASE wallet >= 1 /\ Waits(c, "transfer", Synced(cardCalls[c].file), cardCalls[c].tx)
                 /\ UNCHANGED <<cardDb, loosened>>
      <3>1. cardCalls' \in [CardCalls -> CardCall]
        BY <2>1, <2>3, WaitsTypes
      <3>. QED
        BY <1>14, <2>3, <3>1 DEF SettleReads, CardsTypeOK
    <2>4. CASE ~(wallet >= 1 /\ Waits(c, "transfer", Synced(cardCalls[c].file), cardCalls[c].tx)
                 /\ UNCHANGED <<cardDb, loosened>>)
      <3>1. Answered(c) /\ cardDb' \in CardFile
        BY <1>14, <2>2, <2>4 DEF SettleReads
      <3>2. loosened' \subseteq CardTxs
        BY <1>14, <2>4, UndoneTypes DEF SettleReads, CardsTypeOK
      <3>. QED
        BY <1>14, <3>1, <3>2, AnsweredTypes DEF SettleReads, CardsTypeOK
    <2>. QED
      BY <2>3, <2>4
  <1>15. ASSUME NEW c \in CardCalls, Transfers(c) PROVE CardsTypeOK'
    <2>1. cardCalls[c].file \in CardFile /\ cardCalls[c].tx \in CardTxs
      BY CallFile
    <2>2. PICK made \in BOOLEAN, s \in {"settled", "declined"} :
            /\ made => wallet >= 1
            /\ wallet' = IF made THEN wallet - 1 ELSE wallet
            /\ transfers' = [transfers EXCEPT ![cardCalls[c].tx] = IF made THEN @ + 1 ELSE @]
            /\ cardDb' = MarkedTx(cardCalls[c].file, cardCalls[c].tx, s)
            /\ loosened' = loosened \cup Undone(MarkedTx(cardCalls[c].file, cardCalls[c].tx, s))
      BY <1>15 DEF Transfers
    <2>3. cardDb' \in CardFile
      BY <2>1, <2>2, MarkedFile DEF TxStatuses
    <2>4. wallet' \in 0 .. WalletFunds
      BY <2>2 DEF CardsTypeOK, CardsAssumption
    <2>5. transfers' \in [CardTxs -> Nat]
      BY <2>1, <2>2 DEF CardsTypeOK
    <2>6. loosened' \subseteq CardTxs
      BY <2>2, UndoneTypes DEF CardsTypeOK
    <2>7. cardCalls' \in [CardCalls -> CardCall]
      BY <1>15, AnsweredTypes DEF Transfers
    <2>. QED
      BY <1>15, <2>3, <2>4, <2>5, <2>6, <2>7 DEF Transfers, CardsTypeOK
  <1>16. ASSUME NEW c \in CardCalls, NEW t \in CardTxs, SettleStarts(c, t) PROVE CardsTypeOK'
    <2>1. cardCalls' \in [CardCalls -> CardCall]
      BY <1>16, WaitsTypes DEF SettleStarts, CardsTypeOK
    <2>2. loosened' \subseteq CardTxs
      BY <1>16 DEF SettleStarts, CardsTypeOK
    <2>. QED
      BY <1>16, <2>1, <2>2 DEF SettleStarts, CardsTypeOK
  <1>17. ASSUME NEW t \in CardTxs, SettleSimulated(t) PROVE CardsTypeOK'
    <2>1. MarkedTx(cardDb, t, "declined") \in CardFile /\ MarkedTx(cardDb, t, "settled") \in CardFile
      BY MarkedFile DEF CardsTypeOK, TxStatuses
    <2>2. MarkedTx(cardDb, t, "settled").ledger = cardDb.ledger
      BY DEF MarkedTx, CardsTypeOK, CardFile
    <2>3. cardDb' \in CardFile
      <3>1. CASE cardDb.ledger < 1
        BY <1>17, <2>1, <3>1 DEF SettleSimulated
      <3>2. CASE ~(cardDb.ledger < 1)
        <4>1. cardDb' = [MarkedTx(cardDb, t, "settled") EXCEPT !.ledger = @ - 1]
          BY <1>17, <3>2 DEF SettleSimulated
        <4>2. cardDb.ledger - 1 \in Nat
          BY <3>2 DEF CardsTypeOK, CardFile
        <4>. QED
          BY <2>1, <2>2, <4>1, <4>2 DEF CardFile
      <3>. QED
        BY <3>1, <3>2
    <2>. QED
      BY <1>17, <2>3 DEF SettleSimulated, CardsTypeOK
  <1>18. ASSUME NEW t \in CardTxs, Refund(t) PROVE CardsTypeOK'
    <2>1. MarkedTx(cardDb, t, "refunded") \in CardFile
      BY MarkedFile DEF CardsTypeOK, TxStatuses
    <2>2. cardDb' \in CardFile
      BY <1>18, <2>1 DEF Refund, CardFile
    <2>. QED
      BY <1>18, <2>2 DEF Refund, CardsTypeOK
  <1>19. ASSUME NEW t \in CardTxs, IssuerReports(t) PROVE CardsTypeOK'
    <2>1. PICK s \in {"authorized", "settled", "refunded"} :
            cardDb' = [cardDb EXCEPT !.txs[t] = [status |-> s, onchain |-> FALSE, issuer |-> TRUE]]
      BY <1>19 DEF IssuerReports
    <2>2. [status |-> s, onchain |-> FALSE, issuer |-> TRUE] \in CardTx
      BY DEF CardTx, TxStatuses
    <2>3. cardDb' \in CardFile
      BY <2>1, <2>2, StoredFile DEF CardsTypeOK
    <2>4. drawn' \in 0 .. MaxCardTxs
      BY <1>19 DEF IssuerReports, CardTxs, CardsAssumption
    <2>. QED
      BY <1>19, <2>3, <2>4 DEF IssuerReports, CardsTypeOK
  <1>20. ASSUME NEW t \in CardTxs, IssuerUpdates(t) PROVE CardsTypeOK'
    <2>1. cardDb' \in CardFile
      <3>1. PICK s \in {"authorized", "settled", "refunded"} : cardDb' = MarkedTx(cardDb, t, s)
        BY <1>20 DEF IssuerUpdates
      <3>2. s \in TxStatuses /\ cardDb \in CardFile
        BY DEF TxStatuses, CardsTypeOK
      <3>. QED
        BY <3>1, <3>2, MarkedFile
    <2>. QED
      BY <1>20, <2>1 DEF IssuerUpdates, CardChange, CardsTypeOK, CardsAssumption
  <1>21. CASE UNCHANGED cardVars
    BY <1>21 DEF cardVars, CardsTypeOK
  <1>. QED
    BY <1>1, <1>2, <1>3, <1>4, <1>5, <1>6, <1>7, <1>8, <1>9, <1>10, <1>11, <1>12, <1>13,
       <1>14, <1>15, <1>16, <1>17, <1>18, <1>19, <1>20, <1>21 DEF CardsNext

LEMMA CreateCardKeeps ==
  ASSUME CardsAssumption, CardsTypeOK, CreateCard
  PROVE  /\ UNCHANGED cardCalls
         /\ UNCHANGED <<transfers, drawn, loosened, loosest>> /\ UNCHANGED overlapped
         /\ cardDb'.txs = cardDb.txs
  <1>1. cardDb \in CardFile /\ Funded(cardDb) \in CardFile /\ Funded(cardDb).txs = cardDb.txs
    BY FundedFile DEF CardsTypeOK
  <1>2. cardDb'.txs = cardDb.txs
    BY <1>1 DEF CreateCard, CardFile
  <1>. QED
    BY <1>2 DEF CreateCard

(* The card and its balance change nothing about transactions and calls. *)
LEMMA CardChangesKeep ==
  ASSUME CardsAssumption, CardsTypeOK,
         CreateCard \/ SetStatus \/ UpdateLimits \/ Provision \/ FundSimulated \/ BalanceAges
  PROVE  /\ UNCHANGED cardCalls
         /\ UNCHANGED <<transfers, drawn, loosened, loosest>> /\ UNCHANGED overlapped
         /\ cardDb'.txs = cardDb.txs
  <1>1. cardDb \in CardFile /\ Funded(cardDb) \in CardFile /\ Funded(cardDb).txs = cardDb.txs
    BY FundedFile DEF CardsTypeOK
  <1>2. CASE CreateCard
    BY <1>2, CreateCardKeeps
  <1>3. CASE SetStatus
    BY <1>1, <1>3 DEF SetStatus, CardChange, CardFile
  <1>4. CASE UpdateLimits
    BY <1>1, <1>4 DEF UpdateLimits, CardChange, CardFile
  <1>5. CASE Provision
    BY <1>1, <1>5 DEF Provision, CardFile
  <1>6. CASE FundSimulated
    BY <1>1, <1>6 DEF FundSimulated, CardChange, CardFile
  <1>7. CASE BalanceAges
    BY <1>1, <1>7 DEF BalanceAges, CardChange, CardFile
  <1>. QED
    BY <1>2, <1>3, <1>4, <1>5, <1>6, <1>7

LEMMA CallsKnowNext ==
  ASSUME CardsAssumption, CardsTypeOK, CallsKnow, [CardsNext]_cardVars PROVE CallsKnow'
  <1>1. ASSUME UNCHANGED cardCalls PROVE CallsKnow'
    BY <1>1 DEF CallsKnow, CardIdle, Settling
  <1>2. ASSUME NEW c \in CardCalls, Answered(c) PROVE CallsKnow'
    BY <1>2 DEF Answered, CallsKnow, CardIdle, Settling, NoCardCall, CardsTypeOK
  <1>3. ASSUME NEW c \in CardCalls, NEW f, NEW u, NEW k,
               Waits(c, k, f, u), k \in {"sync", "authorize"} PROVE CallsKnow'
    BY <1>3 DEF Waits, CallsKnow, CardIdle, Settling, CardsTypeOK
  <1>4. ASSUME NEW c \in CardCalls, NEW f, NEW u, NEW k, Waits(c, k, f, u),
               k \in {"settle", "transfer"},
               f.txs[u].onchain, f.txs[u].status = "authorized"
        PROVE  CallsKnow'
    BY <1>4 DEF Waits, CallsKnow, CardIdle, Settling, CardsTypeOK
  <1>5. CASE CardCrash
    BY <1>5 DEF CardCrash, CallsKnow, CardIdle, Settling, NoCardCall
  <1>6. CASE CreateCard \/ SetStatus \/ UpdateLimits \/ Provision \/ FundSimulated \/ BalanceAges
    BY <1>1, <1>6, CardChangesKeep
  <1>7. ASSUME NEW c \in CardCalls,
               SyncEnds(c) \/ BalanceUnread(c) \/ AuthorizeEnds(c) \/ Declines(c) \/ Transfers(c)
        PROVE  CallsKnow'
    BY <1>2, <1>7 DEF SyncEnds, BalanceUnread, AuthorizeEnds, Declines, Transfers
  <1>8. ASSUME NEW c \in CardCalls, SyncStarts(c) \/ AuthorizeStarts(c) PROVE CallsKnow'
    BY <1>1, <1>3, <1>8 DEF SyncStarts, AuthorizeStarts
  <1>9. ASSUME NEW c \in CardCalls, AuthorizeNow(c) PROVE CallsKnow'
    BY <1>1, <1>9 DEF AuthorizeNow
  <1>10. ASSUME NEW c \in CardCalls, SettleReads(c) PROVE CallsKnow'
    <2>1. Synced(cardCalls[c].file).txs = cardCalls[c].file.txs /\ cardCalls[c].tx \in CardTxs
      BY CallFile, SyncedFile
    <2>2. /\ cardCalls[c].file.txs[cardCalls[c].tx].onchain
          /\ cardCalls[c].file.txs[cardCalls[c].tx].status = "authorized"
      BY <1>10, <2>1 DEF SettleReads, CallsKnow, Settling
    <2>3. \/ Answered(c)
          \/ Waits(c, "transfer", Synced(cardCalls[c].file), cardCalls[c].tx)
      BY <1>10 DEF SettleReads
    <2>. QED
      BY <1>2, <1>4, <2>1, <2>2, <2>3
  <1>11. ASSUME NEW c \in CardCalls, NEW t \in CardTxs, SettleStarts(c, t) PROVE CallsKnow'
    BY <1>4, <1>11 DEF SettleStarts, Settleable
  <1>12. ASSUME NEW t \in CardTxs,
                SettleSimulated(t) \/ Refund(t) \/ IssuerReports(t) \/ IssuerUpdates(t)
         PROVE  CallsKnow'
    BY <1>1, <1>12 DEF SettleSimulated, Refund, IssuerReports, IssuerUpdates
  <1>13. CASE UNCHANGED cardVars
    BY <1>1, <1>13 DEF cardVars
  <1>. QED
    BY <1>5, <1>6, <1>7, <1>8, <1>9, <1>10, <1>11, <1>12, <1>13 DEF CardsNext

(* The next state knows of a transaction what this one did, or its next       *)
(* status.                                                                    *)
From(r, t) ==
  \/ r = NoCardTx
  \/ \E s \in CardTx : /\ Known(s, t) /\ s # NoCardTx
                       /\ r.onchain = s.onchain /\ r.issuer = s.issuer
                       /\ LiveTx(r) => LiveTx(s)
FilesFrom(t) == /\ From(cardDb'.txs[t], t)
                /\ \A c \in CardCalls : From(cardCalls'[c].file.txs[t], t)

(* No step but a new transaction and a new settlement does more.              *)
CardStep(t) ==
  /\ drawn' >= drawn /\ loosened \subseteq loosened' /\ loosest' >= loosest
  /\ FilesFrom(t)
  /\ \/ /\ transfers'[t] = transfers[t]
        /\ \A c \in CardCalls : Settling(c, t)' => Settling(c, t)
        /\ t \notin loosened' /\ transfers[t] > 0 /\ cardDb.txs[t].status \in Ended
             => cardDb'.txs[t].status \in Ended
     \/ /\ t \in loosened'
        /\ transfers'[t] = transfers[t] \/ \E c \in CardCalls : Settling(c, t)
     \/ /\ transfers'[t] = transfers[t] + 1
        /\ cardDb'.txs[t].status \in Ended
        /\ \A c \in CardCalls : Settling(c, t)' => Settling(c, t)
        /\ \E c \in CardCalls : Settling(c, t) /\ ~Settling(c, t)'

LEMMA SettlingKnows ==
  ASSUME CardsTypeOK, CallsKnow, NEW t \in CardTxs, TxInv(t), NEW c \in CardCalls, Settling(c, t)
  PROVE  t <= drawn /\ \A r \in CardTx : Known(r, t) => ~r.issuer
  <1>. DEFINE h == cardCalls[c].file.txs[t]
  <1>1. h \in CardTx /\ Known(h, t)
    BY DEF CardsTypeOK, CardCall, CardFile, Known
  <1>2. h.onchain
    BY DEF CallsKnow
  <1>3. h # NoCardTx
    BY <1>2 DEF NoCardTx
  <1>4. ~(t > drawn)
    BY <1>1, <1>3 DEF TxInv, Unborn
  <1>. QED
    BY <1>1, <1>2, <1>4 DEF TxInv, Origin, CardsTypeOK, CardTxs, CardsAssumption

LEMMA KnownNext ==
  ASSUME NEW t \in CardTxs, FilesFrom(t), NEW r, Known(r, t)'
  PROVE  From(r, t)
  BY DEF FilesFrom, Known

(* What the files of the next state know, they knew. *)
LEMMA FilesKeep ==
  ASSUME CardsTypeOK, CardsTypeOK', CardsAssumption, CallsKnow,
         NEW t \in CardTxs, TxInv(t), FilesFrom(t), drawn' >= drawn,
         transfers'[t] = transfers[t] \/ \E c \in CardCalls : Settling(c, t)
  PROVE  Unborn(t)' /\ Origin(t)' /\ Paid(t)' /\ (t \in Live' => t \in Live)
  <1>1. t \in Nat /\ drawn \in Nat /\ drawn' \in Nat
    BY DEF CardsTypeOK, CardsAssumption, CardTxs
  <1>2. FilesFrom(t) /\ drawn' >= drawn
    OBVIOUS
  <1>3. Unborn(t)'
    BY <1>1, <1>2, KnownNext DEF Unborn, TxInv, From
  <1>4. Origin(t)'
    <2>1. SUFFICES ASSUME NEW r \in CardTx, NEW s \in CardTx, Known(r, t)', Known(s, t)', r.onchain
                   PROVE  ~s.issuer
      BY DEF Origin
    <2>2. From(r, t) /\ From(s, t)
      BY <1>2, <2>1, KnownNext
    <2>3. r # NoCardTx
      BY <2>1 DEF NoCardTx
    <2>4. CASE s = NoCardTx
      BY <2>4 DEF NoCardTx
    <2>5. CASE s # NoCardTx
      BY <2>1, <2>2, <2>3, <2>5 DEF From, TxInv, Origin
    <2>. QED
      BY <2>4, <2>5
  <1>5. Paid(t)'
    <2>1. SUFFICES ASSUME transfers'[t] > 0
                   PROVE  t <= drawn' /\ \A r \in CardTx : Known(r, t)' => ~r.issuer
      BY DEF Paid
    <2>2. transfers[t] > 0 \/ \E c \in CardCalls : Settling(c, t)
      BY <2>1
    <2>3. t <= drawn /\ \A r \in CardTx : Known(r, t) => ~r.issuer
      BY <2>2, SettlingKnows DEF TxInv, Paid
    <2>4. ~NoCardTx.issuer
      BY DEF NoCardTx
    <2>. QED
      BY <1>1, <1>2, <2>3, <2>4, KnownNext DEF From
  <1>6. ASSUME t \in Live' PROVE t \in Live
    <2>1. PICK r \in CardTx : Known(r, t)' /\ LiveTx(r)
      BY <1>6 DEF Live
    <2>2. r # NoCardTx
      BY <2>1 DEF LiveTx, NoCardTx
    <2>. QED
      BY <1>2, <2>1, <2>2, KnownNext DEF From, Live
  <1>. QED
    BY <1>3, <1>4, <1>5, <1>6

LEMMA CardStepKeeps ==
  ASSUME CardsTypeOK, CardsTypeOK', CardsAssumption, CallsKnow,
         NEW t \in CardTxs, TxInv(t), CardStep(t)
  PROVE  TxInv(t)' /\ (t \in Live' => t \in Live)
  <1>1. /\ FilesFrom(t) /\ drawn' >= drawn /\ loosened \subseteq loosened'
        /\ transfers'[t] = transfers[t] \/ \E c \in CardCalls : Settling(c, t)
    BY DEF CardStep
  <1>2. SettledOnce(t)'
    <2>1. SUFFICES ASSUME t \notin loosened'
                   PROVE  /\ \A c, d \in CardCalls : Settling(c, t)' /\ Settling(d, t)' => c = d
                          /\ transfers'[t] <= 1
                          /\ transfers'[t] > 0 => /\ cardDb'.txs[t].status \in Ended
                                                  /\ \A c \in CardCalls : ~Settling(c, t)'
      BY DEF SettledOnce
    <2>2. t \notin loosened /\ transfers[t] \in Nat
      BY <1>1, <2>1 DEF CardsTypeOK
    <2>3. CASE /\ transfers'[t] = transfers[t]
               /\ \A c \in CardCalls : Settling(c, t)' => Settling(c, t)
               /\ t \notin loosened' /\ transfers[t] > 0 /\ cardDb.txs[t].status \in Ended
                    => cardDb'.txs[t].status \in Ended
      BY <2>1, <2>2, <2>3 DEF TxInv, SettledOnce
    <2>4. CASE /\ transfers'[t] = transfers[t] + 1
               /\ cardDb'.txs[t].status \in Ended
               /\ \A c \in CardCalls : Settling(c, t)' => Settling(c, t)
               /\ \E c \in CardCalls : Settling(c, t) /\ ~Settling(c, t)'
      <3>1. transfers[t] = 0
        BY <2>2, <2>4 DEF TxInv, SettledOnce
      <3>2. \A c \in CardCalls : ~Settling(c, t)'
        BY <2>2, <2>4 DEF TxInv, SettledOnce
      <3>. QED
        BY <2>4, <3>1, <3>2
    <2>. QED
      BY <2>1, <2>3, <2>4 DEF CardStep
  <1>3. Unborn(t)' /\ Origin(t)' /\ Paid(t)' /\ (t \in Live' => t \in Live)
    BY <1>1, FilesKeep
  <1>. QED
    BY <1>2, <1>3 DEF TxInv

(* Where the files of the next state come from. *)
LEMMA FromFiles ==
  ASSUME CardsTypeOK, NEW t \in CardTxs
  PROVE  /\ From(cardDb.txs[t], t)
         /\ \A c \in CardCalls : From(cardCalls[c].file.txs[t], t)
  <1>1. cardDb.txs[t] \in CardTx /\ \A c \in CardCalls : cardCalls[c].file.txs[t] \in CardTx
    BY DEF CardsTypeOK, CardCall, CardFile
  <1>. QED
    BY <1>1 DEF From, Known

LEMMA FromMarked ==
  ASSUME NEW t \in CardTxs, NEW r \in CardTx, NEW s \in TxStatuses, Known(r, t),
         r # NoCardTx, s \in {"settled", "authorized"} => r.status = "authorized" \/ r.issuer
  PROVE  From([r EXCEPT !.status = s], t)
  <1>. DEFINE q == [r EXCEPT !.status = s]
  <1>1. q.onchain = r.onchain /\ q.issuer = r.issuer /\ q.status = s
    BY DEF CardTx
  <1>2. LiveTx(q) => LiveTx(r)
    BY <1>1 DEF LiveTx
  <1>. QED
    BY <1>1, <1>2 DEF From

LEMMA CallsFrom ==
  ASSUME CardsTypeOK, NEW t \in CardTxs,
         \/ UNCHANGED cardCalls
         \/ \E c \in CardCalls : Answered(c)
         \/ cardCalls' = [c \in CardCalls |-> NoCardCall]
  PROVE  /\ \A d \in CardCalls : From(cardCalls'[d].file.txs[t], t)
         /\ \A d \in CardCalls : Settling(d, t)' => Settling(d, t)
  <1>1. From(NoCardCall.file.txs[t], t)
    BY DEF NoCardCall, EmptyFile, From
  <1>2. NoCardCall.kind = "idle"
    BY DEF NoCardCall
  <1>3. CASE UNCHANGED cardCalls
    BY <1>3, FromFiles DEF Settling
  <1>4. ASSUME NEW c \in CardCalls, Answered(c)
        PROVE  \A d \in CardCalls : cardCalls'[d] \in {cardCalls[d], NoCardCall}
    BY <1>4 DEF Answered, CardsTypeOK
  <1>5. CASE \A d \in CardCalls : cardCalls'[d] \in {cardCalls[d], NoCardCall}
    BY <1>1, <1>2, <1>5, FromFiles DEF Settling
  <1>. QED
    BY <1>3, <1>4, <1>5

LEMMA WaitsFrom ==
  ASSUME CardsTypeOK, NEW t \in CardTxs, NEW c \in CardCalls, NEW k, NEW f, NEW u,
         Waits(c, k, f, u), From(f.txs[t], t)
  PROVE  /\ \A d \in CardCalls : From(cardCalls'[d].file.txs[t], t)
         /\ \A d \in CardCalls \ {c} : Settling(d, t)' => Settling(d, t)
         /\ Settling(c, t)' => k \in {"settle", "transfer"} /\ u = t
  <1>1. cardCalls'[c] = [kind |-> k, file |-> f, tx |-> u]
    BY DEF Waits, CardsTypeOK
  <1>2. \A d \in CardCalls \ {c} : cardCalls'[d] = cardCalls[d]
    BY DEF Waits, CardsTypeOK
  <1>. QED
    BY <1>1, <1>2, FromFiles DEF Settling

(* A step that leaves the transactions of the file and of the calls alone. *)
LEMMA SameTxsStep ==
  ASSUME CardsTypeOK, NEW t \in CardTxs, cardDb'.txs = cardDb.txs,
         UNCHANGED cardCalls \/ \E c \in CardCalls : Answered(c),
         UNCHANGED <<transfers, drawn, loosened, loosest>>
  PROVE  CardStep(t)
  <1>1. FilesFrom(t)
    BY CallsFrom, FromFiles DEF FilesFrom
  <1>2. \A c \in CardCalls : Settling(c, t)' => Settling(c, t)
    BY CallsFrom
  <1>3. drawn' >= drawn /\ loosest' >= loosest
    BY DEF CardsTypeOK, CardsAssumption
  <1>. QED
    BY <1>1, <1>2, <1>3 DEF CardStep

(* A call writes the file in its hands, one transaction of which it may have  *)
(* marked.                                                                    *)
LEMMA WrittenStep ==
  ASSUME CardsTypeOK, NEW t \in CardTxs, NEW c \in CardCalls, NEW f \in CardFile, Answered(c),
         cardDb' = f, loosened' = loosened \cup Undone(f), From(f.txs[t], t),
         UNCHANGED <<transfers, drawn, loosest>>
  PROVE  CardStep(t)
  <1>1. FilesFrom(t)
    BY CallsFrom, FromFiles DEF FilesFrom
  <1>2. \A d \in CardCalls : Settling(d, t)' => Settling(d, t)
    BY CallsFrom
  <1>3. drawn' >= drawn /\ loosest' >= loosest
    BY DEF CardsTypeOK, CardsAssumption
  <1>4. t \notin loosened' /\ cardDb.txs[t].status \in Ended => cardDb'.txs[t].status \in Ended
    BY DEF Undone
  <1>. QED
    BY <1>1, <1>2, <1>3, <1>4 DEF CardStep

(* Every action but the three that begin something. *)
LEMMA FileActionsStep ==
  ASSUME CardsAssumption, CardsTypeOK, NEW t \in CardTxs, TxInv(t),
         \/ CreateCard \/ SetStatus \/ UpdateLimits \/ Provision \/ FundSimulated \/ BalanceAges
         \/ \E u \in CardTxs : SettleSimulated(u) \/ Refund(u) \/ IssuerUpdates(u)
  PROVE  CardStep(t)
  <1>0. cardDb \in CardFile /\ Known(cardDb.txs[t], t) /\ cardDb.txs \in [CardTxs -> CardTx]
    BY DEF CardsTypeOK, Known, CardFile
  <1>1. CASE CreateCard \/ SetStatus \/ UpdateLimits \/ Provision \/ FundSimulated \/ BalanceAges
    BY <1>1, CardChangesKeep, SameTxsStep
  <1>2. ASSUME NEW u \in CardTxs, NEW s \in TxStatuses, UNCHANGED cardCalls,
               UNCHANGED <<transfers, drawn, loosened, loosest>>,
               cardDb.txs[u] # NoCardTx,
               s \in {"settled", "authorized"} => \/ cardDb.txs[u].status = "authorized"
                                                 \/ cardDb.txs[u].issuer,
               s \in Ended \/ transfers[t] = 0 \/ t # u,
               cardDb'.txs = MarkedTx(cardDb, u, s).txs
        PROVE  CardStep(t)
    <2>1. cardDb'.txs[t] = IF t = u THEN [cardDb.txs[t] EXCEPT !.status = s] ELSE cardDb.txs[t]
      <3>1. cardDb'.txs = [cardDb.txs EXCEPT ![u].status = s]
        BY <1>0, <1>2, MarkedFile
      <3>. QED
        BY <1>0, <3>1
    <2>2. From(cardDb'.txs[t], t)
      BY <1>0, <1>2, <2>1, FromFiles, FromMarked
    <2>3. transfers[t] > 0 /\ cardDb.txs[t].status \in Ended => cardDb'.txs[t].status \in Ended
      BY <1>0, <1>2, <2>1 DEF CardTx
    <2>4. FilesFrom(t) /\ \A c \in CardCalls : Settling(c, t)' => Settling(c, t)
      BY <1>2, <2>2, CallsFrom DEF FilesFrom
    <2>5. drawn' >= drawn /\ loosest' >= loosest
      BY <1>2 DEF CardsTypeOK, CardsAssumption
    <2>. QED
      BY <1>2, <2>3, <2>4, <2>5 DEF CardStep
  <1>3. ASSUME NEW u \in CardTxs, SettleSimulated(u) PROVE CardStep(t)
    <2>1. PICK s \in {"settled", "declined"} : cardDb'.txs = MarkedTx(cardDb, u, s).txs
      <3>1. MarkedTx(cardDb, u, "settled") \in CardFile
        BY <1>0, MarkedFile DEF TxStatuses
      <3>2. [MarkedTx(cardDb, u, "settled") EXCEPT !.ledger = @ - 1].txs
              = MarkedTx(cardDb, u, "settled").txs
        BY <3>1 DEF CardFile
      <3>. QED
        BY <1>3, <3>2 DEF SettleSimulated
    <2>. QED
      BY <1>2, <1>3, <2>1 DEF SettleSimulated, Settleable, Ended, TxStatuses, NoCardTx
  <1>4. ASSUME NEW u \in CardTxs, Refund(u) PROVE CardStep(t)
    <2>1. MarkedTx(cardDb, u, "refunded") \in CardFile
      BY <1>0, MarkedFile DEF TxStatuses
    <2>2. cardDb'.txs = MarkedTx(cardDb, u, "refunded").txs
      BY <1>4, <2>1 DEF Refund, CardFile
    <2>. QED
      BY <1>2, <1>4, <2>2 DEF Refund, Ended, TxStatuses, NoCardTx
  <1>5. ASSUME NEW u \in CardTxs, IssuerUpdates(u) PROVE CardStep(t)
    <2>1. PICK s \in {"authorized", "settled", "refunded"} : cardDb' = MarkedTx(cardDb, u, s)
      BY <1>5 DEF IssuerUpdates
    <2>2. cardDb.txs[u].issuer /\ UNCHANGED cardCalls
      BY <1>5 DEF IssuerUpdates
    <2>3. UNCHANGED <<transfers, drawn, loosened, loosest>>
      BY <1>5 DEF IssuerUpdates, CardChange
    <2>4. t = u => transfers[t] = 0
      BY <1>0, <2>2 DEF TxInv, Paid, CardsTypeOK
    <2>5. cardDb.txs[u] # NoCardTx
      BY <2>2 DEF NoCardTx
    <2>. QED
      BY <1>2, <2>1, <2>2, <2>3, <2>4, <2>5 DEF TxStatuses
  <1>. QED
    BY <1>1, <1>3, <1>4, <1>5

LEMMA CallActionsStep ==
  ASSUME CardsAssumption, CardsTypeOK, CallsKnow, NEW t \in CardTxs, TxInv(t), NEW c \in CardCalls,
         \/ SyncStarts(c) \/ SyncEnds(c) \/ BalanceUnread(c) \/ AuthorizeStarts(c)
         \/ Declines(c) \/ SettleReads(c) \/ Transfers(c)
  PROVE  CardStep(t)
  <1>. DEFINE f == cardCalls[c].file
              u == cardCalls[c].tx
  <1>1. cardDb \in CardFile /\ f \in CardFile /\ u \in CardTxs
    BY CallFile DEF CardsTypeOK
  <1>2. Synced(f) \in CardFile /\ Synced(f).txs = f.txs
    BY <1>1, SyncedFile
  <1>3. From(f.txs[t], t) /\ From(cardDb.txs[t], t)
    BY FromFiles
  <1>4. drawn \in Nat /\ loosest \in Nat
    BY DEF CardsTypeOK, CardsAssumption
  <1>5. ASSUME NEW k, NEW g, NEW v, Waits(c, k, g, v), From(g.txs[t], t),
               k \in {"settle", "transfer"} /\ v = t => Settling(c, t),
               UNCHANGED <<cardDb, transfers, drawn, loosened, loosest>>
        PROVE  CardStep(t)
    <2>1. FilesFrom(t)
      BY <1>3, <1>5, WaitsFrom DEF FilesFrom
    <2>2. \A d \in CardCalls : Settling(d, t)' => Settling(d, t)
      BY <1>5, WaitsFrom
    <2>. QED
      BY <1>4, <1>5, <2>1, <2>2 DEF CardStep
  <1>6. CASE SyncStarts(c)
    <2>1. CASE onchainMode
      <3>1. Waits(c, "sync", cardDb, 1)
        BY <1>6, <2>1 DEF SyncStarts
      <3>2. UNCHANGED <<cardDb, transfers, drawn, loosened, loosest>>
        BY <1>6, <2>1 DEF SyncStarts
      <3>. QED
        BY <1>3, <1>5, <3>1, <3>2
    <2>2. CASE ~onchainMode
      <3>1. cardDb'.txs = cardDb.txs
        BY <1>1, <1>6, <2>2, FundedFile DEF SyncStarts
      <3>2. UNCHANGED cardCalls /\ UNCHANGED <<transfers, drawn, loosened, loosest>>
        BY <1>6, <2>2 DEF SyncStarts
      <3>. QED
        BY <3>1, <3>2, SameTxsStep
    <2>. QED
      BY <2>1, <2>2
  <1>7. CASE SyncEnds(c)
    <2>1. /\ Answered(c) /\ cardDb' = Synced(f) /\ loosened' = loosened \cup Undone(Synced(f))
          /\ UNCHANGED <<transfers, drawn, loosest>>
      BY <1>7 DEF SyncEnds
    <2>2. From(Synced(f).txs[t], t)
      BY <1>2, <1>3
    <2>. QED
      BY <1>2, <2>1, <2>2, WrittenStep
  <1>8. CASE BalanceUnread(c) \/ Declines(c)
    <2>1. Answered(c) /\ UNCHANGED <<cardDb, transfers, drawn, loosened, loosest>>
      BY <1>8 DEF BalanceUnread, Declines
    <2>. QED
      BY <2>1, SameTxsStep
  <1>9. CASE AuthorizeStarts(c)
    <2>1. /\ Waits(c, "authorize", cardDb, 1)
          /\ UNCHANGED <<cardDb, transfers, drawn, loosened, loosest>>
      BY <1>9 DEF AuthorizeStarts
    <2>. QED
      BY <1>3, <1>5, <2>1
  <1>10. ASSUME NEW s \in TxStatuses, cardCalls[c].kind \in {"settle", "transfer"}
         PROVE  /\ MarkedTx(f, u, s) \in CardFile /\ From(MarkedTx(f, u, s).txs[t], t)
                /\ MarkedTx(f, u, s).txs[u].status = s
    <2>1. f.txs[u].status = "authorized" /\ f.txs \in [CardTxs -> CardTx]
      BY <1>1, <1>10 DEF CallsKnow, Settling, CardFile
    <2>2. MarkedTx(f, u, s) \in CardFile /\ MarkedTx(f, u, s).txs = [f.txs EXCEPT ![u].status = s]
      BY SMTT(30), <1>1, MarkedFile
    <2>3. CASE t = u
      <3>1. Known(f.txs[t], t) /\ f.txs[t] # NoCardTx
        BY <2>1, <2>3 DEF Known, NoCardTx
      <3>2. From([f.txs[t] EXCEPT !.status = s], t)
        BY <2>1, <2>3, <3>1, FromMarked
      <3>. QED
        BY <1>1, <2>1, <2>2, <2>3, <3>2 DEF CardTx
    <2>4. CASE t # u
      BY <1>1, <1>3, <2>1, <2>2, <2>4 DEF CardTx
    <2>. QED
      BY <2>3, <2>4
  <1>11. CASE SettleReads(c)
    <2>1. cardCalls[c].kind = "settle" /\ UNCHANGED <<transfers, drawn, loosest>>
      BY <1>11 DEF SettleReads
    <2>2. CASE Waits(c, "transfer", Synced(f), u) /\ UNCHANGED <<cardDb, loosened>>
      <3>1. u = t => Settling(c, t)
        BY <2>1 DEF Settling
      <3>2. From(Synced(f).txs[t], t)
        BY <1>2, <1>3
      <3>. QED
        BY <1>5, <2>1, <2>2, <3>1, <3>2
    <2>3. CASE ~(Waits(c, "transfer", Synced(f), u) /\ UNCHANGED <<cardDb, loosened>>)
      <3>. DEFINE g == MarkedTx(Synced(f), u, "declined")
      <3>1. Answered(c) /\ cardDb' = g /\ loosened' = loosened \cup Undone(g)
        BY <1>11, <2>3 DEF SettleReads
      <3>2. g.txs = MarkedTx(f, u, "declined").txs /\ g \in CardFile
        <4>1. "declined" \in TxStatuses
          BY DEF TxStatuses
        <4>2. MarkedTx(f, u, "declined").txs = [f.txs EXCEPT ![u].status = "declined"]
          BY <1>1, <4>1, MarkedFile
        <4>3. /\ g.txs = [Synced(f).txs EXCEPT ![u].status = "declined"]
              /\ g \in CardFile
          BY SMTT(30), <1>1, <1>2, <4>1, MarkedFile
        <4>. QED
          BY <1>2, <4>2, <4>3
      <3>3. From(g.txs[t], t)
        BY <1>10, <2>1, <3>2 DEF TxStatuses
      <3>. HIDE DEF g
      <3>. QED
        BY <2>1, <3>1, <3>2, <3>3, WrittenStep
    <2>. QED
      BY <2>2, <2>3
  <1>12. CASE Transfers(c)
    <2>1. PICK made \in BOOLEAN, s \in {"settled", "declined"} :
            /\ transfers' = [transfers EXCEPT ![u] = IF made THEN @ + 1 ELSE @]
            /\ cardDb' = MarkedTx(f, u, s)
            /\ loosened' = loosened \cup Undone(MarkedTx(f, u, s))
      BY <1>12 DEF Transfers
    <2>2. /\ cardCalls[c].kind = "transfer" /\ Answered(c) /\ UNCHANGED <<drawn, loosest>>
      BY <1>12 DEF Transfers
    <2>. DEFINE g == MarkedTx(f, u, s)
    <2>3. g \in CardFile /\ From(g.txs[t], t) /\ g.txs[u].status = s
      BY <1>10, <2>2 DEF TxStatuses
    <2>. HIDE DEF g
    <2>4. cardDb' = g /\ loosened' = loosened \cup Undone(g)
      BY <2>1 DEF g
    <2>5. CASE transfers'[t] = transfers[t]
      <3>1. FilesFrom(t)
        BY <2>2, <2>3, <2>4, CallsFrom DEF FilesFrom
      <3>2. \A d \in CardCalls : Settling(d, t)' => Settling(d, t)
        BY <2>2, CallsFrom
      <3>3. t \notin loosened' /\ cardDb.txs[t].status \in Ended => cardDb'.txs[t].status \in Ended
        BY <2>4 DEF Undone
      <3>. QED
        BY <1>4, <2>2, <2>4, <2>5, <3>1, <3>2, <3>3 DEF CardStep
    <2>6. CASE transfers'[t] # transfers[t]
      <3>1. t = u /\ transfers'[t] = transfers[t] + 1
        BY <1>1, <2>1, <2>6 DEF CardsTypeOK
      <3>2. Settling(c, t)
        BY <2>2, <3>1 DEF Settling
      <3>3. ~Settling(c, t)'
        BY <2>2 DEF Settling, Answered, NoCardCall, CardsTypeOK
      <3>4. cardDb'.txs[t].status \in Ended
        BY <2>3, <2>4, <3>1 DEF Ended
      <3>5. FilesFrom(t)
        BY <2>2, <2>3, <2>4, CallsFrom DEF FilesFrom
      <3>6. \A d \in CardCalls : Settling(d, t)' => Settling(d, t)
        BY <2>2, CallsFrom
      <3>. QED
        BY <1>4, <2>2, <2>4, <3>1, <3>2, <3>3, <3>4, <3>5, <3>6 DEF CardStep
    <2>. QED
      BY <2>5, <2>6
  <1>. QED
    BY <1>6, <1>7, <1>8, <1>9, <1>11, <1>12

LEMMA CardCrashStep ==
  ASSUME CardsAssumption, CardsTypeOK, NEW t \in CardTxs, CardCrash
  PROVE  CardStep(t)
  <1>1. UNCHANGED <<cardDb, drawn, loosest>> /\ cardCalls' = [c \in CardCalls |-> NoCardCall]
    BY DEF CardCrash, CardChange
  <1>2. loosened' = loosened \cup
          {cardCalls[c].tx : c \in {d \in CardCalls : cardCalls[d].kind = "transfer"}}
    BY DEF CardCrash
  <1>3. FilesFrom(t) /\ \A c \in CardCalls : Settling(c, t)' => Settling(c, t)
    BY <1>1, CallsFrom, FromFiles DEF FilesFrom
  <1>4. PICK c \in CardCalls, made \in BOOLEAN :
          /\ cardCalls[c].kind = "transfer"
          /\ transfers' = [transfers EXCEPT ![cardCalls[c].tx] = IF made THEN @ + 1 ELSE @]
    BY DEF CardCrash
  <1>5. transfers'[t] # transfers[t] => t = cardCalls[c].tx
    BY <1>4 DEF CardsTypeOK
  <1>6. transfers'[t] # transfers[t] => t \in loosened' /\ Settling(c, t)
    BY <1>2, <1>4, <1>5 DEF Settling
  <1>7. drawn \in Nat /\ loosest \in Nat
    BY DEF CardsTypeOK, CardsAssumption
  <1>. QED
    BY <1>1, <1>2, <1>3, <1>6, <1>7 DEF CardStep

LEMMA SettleStartsKeeps ==
  ASSUME CardsAssumption, CardsTypeOK, CardsTypeOK', CallsKnow, NEW t \in CardTxs, TxInv(t),
         NEW c \in CardCalls, NEW u \in CardTxs, SettleStarts(c, u)
  PROVE  TxInv(t)' /\ (t \in Live' => t \in Live)
  <1>1. /\ Waits(c, "settle", cardDb, u) /\ UNCHANGED <<cardDb, transfers, drawn, loosest>>
        /\ cardDb.txs[u].status = "authorized"
    BY DEF SettleStarts, Settleable
  <1>2. From(cardDb.txs[t], t)
    BY FromFiles
  <1>3. FilesFrom(t)
    BY <1>1, <1>2, WaitsFrom DEF FilesFrom
  <1>4. \A d \in CardCalls \ {c} : Settling(d, t)' => Settling(d, t)
    BY <1>1, <1>2, WaitsFrom
  <1>5. Settling(c, t)' => t = u
    BY <1>1, <1>2, WaitsFrom
  <1>6. loosened \subseteq loosened'
    BY DEF SettleStarts
  <1>7. drawn \in Nat /\ loosest \in Nat /\ transfers[t] \in Nat
    BY DEF CardsTypeOK, CardsAssumption
  <1>8. CASE t # u \/ t \in loosened'
    <2>1. CardStep(t)
      BY <1>1, <1>3, <1>4, <1>5, <1>6, <1>7, <1>8 DEF CardStep
    <2>. QED
      BY <2>1, CardStepKeeps
  <1>9. CASE t = u /\ t \notin loosened'
    <2>1. SettlesOf("settle", t) \cup SettlesOf("transfer", t) = {}
      BY <1>9 DEF SettleStarts
    <2>2. \A d \in CardCalls : ~Settling(d, t)
      BY <2>1 DEF Settling, SettlesOf
    <2>3. transfers[t] = 0
      BY <1>1, <1>6, <1>7, <1>9 DEF TxInv, SettledOnce, Ended
    <2>4. SettledOnce(t)'
      BY <1>1, <1>4, <2>2, <2>3 DEF SettledOnce
    <2>5. Unborn(t)' /\ Origin(t)' /\ Paid(t)' /\ (t \in Live' => t \in Live)
      BY <1>1, <1>3, <1>7, FilesKeep
    <2>. QED
      BY <2>4, <2>5 DEF TxInv
  <1>. QED
    BY <1>8, <1>9

(* A transaction that gets the next number. *)
LEMMA NewTxKeeps ==
  ASSUME CardsAssumption, CardsTypeOK, CardsTypeOK', CallsKnow, NEW t \in CardTxs, TxInv(t),
         t > drawn, t <= drawn', UNCHANGED transfers,
         UNCHANGED cardCalls \/ \E c \in CardCalls : Answered(c),
         ~(cardDb'.txs[t].onchain /\ cardDb'.txs[t].issuer)
  PROVE  /\ TxInv(t)'
         /\ \A c \in CardCalls : cardCalls'[c].file.txs[t] = NoCardTx
  <1>1. t \in Nat /\ drawn \in Nat /\ drawn' \in Nat /\ transfers[t] \in Nat
    BY DEF CardsTypeOK, CardsAssumption, CardTxs
  <1>2. transfers[t] = 0
    BY <1>1 DEF TxInv, Paid
  <1>3. \A c \in CardCalls : ~Settling(c, t)
    BY <1>1, SettlingKnows
  <1>4. \A c \in CardCalls : ~Settling(c, t)'
    BY <1>3, CallsFrom
  <1>5. \A c \in CardCalls : cardCalls[c].file.txs[t] = NoCardTx
    BY DEF TxInv, Unborn, Known, CardsTypeOK, CardCall, CardFile
  <1>6. \A c \in CardCalls : cardCalls'[c].file.txs[t] = NoCardTx
    <2>1. NoCardCall.file.txs[t] = NoCardTx
      BY DEF NoCardCall, EmptyFile
    <2>2. ASSUME NEW c \in CardCalls, Answered(c)
          PROVE  \A d \in CardCalls : cardCalls'[d] \in {cardCalls[d], NoCardCall}
      BY <2>2 DEF Answered, CardsTypeOK
    <2>. QED
      BY <1>5, <2>1, <2>2
  <1>7. Origin(t)'
    BY <1>6 DEF Origin, Known, NoCardTx
  <1>8. Unborn(t)' /\ Paid(t)' /\ SettledOnce(t)'
    BY <1>1, <1>2, <1>4 DEF Unborn, Paid, SettledOnce
  <1>. QED
    BY <1>6, <1>7, <1>8 DEF TxInv

LEMMA IssuerReportsKeeps ==
  ASSUME CardsAssumption, CardsTypeOK, CardsTypeOK', CallsKnow, NEW t \in CardTxs, TxInv(t),
         NEW u \in CardTxs, IssuerReports(u)
  PROVE  TxInv(t)' /\ (t \in Live' => t \in Live)
  <1>1. PICK s \in {"authorized", "settled", "refunded"} :
          cardDb' = [cardDb EXCEPT !.txs[u] = [status |-> s, onchain |-> FALSE, issuer |-> TRUE]]
    BY DEF IssuerReports
  <1>. DEFINE q == [status |-> s, onchain |-> FALSE, issuer |-> TRUE]
  <1>2. q \in CardTx /\ cardDb \in CardFile
    BY DEF CardTx, TxStatuses, CardsTypeOK
  <1>3. cardDb'.txs[u] = q /\ \A v \in CardTxs \ {u} : cardDb'.txs[v] = cardDb.txs[v]
    BY <1>1, <1>2, StoredFile
  <1>4. /\ u = drawn + 1 /\ drawn' = u /\ UNCHANGED cardCalls
        /\ UNCHANGED <<transfers, loosened, loosest>>
    BY DEF IssuerReports
  <1>5. drawn \in Nat /\ loosest \in Nat
    BY DEF CardsTypeOK, CardsAssumption
  <1>6. CASE t = u
    <2>1. TxInv(t)' /\ \A c \in CardCalls : cardCalls'[c].file.txs[t] = NoCardTx
      BY <1>3, <1>4, <1>5, <1>6, NewTxKeeps
    <2>2. t \notin Live'
      BY <1>3, <1>6, <2>1 DEF Live, Known, LiveTx, NoCardTx
    <2>. QED
      BY <2>1, <2>2
  <1>7. CASE t # u
    <2>1. FilesFrom(t) /\ \A d \in CardCalls : Settling(d, t)' => Settling(d, t)
      BY <1>3, <1>4, <1>7, CallsFrom, FromFiles DEF FilesFrom
    <2>2. cardDb'.txs[t] = cardDb.txs[t]
      BY <1>3, <1>7
    <2>3. CardStep(t)
      BY <1>4, <1>5, <2>1, <2>2 DEF CardStep
    <2>. QED
      BY <2>3, CardStepKeeps
  <1>. QED
    BY <1>6, <1>7

(* An authorization of a call that is idle or answered. *)
LEMMA AuthorizesKeeps ==
  ASSUME CardsAssumption, CardsTypeOK, CardsTypeOK', CallsKnow, NEW t \in CardTxs, TxInv(t),
         NEW c \in CardCalls, NEW read, NEW f \in CardFile, Authorizes(c, read, f),
         UNCHANGED cardCalls \/ Answered(c), From(f.txs[t], t)
  PROVE  TxInv(t)' /\ (t # drawn + 1 => (t \in Live' => t \in Live))
  <1>. DEFINE q == [status |-> "authorized", onchain |-> onchainMode, issuer |-> FALSE]
  <1>1. /\ cardDb' = [f EXCEPT !.txs[drawn + 1] = q] /\ loosened' = loosened \cup Undone(f)
        /\ drawn' = drawn + 1 /\ UNCHANGED transfers /\ drawn < MaxCardTxs
        /\ loosest' = IF f.daily > loosest THEN f.daily ELSE loosest
    BY DEF Authorizes
  <1>2. q \in CardTx /\ drawn + 1 \in CardTxs /\ drawn \in Nat /\ t \in Nat
    BY SMTT(30), <1>1 DEF CardsTypeOK, CardsAssumption, CardTx, TxStatuses, CardTxs
  <1>3. loosest' >= loosest
    BY <1>1 DEF CardsTypeOK, CardsAssumption, CardFile
  <1>4. /\ cardDb'.txs[drawn + 1] = q
        /\ \A v \in CardTxs \ {drawn + 1} : cardDb'.txs[v] = f.txs[v]
    BY <1>1, <1>2, StoredFile
  <1>5. UNCHANGED cardCalls \/ \E d \in CardCalls : Answered(d)
    OBVIOUS
  <1>6. CASE t = drawn + 1
    <2>1. ~cardDb'.txs[t].issuer /\ t > drawn /\ t <= drawn'
      BY <1>1, <1>2, <1>4, <1>6
    <2>. QED
      BY <1>1, <1>5, <1>6, <2>1, NewTxKeeps
  <1>7. CASE t # drawn + 1
    <2>1. cardDb'.txs[t] = f.txs[t]
      BY <1>4, <1>7
    <2>2. FilesFrom(t) /\ \A d \in CardCalls : Settling(d, t)' => Settling(d, t)
      BY <1>5, <2>1, CallsFrom DEF FilesFrom
    <2>3. t \notin loosened' /\ cardDb.txs[t].status \in Ended => cardDb'.txs[t].status \in Ended
      BY <1>1, <2>1 DEF Undone
    <2>4. CardStep(t)
      BY <1>1, <1>2, <1>3, <2>2, <2>3 DEF CardStep
    <2>. QED
      BY <2>4, CardStepKeeps
  <1>. QED
    BY <1>6, <1>7

(* Beside no open hold, no waiting call and no file written over, what may be *)
(* settled is what was settled.                                               *)
LEMMA AuthorizesLimit ==
  ASSUME CardsAssumption, CardsTypeOK, CallsKnow, \A t \in CardTxs : TxInv(t),
         NEW c \in CardCalls, NEW read, NEW f \in CardFile, Authorizes(c, read, f),
         (UNCHANGED cardCalls /\ CardIdle(c)) \/ Answered(c),
         f.txs = read.txs, ~overlapped'
  PROVE  Cardinality(Live') <= loosest'
  <1>1. read = cardDb /\ Holds(cardDb) = {} /\ \A d \in CardCalls \ {c} : CardIdle(d)
    BY DEF Authorizes
  <1>. DEFINE q == [status |-> "authorized", onchain |-> onchainMode, issuer |-> FALSE]
              n == drawn + 1
              S == {t \in CardTxs : f.txs[t].status = "settled"}
  <1>2. cardDb' = [f EXCEPT !.txs[n] = q] /\ n \in CardTxs /\ q \in CardTx
    BY DEF Authorizes, CardsTypeOK, CardsAssumption, CardTx, TxStatuses, CardTxs
  <1>3. cardDb'.txs[n] = q /\ \A v \in CardTxs \ {n} : cardDb'.txs[v] = f.txs[v]
    BY <1>2, StoredFile
  <1>4. \A d \in CardCalls : cardCalls'[d] = NoCardCall
    <2>1. \A d \in CardCalls \ {c} : cardCalls[d] = NoCardCall
      BY <1>1 DEF CallsKnow
    <2>2. CASE UNCHANGED cardCalls /\ CardIdle(c)
      BY <2>1, <2>2 DEF CallsKnow
    <2>3. CASE Answered(c)
      BY <2>1, <2>3 DEF Answered, CardsTypeOK
    <2>. QED
      BY <2>2, <2>3
  <1>5. Live' \subseteq S \cup {n}
    <2>1. SUFFICES ASSUME NEW t \in CardTxs, NEW r \in CardTx, Known(r, t)', LiveTx(r), t # n
                   PROVE  f.txs[t].status = "settled"
      BY DEF Live
    <2>2. NoCardCall.file.txs[t] = NoCardTx /\ ~LiveTx(NoCardTx)
      BY DEF NoCardCall, EmptyFile, NoCardTx, LiveTx
    <2>3. r = cardDb'.txs[t]
      BY <1>4, <2>1, <2>2 DEF Known
    <2>4. r = f.txs[t] /\ r = cardDb.txs[t]
      BY <1>1, <1>3, <2>1, <2>3
    <2>5. ~(r.status = "authorized")
      BY <1>1, <2>1, <2>4 DEF Holds, LiveTx
    <2>. QED
      BY <2>1, <2>4, <2>5 DEF LiveTx
  <1>6. IsFiniteSet(S) /\ Cardinality(S) \in Nat
    <2>1. IsFiniteSet(CardTxs)
      BY FS_Interval DEF CardTxs, CardsAssumption
    <2>. QED
      BY <2>1, FS_Subset, FS_CardinalityType
  <1>7. Used(f) = Cardinality(S)
    BY DEF Used
  <1>. HIDE DEF S, n, q
  <1>8. IsFiniteSet(S \cup {n}) /\ Cardinality(S \cup {n}) <= Cardinality(S) + 1
        /\ Cardinality(S \cup {n}) \in Nat
    <2>1. IsFiniteSet(S) /\ Cardinality(S) \in Nat
      BY <1>6
    <2>2. /\ IsFiniteSet(S \cup {n})
          /\ Cardinality(S \cup {n}) = IF n \in S THEN Cardinality(S) ELSE Cardinality(S) + 1
      BY ONLY <2>1, FS_AddElement
    <2>. QED
      BY <2>1, <2>2
  <1>9. Cardinality(Live') <= Cardinality(S \cup {n}) /\ Cardinality(Live') \in Nat
    BY <1>5, <1>8, FS_Subset, FS_CardinalityType
  <1>10. Used(f) + 1 <= f.daily /\ f.daily \in Nat /\ loosest \in Nat
    BY DEF Authorizes, Approves, WithinDaily, CardsTypeOK, CardsAssumption, CardFile
  <1>11. loosest' \in Nat /\ f.daily <= loosest'
    BY <1>10 DEF Authorizes
  <1>. QED
    BY <1>6, <1>7, <1>8, <1>9, <1>10, <1>11

LEMMA LimitFromLive ==
  ASSUME CardsTypeOK, CardsTypeOK', CardsAssumption, LimitKept, \A t \in CardTxs : t \in Live' => t \in Live,
         overlapped => overlapped', loosened \subseteq loosened', loosest' >= loosest
  PROVE  LimitKept'
  <1>1. Live' \subseteq Live
    BY DEF Live
  <1>2. IsFiniteSet(Live)
    <2>1. IsFiniteSet(CardTxs)
      BY FS_Interval DEF CardTxs, CardsAssumption
    <2>. QED
      BY <2>1, FS_Subset DEF Live
  <1>3. Cardinality(Live') <= Cardinality(Live) /\ Cardinality(Live') \in Nat
        /\ Cardinality(Live) \in Nat
    BY <1>1, <1>2, FS_Subset, FS_CardinalityType
  <1>4. loosest \in Nat /\ loosest' \in Nat
    BY DEF CardsTypeOK
  <1>5. CASE overlapped
    BY <1>5 DEF LimitKept
  <1>6. CASE loosened # {}
    BY <1>6 DEF LimitKept
  <1>7. CASE Cardinality(Live) <= loosest
    BY <1>3, <1>4, <1>7 DEF LimitKept
  <1>. QED
    BY <1>5, <1>6, <1>7 DEF LimitKept

LEMMA AuthorizationKeeps ==
  ASSUME CardsAssumption, CardsInv, CardsTypeOK', NEW c \in CardCalls,
         AuthorizeNow(c) \/ AuthorizeEnds(c)
  PROVE  (\A t \in CardTxs : TxInv(t)') /\ LimitKept'
  <1>1. PICK read, f \in CardFile :
          /\ Authorizes(c, read, f) /\ f.txs = read.txs
          /\ (UNCHANGED cardCalls /\ CardIdle(c)) \/ Answered(c)
          /\ \A t \in CardTxs : From(f.txs[t], t)
    <2>1. CASE AuthorizeNow(c)
      <3>1. cardDb \in CardFile /\ Funded(cardDb) \in CardFile /\ Funded(cardDb).txs = cardDb.txs
        BY FundedFile DEF CardsInv, CardsTypeOK
      <3>2. PICK f \in {cardDb, Funded(cardDb)} : Authorizes(c, cardDb, f)
        BY <2>1 DEF AuthorizeNow
      <3>3. \A t \in CardTxs : From(f.txs[t], t)
        BY <3>1, <3>2, FromFiles DEF CardsInv
      <3>4. UNCHANGED cardCalls /\ CardIdle(c)
        BY <2>1 DEF AuthorizeNow
      <3>. QED
        BY <3>1, <3>2, <3>3, <3>4
    <2>2. CASE AuthorizeEnds(c)
      <3>. DEFINE f == Synced(cardCalls[c].file)
      <3>1. f \in CardFile /\ f.txs = cardCalls[c].file.txs /\ cardCalls[c].file \in CardFile
        BY CallFile, SyncedFile DEF CardsInv
      <3>2. \A t \in CardTxs : From(f.txs[t], t)
        BY <3>1, FromFiles DEF CardsInv
      <3>3. Authorizes(c, cardCalls[c].file, f) /\ Answered(c)
        BY <2>2 DEF AuthorizeEnds
      <3>. HIDE DEF f
      <3>. QED
        BY <3>1, <3>2, <3>3
    <2>. QED
      BY <2>1, <2>2
  <1>2. ASSUME NEW t \in CardTxs PROVE TxInv(t)'
    BY <1>1, AuthorizesKeeps DEF CardsInv
  <1>3. CASE overlapped'
    BY <1>2, <1>3 DEF LimitKept
  <1>4. CASE ~overlapped'
    <2>1. Cardinality(Live') <= loosest'
      BY <1>1, <1>4, AuthorizesLimit DEF CardsInv
    <2>. QED
      BY <1>2, <2>1 DEF LimitKept
  <1>. QED
    BY <1>3, <1>4

(* Every other step. *)
LEMMA OtherStepKeeps ==
  ASSUME CardsAssumption, CardsInv, CardsTypeOK', [CardsNext]_cardVars,
         ~(\E c \in CardCalls : AuthorizeNow(c) \/ AuthorizeEnds(c))
  PROVE  (\A t \in CardTxs : TxInv(t)') /\ LimitKept'
  <1>0. CardsTypeOK /\ CallsKnow /\ (\A t \in CardTxs : TxInv(t)) /\ LimitKept
        /\ drawn \in Nat /\ loosest \in Nat
    BY DEF CardsInv, CardsTypeOK, CardsAssumption
  <1>. DEFINE Kept == \A t \in CardTxs : TxInv(t)' /\ (t \in Live' => t \in Live)
              Marks == /\ UNCHANGED <<overlapped, loosest>> /\ loosened \subseteq loosened'
  <1>1. Marks => loosest' >= loosest /\ (overlapped => overlapped') /\ loosened \subseteq loosened'
    BY <1>0
  <1>2. ASSUME Kept, Marks PROVE (\A t \in CardTxs : TxInv(t)') /\ LimitKept'
    BY <1>0, <1>1, <1>2, LimitFromLive
  <1>3. ASSUME \A t \in CardTxs : CardStep(t) PROVE Kept
    BY <1>0, <1>3, CardStepKeeps
  <1>4. CASE CreateCard \/ SetStatus \/ UpdateLimits \/ Provision \/ FundSimulated \/ BalanceAges
    <2>1. Kept
      BY <1>0, <1>3, <1>4, FileActionsStep
    <2>2. Marks
      BY <1>0, <1>4, CardChangesKeep
    <2>. QED
      BY <1>2, <2>1, <2>2
  <1>5. CASE CardCrash
    <2>1. Kept
      BY <1>0, <1>3, <1>5, CardCrashStep
    <2>2. Marks
      BY <1>5 DEF CardCrash, CardChange
    <2>. QED
      BY <1>2, <2>1, <2>2
  <1>6. ASSUME NEW c \in CardCalls,
               \/ SyncStarts(c) \/ SyncEnds(c) \/ BalanceUnread(c) \/ AuthorizeStarts(c)
               \/ Declines(c) \/ SettleReads(c) \/ Transfers(c)
        PROVE  (\A t \in CardTxs : TxInv(t)') /\ LimitKept'
    <2>1. Kept
      BY <1>0, <1>3, <1>6, CallActionsStep
    <2>2. Marks
      BY <1>6 DEF SyncStarts, SyncEnds, BalanceUnread, AuthorizeStarts, Declines, SettleReads, Transfers
    <2>. QED
      BY <1>2, <2>1, <2>2
  <1>7. ASSUME NEW c \in CardCalls, NEW u \in CardTxs, SettleStarts(c, u)
        PROVE  (\A t \in CardTxs : TxInv(t)') /\ LimitKept'
    <2>1. Kept
      BY <1>0, <1>7, SettleStartsKeeps
    <2>2. Marks
      BY <1>7 DEF SettleStarts
    <2>. QED
      BY <1>2, <2>1, <2>2
  <1>8. ASSUME NEW u \in CardTxs, SettleSimulated(u) \/ Refund(u) \/ IssuerUpdates(u)
        PROVE  (\A t \in CardTxs : TxInv(t)') /\ LimitKept'
    <2>1. Kept
      BY <1>0, <1>3, <1>8, FileActionsStep
    <2>2. Marks
      BY <1>8 DEF SettleSimulated, Refund, IssuerUpdates, CardChange
    <2>. QED
      BY <1>2, <2>1, <2>2
  <1>9. ASSUME NEW u \in CardTxs, IssuerReports(u) PROVE (\A t \in CardTxs : TxInv(t)') /\ LimitKept'
    <2>1. Kept
      BY <1>0, <1>9, IssuerReportsKeeps
    <2>2. Marks
      BY <1>9 DEF IssuerReports
    <2>. QED
      BY <1>2, <2>1, <2>2
  <1>10. CASE UNCHANGED cardVars
    <2>1. \A t \in CardTxs : CardStep(t)
      BY <1>0, <1>10, SameTxsStep DEF cardVars
    <2>2. Marks
      BY <1>10 DEF cardVars
    <2>. QED
      BY <1>2, <1>3, <2>1, <2>2
  <1>. QED
    BY <1>4, <1>5, <1>6, <1>7, <1>8, <1>9, <1>10 DEF CardsNext

LEMMA CardsInitInv == ASSUME CardsAssumption, CardsInit PROVE CardsInv
  <1>1. CardsTypeOK
    BY CardsInitTypes
  <1>2. CallsKnow
    BY DEF CardsInit, CallsKnow, CardIdle, Settling, NoCardCall
  <1>3. ASSUME NEW t \in CardTxs, NEW r, Known(r, t) PROVE r = NoCardTx
    BY <1>3 DEF Known, CardsInit, NoCardCall, EmptyFile
  <1>4. \A t \in CardTxs : TxInv(t)
    BY <1>3 DEF TxInv, Unborn, Origin, Paid, SettledOnce, CardsInit, NoCardCall, Settling, NoCardTx
  <1>5. Live = {}
    BY <1>3 DEF Live, LiveTx, NoCardTx
  <1>6. LimitKept
    BY <1>5, FS_EmptySet DEF LimitKept, CardsInit
  <1>. QED
    BY <1>1, <1>2, <1>4, <1>6 DEF CardsInv

THEOREM CardsSpecInv == CardsSpec => []CardsInv
  <1>1. ASSUME CardsAssumption, CardsInv, [CardsNext]_cardVars PROVE CardsInv'
    <2>1. CardsTypeOK'
      BY <1>1, CardsNextTypes DEF CardsInv
    <2>2. CallsKnow'
      BY <1>1, CallsKnowNext DEF CardsInv
    <2>3. (\A t \in CardTxs : TxInv(t)') /\ LimitKept'
      BY <1>1, <2>1, AuthorizationKeeps, OtherStepKeeps
    <2>. QED
      BY <2>1, <2>2, <2>3 DEF CardsInv
  <1>2. CardsAssumption
    BY CardsAssumption
  <1>. QED
    BY <1>1, <1>2, CardsInitInv, PTL DEF CardsSpec

(* The wallet pays a card transaction once, unless two settlements of it       *)
(* overlapped, an older file took its settlement back or the process died with *)
(* the transfer under way (settleCardTransaction).                             *)
THEOREM SpecPaidOnce == CardsSpec => []PaidOnce
  <1>1. CardsInv => PaidOnce
    BY DEF CardsInv, TxInv, SettledOnce, PaidOnce, CardsTypeOK
  <1>. QED
    BY <1>1, CardsSpecInv, PTL

(* What was authorized here and settled stays within the widest daily limit it *)
(* was held to, unless an authorization was given beside an open hold, a       *)
(* waiting call or a file already written over (authorizeCardSpend).     *)
THEOREM SpecSpentWithinLimit == CardsSpec => []SpentWithinLimit
  <1>1. ASSUME CardsAssumption, CardsInv PROVE SpentWithinLimit
    <2>. DEFINE S == {t \in CardTxs : cardDb.txs[t].status = "settled" /\ ~cardDb.txs[t].issuer}
    <2>1. S \subseteq Live
      BY <1>1 DEF Live, LiveTx, Known, CardsInv, CardsTypeOK, CardFile
    <2>2. IsFiniteSet(Live)
      <3>1. IsFiniteSet(CardTxs)
        BY <1>1, FS_Interval DEF CardTxs, CardsAssumption
      <3>. QED
        BY <3>1, FS_Subset DEF Live
    <2>3. Cardinality(S) <= Cardinality(Live) /\ Cardinality(S) \in Nat /\ Cardinality(Live) \in Nat
      BY <2>1, <2>2, FS_Subset, FS_CardinalityType
    <2>4. loosest \in Nat /\ LimitKept
      BY <1>1 DEF CardsInv, CardsTypeOK
    <2>. HIDE DEF S
    <2>5. overlapped \/ loosened # {} \/ Cardinality(S) <= loosest
      BY <2>3, <2>4 DEF LimitKept
    <2>. QED
      BY <2>5 DEF SpentWithinLimit, S
  <1>2. CardsAssumption
    BY CardsAssumption
  <1>. QED
    BY <1>1, <1>2, CardsSpecInv, PTL

================================================================================
