---------------------------- MODULE X402RefundProofs ----------------------------
(***************************************************************************)
(* Theorems about X402Refund, for any number of invoices, owners, clients   *)
(* and executors and any limits.                                            *)
(*                                                                          *)
(* What every executor may rely on (PayoutIsJustified, FarmingBound) holds   *)
(* through overlaps, late failures and restarts.  What a single sweep        *)
(* guarantees (PaysOncePerOutcome, CapPlusReopened) is proved from Alone.    *)
(***************************************************************************)
EXTENDS X402Refund, FiniteSetTheorems, TLAPS

Executes(e, i) == exec[e] = Spending(i) \/ exec[e] = Moved(i)

(* A refund status goes back to a recorded failure, and an approval to a     *)
(* look at the invoice; an execution goes back to an approval.               *)
ReviewIsRecorded == \A i \in Invoices : refund[i] # "none" => recorded[i] > 0

ApprovalIsJustified ==
  \A i \in Invoices : refund[i] = "refund_approved" => i \in paid /\ i \notin Oversized

ExecutionIsJustified ==
  \A e \in Execs, i \in Invoices :
    Executes(e, i) => i \in paid /\ recorded[i] > 0 /\ i \notin Oversized

RefundInv ==
  /\ TypeOK
  /\ ReviewIsRecorded /\ ApprovalIsJustified /\ ExecutionIsJustified /\ PayoutIsJustified
  /\ FarmingBound

--------------------------------------------------------------------------------
(* One sweep at a time, nobody executes by hand, nothing crashes, and a spend *)
(* tells the truth.                                                           *)
Alone ==
  /\ Manuals = {} /\ \A d, e \in Sweeps : d = e
  /\ MaxRestarts = 0
  /\ SpendFaults = {}

Spends(i) == \E e \in Execs : exec[e] = Spending(i)
HasMoved(i) == \E e \in Execs : exec[e] = Moved(i)

(* A failure that may yet be paid back, and one that is being paid back, has  *)
(* not been paid back.  Money that has moved is about to close the review,    *)
(* whatever it says by then.                                                  *)
OutcomesLeft ==
  /\ PaysOncePerOutcome
  /\ \A i \in Invoices :
       /\ Spends(i) => payouts[i] + 1 <= recorded[i]
       /\ (refund[i] \in {"pending_review", "refund_approved"} /\ ~HasMoved(i)) =>
            payouts[i] + 1 <= recorded[i]

(* Today's refunds are refunded, and today's payouts are among them, or were  *)
(* before they were put under review again.  An execution will add its own,   *)
(* unless an operator was faster.                                             *)
BudgetLeft ==
  /\ \A i \in today : refund[i] = "refunded"
  /\ spent <= Cardinality(today) + reopened + IF \E i \in Invoices \ today : HasMoved(i) THEN 1 ELSE 0
  /\ \A i \in today : Spends(i) => spent + 1 <= Cardinality(today) + reopened
  /\ CapPlusReopened
  /\ (\E i \in Invoices : Spends(i)) => spent + 1 <= DailyCap + reopened

AloneInv == TypeOK /\ OutcomesLeft /\ BudgetLeft

--------------------------------------------------------------------------------
(* Stages. *)

(* The stages of an execution are told apart, and name their invoice. *)
LEMMA StagesDiffer ==
  /\ \A i, j : /\ Spending(i) = Spending(j) => i = j
               /\ Moved(i) = Moved(j) => i = j
               /\ Spending(i) # Moved(j)
               /\ Spending(i) # Resting /\ Moved(i) # Resting
  /\ \A i : /\ Spending(i).invoice = i /\ Spending(i).stage = "spending"
            /\ Moved(i).invoice = i /\ Moved(i).stage = "moved"
            /\ Serving(i).invoice = i /\ Serving(i).stage = "serving"
            /\ Failed(i).invoice = i /\ Failed(i).stage = "failed"
            /\ Answered(i).stage = "answered"
  /\ Resting.stage = "idle"
  BY DEF Spending, Moved, Serving, Failed, Answered, Resting

LEMMA ExecutionStage ==
  ASSUME TypeOK, NEW e \in Execs
  PROVE  /\ exec[e].stage = "spending" =>
              exec[e].invoice \in Invoices /\ exec[e] = Spending(exec[e].invoice)
         /\ exec[e].stage = "moved" =>
              exec[e].invoice \in Invoices /\ exec[e] = Moved(exec[e].invoice)
  <1>1. \/ exec[e] = Resting
        \/ \E i \in Invoices : exec[e] = Spending(i)
        \/ \E i \in Invoices : exec[e] = Moved(i)
    BY DEF TypeOK
  <1>. QED
    BY <1>1, StagesDiffer

LEMMA RequestStage ==
  ASSUME TypeOK, NEW c \in Clients, request[c].stage \in {"serving", "failed"}
  PROVE  request[c].invoice \in Invoices
  <1>1. \/ request[c] = Resting
        \/ \E i \in Invoices : request[c] = Serving(i)
        \/ \E i \in Invoices : request[c] = Failed(i)
        \/ \E i \in Invoices : request[c] = Answered(i)
    BY DEF TypeOK
  <1>. QED
    BY <1>1, StagesDiffer

--------------------------------------------------------------------------------
(* Type correctness. *)

(* The requests, and what the provider's failure does to an invoice. *)
LEMMA OutcomeTypes ==
  ASSUME TypeOK, NEW i \in Invoices, MarkOutcome(i)
  PROVE  /\ paid' \subseteq Invoices /\ service' \in [Invoices -> Services]
         /\ refund' \in [Invoices -> RefundStatuses]
         /\ attempts' \in [Invoices -> Nat] /\ age' \in [Invoices -> 0 .. 2]
         /\ due' \subseteq Invoices /\ today' \subseteq Invoices
         /\ recorded' \in [Invoices -> Nat] /\ payouts' \in [Invoices -> 0 .. MaxPayouts]
         /\ spent' \in Nat /\ reopened' \in Nat /\ restarts' \in 0 .. MaxRestarts
  BY DEF TypeOK, MarkOutcome, Services, RefundStatuses, Reviewed

LEMMA TypeStep == TypeOK /\ [Next]_vars => TypeOK'
  <1>. SUFFICES ASSUME TypeOK, [Next]_vars PROVE TypeOK'
    OBVIOUS
  <1>. USE DEF invoiceVars
  <1>1. ASSUME NEW i \in Invoices, Settle(i) \/ OutcomeAges(i) \/ ApprovalAges(i)
        PROVE  TypeOK'
    BY <1>1 DEF Settle, OutcomeAges, ApprovalAges, TypeOK
  <1>2. ASSUME NEW i \in Invoices, OperatorCompletes(i)
        PROVE  TypeOK'
    BY <1>2 DEF OperatorCompletes, Complete, TypeOK, RefundStatuses, Reviewed
  <1>3. ASSUME NEW i \in Invoices, NEW c \in Clients, Unlock(c, i)
        PROVE  TypeOK'
    BY <1>3 DEF Unlock, TypeOK, Services
  <1>4. ASSUME NEW i \in Invoices, NEW c \in Clients, TreasuryLow(c, i)
        PROVE  TypeOK'
    BY <1>4 DEF TreasuryLow, TypeOK
  <1>5. ASSUME NEW i \in Invoices, NEW e \in Execs, StartRefund(e, i)
        PROVE  TypeOK'
    BY <1>5 DEF StartRefund, TypeOK
  <1>6. ASSUME NEW c \in Clients, ProviderOk(c)
        PROVE  TypeOK'
    BY <1>6 DEF ProviderOk, TypeOK
  <1>7. ASSUME NEW c \in Clients, ProviderFails(c)
        PROVE  TypeOK'
    <2>. DEFINE i == request[c].invoice
    <2>1. i \in Invoices
      BY <1>7, RequestStage DEF ProviderFails
    <2>2. /\ request' = [request EXCEPT ![c] = IF c \in McpTools THEN Failed(i) ELSE Answered(i)]
          /\ exec' = exec
          /\ MarkOutcome(i) \/ UNCHANGED <<invoiceVars, recorded, payouts, spent, reopened, restarts>>
      BY <1>7 DEF ProviderFails
    <2>3. request' \in [Clients -> {Resting} \cup {Serving(j) : j \in Invoices}
                       \cup {Failed(j) : j \in Invoices} \cup {Answered(j) : j \in Invoices}]
      BY <2>1, <2>2 DEF TypeOK
    <2>. QED
      BY <2>1, <2>2, <2>3, OutcomeTypes DEF TypeOK
  <1>8. ASSUME NEW c \in Clients, ToolRecords(c)
        PROVE  TypeOK'
    <2>1. request[c].invoice \in Invoices
      BY <1>8, RequestStage DEF ToolRecords
    <2>2. request' \in [Clients -> {Resting} \cup {Serving(j) : j \in Invoices}
                       \cup {Failed(j) : j \in Invoices} \cup {Answered(j) : j \in Invoices}]
      BY <1>8, <2>1 DEF ToolRecords, TypeOK
    <2>. QED
      BY <1>8, <2>1, <2>2, OutcomeTypes DEF ToolRecords, TypeOK
  <1>9. ASSUME NEW e \in Execs, MoneyMoves(e)
        PROVE  TypeOK'
    BY <1>9, ExecutionStage, LimitsAssumption DEF MoneyMoves, TypeOK
  <1>10. ASSUME NEW e \in Execs, SpendReturns(e)
         PROVE  TypeOK'
    BY <1>10, ExecutionStage DEF SpendReturns, Complete, TypeOK, RefundStatuses, Reviewed
  <1>11. ASSUME NEW e \in Execs, SpendThrows(e)
         PROVE  TypeOK'
    BY <1>11, ExecutionStage DEF SpendThrows, TypeOK, RefundStatuses, Reviewed
  <1>12. ASSUME NEW e \in Execs, SpendReturnsNoHash(e)
         PROVE  TypeOK'
    BY <1>12, ExecutionStage DEF SpendReturnsNoHash, TypeOK
  <1>13. CASE Scan
    BY <1>13 DEF Scan, TypeOK, RefundStatuses, Reviewed
  <1>14. CASE NewDay \/ Restart
    BY <1>14, LimitsAssumption DEF NewDay, Restart, TypeOK
  <1>15. CASE UNCHANGED vars
    BY <1>15 DEF vars, TypeOK
  <1>. QED
    BY <1>1, <1>2, <1>3, <1>4, <1>5, <1>6, <1>7, <1>8, <1>9, <1>10, <1>11, <1>12, <1>13,
      <1>14, <1>15 DEF Next

--------------------------------------------------------------------------------
(* What every executor may rely on. *)

(* The owner's invoices that count against the limit, and those of them that  *)
(* wait for their money.                                                      *)
Counted(o) == {i \in Invoices : OwnerOf[i] = o /\ refund[i] \in Reviewed /\ age[i] < 2}
Waiting(o) == {i \in Invoices : OwnerOf[i] = o /\ refund[i] = "refund_approved" /\ age[i] < 2}

(* The scan approves nothing for an owner who has used up the limit: whatever *)
(* is approved within the window is among the counted, of which there are not *)
(* more than the limit.                                                       *)
LEMMA ScanKeepsFarmingBound ==
  ASSUME TypeOK, FarmingBound, Scan
  PROVE  FarmingBound'
  <1>. SUFFICES ASSUME NEW o \in Owners
                PROVE  Cardinality(Waiting(o)') <= FarmLimit
    BY DEF FarmingBound, Waiting
  <1>. DEFINE approved == {i \in Invoices : Reviewable(i) /\ ~Farming(i) /\ i \notin Oversized}
  <1>1. IsFiniteSet(Waiting(o)) /\ IsFiniteSet(Counted(o))
    BY SetsAssumption, FS_Subset DEF Waiting, Counted
  <1>2. Cardinality(Waiting(o)) <= FarmLimit
    BY DEF FarmingBound, Waiting
  <1>3. \A i \in Waiting(o)' : i \in Waiting(o) \/ (i \in approved /\ i \in Counted(o))
    BY DEF Scan, Waiting, Counted, Reviewable, Reviewed, TypeOK
  <1>4. CASE \A i \in approved : i \notin Counted(o)
    <2>1. Waiting(o)' \subseteq Waiting(o)
      BY <1>3, <1>4
    <2>2. Cardinality(Waiting(o)') <= Cardinality(Waiting(o))
      BY <1>1, <2>1, FS_Subset
    <2>. QED
      BY <1>1, <1>2, <2>1, <2>2, FS_Subset, FS_CardinalityType, LimitsAssumption
  <1>5. ASSUME NEW i \in approved, i \in Counted(o)
        PROVE  Cardinality(Waiting(o)') <= FarmLimit
    <2>. DEFINE others == {j \in Invoices \ {i} : /\ OwnerOf[j] = OwnerOf[i]
                                               /\ refund[j] \in Reviewed /\ age[j] < 2}
    <2>1. others = Counted(o) \ {i}
      BY <1>5 DEF Counted
    <2>2. ~(Cardinality(others) >= FarmLimit)
      BY DEF Farming
    <2>3. Cardinality(others) = Cardinality(Counted(o)) - 1 /\ Cardinality(Counted(o)) \in Nat
      BY <1>1, <1>5, <2>1, FS_RemoveElement, FS_CardinalityType
    <2>4. Cardinality(Counted(o)) <= FarmLimit
      BY <2>2, <2>3, LimitsAssumption
    <2>5. Waiting(o)' \subseteq Counted(o)
      BY <1>3 DEF Waiting, Counted, Reviewed
    <2>6. Cardinality(Waiting(o)') <= Cardinality(Counted(o)) /\ IsFiniteSet(Waiting(o)')
      BY <1>1, <2>5, FS_Subset
    <2>. QED
      BY <2>3, <2>4, <2>6, FS_CardinalityType, LimitsAssumption
  <1>. QED
    BY <1>4, <1>5

(* Any other step only takes invoices out of the waiting. *)
LEMMA FewerWaiting ==
  ASSUME TypeOK, FarmingBound,
         \A i \in Invoices : refund'[i] = "refund_approved" /\ age'[i] < 2 =>
                               refund[i] = "refund_approved" /\ age[i] < 2
  PROVE  FarmingBound'
  <1>. SUFFICES ASSUME NEW o \in Owners
                PROVE  Cardinality(Waiting(o)') <= FarmLimit
    BY DEF FarmingBound, Waiting
  <1>1. IsFiniteSet(Waiting(o)) /\ Waiting(o)' \subseteq Waiting(o)
    BY SetsAssumption, FS_Subset DEF Waiting
  <1>2. /\ Cardinality(Waiting(o)') <= Cardinality(Waiting(o))
        /\ Cardinality(Waiting(o)') \in Nat /\ Cardinality(Waiting(o)) \in Nat
    BY <1>1, FS_Subset, FS_CardinalityType
  <1>3. Cardinality(Waiting(o)) <= FarmLimit
    BY DEF FarmingBound, Waiting
  <1>. QED
    BY <1>2, <1>3, LimitsAssumption

(* What the rest of the invariant says of a single step: what was recorded,   *)
(* paid or paid out stays so, an approval comes from the scan, an execution   *)
(* from an approval, and a payout from an execution.                          *)
Grows ==
  /\ paid \subseteq paid'
  /\ \A i \in Invoices : recorded[i] > 0 => recorded'[i] > 0
  /\ \A i \in Invoices : refund'[i] # "none" => refund[i] # "none" \/ recorded'[i] > 0

Approves ==
  \A i \in Invoices : refund'[i] = "refund_approved" =>
    refund[i] = "refund_approved" \/ (i \in paid /\ i \notin Oversized)

Executed ==
  \A e \in Execs, i \in Invoices :
    Executes(e, i)' => Executes(e, i) \/ refund[i] = "refund_approved"

PaysOut ==
  \A i \in Invoices : payouts'[i] > 0 => payouts[i] > 0 \/ \E e \in Execs : Executes(e, i)

LEMMA JustifiedStep ==
  ASSUME RefundInv, Grows, Approves, Executed, PaysOut
  PROVE  (ReviewIsRecorded /\ ApprovalIsJustified /\ ExecutionIsJustified /\ PayoutIsJustified)'
  <1>1. ReviewIsRecorded'
    BY DEF RefundInv, ReviewIsRecorded, Grows
  <1>2. ApprovalIsJustified'
    BY DEF RefundInv, ApprovalIsJustified, Grows, Approves
  <1>3. ExecutionIsJustified'
    <2>. SUFFICES ASSUME NEW e \in Execs, NEW i \in Invoices, Executes(e, i)'
                  PROVE  i \in paid' /\ recorded'[i] > 0 /\ i \notin Oversized
      BY DEF ExecutionIsJustified
    <2>1. Executes(e, i) \/ refund[i] = "refund_approved"
      BY DEF Executed
    <2>. QED
      BY <2>1 DEF RefundInv, ExecutionIsJustified, ApprovalIsJustified, ReviewIsRecorded, Grows
  <1>4. PayoutIsJustified'
    BY DEF RefundInv, PayoutIsJustified, ExecutionIsJustified, Grows, PaysOut
  <1>. QED
    BY <1>1, <1>2, <1>3, <1>4

(* A step that leaves executions and payouts alone, or ends executions. *)
LEMMA NothingPaid ==
  ASSUME UNCHANGED payouts, \A e \in Execs : exec'[e] = exec[e] \/ exec'[e] = Resting
  PROVE  Executed /\ PaysOut
  BY StagesDiffer DEF Executed, PaysOut, Executes

(* A step that leaves the reviews alone. *)
LEMMA NothingReviewed ==
  ASSUME RefundInv, paid \subseteq paid', UNCHANGED <<refund, recorded>>,
         \A i \in Invoices : age'[i] < 2 => age[i] < 2
  PROVE  Grows /\ Approves /\ FarmingBound'
  BY FewerWaiting DEF RefundInv, Grows, Approves

(* A recorded failure starts a review. *)
LEMMA OutcomeReviewed ==
  ASSUME RefundInv, NEW i \in Invoices, MarkOutcome(i)
  PROVE  Grows /\ Approves /\ FarmingBound'
  <1>1. \A j \in Invoices : recorded[j] \in Nat /\ recorded'[j] \in {recorded[j], recorded[j] + 1}
    BY DEF RefundInv, TypeOK, MarkOutcome
  <1>2. \A j \in Invoices \ {i} : refund'[j] = refund[j] /\ age'[j] = age[j]
    BY DEF RefundInv, TypeOK, MarkOutcome
  <1>3. refund'[i] = "pending_review" /\ recorded'[i] = recorded[i] + 1
    BY DEF RefundInv, TypeOK, MarkOutcome
  <1>4. Grows /\ Approves
    BY <1>1, <1>2, <1>3 DEF Grows, Approves, MarkOutcome
  <1>5. FarmingBound'
    BY <1>2, <1>3, FewerWaiting DEF RefundInv
  <1>. QED
    BY <1>4, <1>5

(* A refund that ends, one way or the other. *)
LEMMA EndReviewed ==
  ASSUME RefundInv, NEW i \in Invoices, UNCHANGED <<paid, age, recorded>>,
         refund[i] # "none" \/ recorded[i] > 0,
         NEW status \in {"refunded", "refund_failed_manual", refund[i]},
         refund' = [refund EXCEPT ![i] = status]
  PROVE  Grows /\ Approves /\ FarmingBound'
  <1>1. \A j \in Invoices : refund'[j] = IF j = i THEN status ELSE refund[j]
    BY DEF RefundInv, TypeOK
  <1>2. Grows /\ Approves
    BY <1>1 DEF Grows, Approves, RefundInv
  <1>3. FarmingBound'
    BY <1>1, FewerWaiting DEF RefundInv
  <1>. QED
    BY <1>2, <1>3

LEMMA RefundInvStep == RefundInv /\ [Next]_vars => RefundInv'
  <1>. SUFFICES ASSUME RefundInv, [Next]_vars
                PROVE  Grows /\ Approves /\ Executed /\ PaysOut /\ FarmingBound'
    BY TypeStep, JustifiedStep DEF RefundInv
  <1>. USE DEF invoiceVars
  <1>1. ASSUME NEW i \in Invoices, Settle(i) \/ ApprovalAges(i)
        PROVE  Grows /\ Approves /\ Executed /\ PaysOut /\ FarmingBound'
    BY <1>1, NothingPaid, NothingReviewed DEF Settle, ApprovalAges
  <1>2. ASSUME NEW i \in Invoices, OutcomeAges(i)
        PROVE  Grows /\ Approves /\ Executed /\ PaysOut /\ FarmingBound'
    <2>1. \A j \in Invoices : age'[j] < 2 => age[j] < 2
      BY <1>2 DEF OutcomeAges, RefundInv, TypeOK
    <2>. QED
      BY <1>2, <2>1, NothingPaid, NothingReviewed DEF OutcomeAges
  <1>3. ASSUME NEW i \in Invoices, OperatorCompletes(i)
        PROVE  Grows /\ Approves /\ Executed /\ PaysOut /\ FarmingBound'
    BY <1>3, NothingPaid, EndReviewed DEF OperatorCompletes, Complete
  <1>4. ASSUME NEW i \in Invoices, NEW c \in Clients, Unlock(c, i) \/ TreasuryLow(c, i)
        PROVE  Grows /\ Approves /\ Executed /\ PaysOut /\ FarmingBound'
    BY <1>4, NothingPaid, NothingReviewed DEF Unlock, TreasuryLow
  <1>5. ASSUME NEW i \in Invoices, NEW e \in Execs, StartRefund(e, i)
        PROVE  Grows /\ Approves /\ Executed /\ PaysOut /\ FarmingBound'
    <2>1. Executed
      BY <1>5, StagesDiffer DEF StartRefund, Executed, Executes, RefundInv, TypeOK
    <2>. QED
      BY <1>5, <2>1, NothingReviewed DEF StartRefund, PaysOut
  <1>6. ASSUME NEW c \in Clients, ProviderOk(c)
        PROVE  Grows /\ Approves /\ Executed /\ PaysOut /\ FarmingBound'
    BY <1>6, NothingPaid, NothingReviewed DEF ProviderOk
  <1>7. ASSUME NEW c \in Clients, ProviderFails(c)
        PROVE  Grows /\ Approves /\ Executed /\ PaysOut /\ FarmingBound'
    <2>1. request[c].invoice \in Invoices
      BY <1>7, RequestStage DEF ProviderFails, RefundInv
    <2>2. CASE MarkOutcome(request[c].invoice)
      BY <1>7, <2>1, <2>2, NothingPaid, OutcomeReviewed DEF ProviderFails, MarkOutcome
    <2>3. CASE UNCHANGED <<invoiceVars, recorded, payouts>>
      BY <1>7, <2>3, NothingPaid, NothingReviewed DEF ProviderFails
    <2>. QED
      BY <1>7, <2>2, <2>3 DEF ProviderFails
  <1>8. ASSUME NEW c \in Clients, ToolRecords(c)
        PROVE  Grows /\ Approves /\ Executed /\ PaysOut /\ FarmingBound'
    <2>1. request[c].invoice \in Invoices
      BY <1>8, RequestStage DEF ToolRecords, RefundInv
    <2>. QED
      BY <1>8, <2>1, NothingPaid, OutcomeReviewed DEF ToolRecords, MarkOutcome
  <1>9. ASSUME NEW e \in Execs, MoneyMoves(e)
        PROVE  Grows /\ Approves /\ Executed /\ PaysOut /\ FarmingBound'
    <2>. DEFINE i == exec[e].invoice
    <2>1. i \in Invoices /\ exec[e] = Spending(i)
      BY <1>9, ExecutionStage DEF MoneyMoves, RefundInv
    <2>2. /\ exec'[e] = Moved(i) /\ \A d \in Execs \ {e} : exec'[d] = exec[d]
          /\ \A j \in Invoices \ {i} : payouts'[j] = payouts[j]
      BY <1>9 DEF MoneyMoves, RefundInv, TypeOK
    <2>3. Executed
      BY <2>1, <2>2, StagesDiffer DEF Executed, Executes
    <2>4. PaysOut
      BY <2>1, <2>2 DEF PaysOut, Executes
    <2>. QED
      BY <1>9, <2>3, <2>4, NothingReviewed DEF MoneyMoves
  <1>10. ASSUME NEW e \in Execs, SpendReturns(e) \/ SpendThrows(e) \/ SpendReturnsNoHash(e)
         PROVE  Grows /\ Approves /\ Executed /\ PaysOut /\ FarmingBound'
    <2>. DEFINE i == exec[e].invoice
    <2>1. i \in Invoices /\ Executes(e, i)
      BY <1>10, ExecutionStage
        DEF SpendReturns, SpendThrows, SpendReturnsNoHash, RefundInv, Executes
    <2>2. recorded[i] > 0
      BY <2>1 DEF RefundInv, ExecutionIsJustified
    <2>3. Executed /\ PaysOut
      BY <1>10, NothingPaid DEF SpendReturns, SpendThrows, SpendReturnsNoHash, RefundInv, TypeOK
    <2>4. CASE SpendReturns(e)
      BY <2>1, <2>2, <2>3, <2>4, EndReviewed DEF SpendReturns, Complete
    <2>5. CASE SpendThrows(e)
      <3>1. \E status \in {"refund_failed_manual", refund[i]} : refund' = [refund EXCEPT ![i] = status]
        BY <2>5 DEF SpendThrows
      <3>. QED
        BY <2>1, <2>2, <2>3, <2>5, <3>1, EndReviewed DEF SpendThrows
    <2>6. CASE SpendReturnsNoHash(e)
      BY <2>3, <2>6, NothingReviewed DEF SpendReturnsNoHash
    <2>. QED
      BY <1>10, <2>4, <2>5, <2>6
  <1>11. CASE Scan
    <2>1. Executed /\ PaysOut /\ FarmingBound'
      BY <1>11, NothingPaid, ScanKeepsFarmingBound DEF Scan, RefundInv
    <2>2. Grows /\ Approves
      BY <1>11 DEF Scan, Grows, Approves, Reviewable, RefundInv, TypeOK
    <2>. QED
      BY <2>1, <2>2
  <1>12. CASE NewDay \/ Restart
    BY <1>12, NothingPaid, NothingReviewed DEF NewDay, Restart
  <1>13. CASE UNCHANGED vars
    BY <1>13, NothingPaid, NothingReviewed DEF vars
  <1>. QED
    BY <1>1, <1>2, <1>3, <1>4, <1>5, <1>6, <1>7, <1>8, <1>9, <1>10, <1>11, <1>12, <1>13 DEF Next

LEMMA InitTypes == Init => TypeOK
  BY LimitsAssumption DEF Init, TypeOK, Services, RefundStatuses

LEMMA RefundInvInit == Init => RefundInv
  <1>. SUFFICES ASSUME Init PROVE RefundInv
    OBVIOUS
  <1>1. FarmingBound
    <2>. SUFFICES ASSUME NEW o \in Owners PROVE Cardinality(Waiting(o)) <= FarmLimit
      BY DEF FarmingBound, Waiting
    <2>1. Waiting(o) = {}
      BY DEF Init, Waiting
    <2>. QED
      BY <2>1, FS_EmptySet, LimitsAssumption
  <1>. QED
    BY <1>1, InitTypes, StagesDiffer DEF Init, RefundInv, ReviewIsRecorded, ApprovalIsJustified,
      ExecutionIsJustified, Executes, PayoutIsJustified

(* The variables of the refund pipeline keep their types. *)
THEOREM SpecTypeOK == Spec => []TypeOK
  BY InitTypes, TypeStep, PTL DEF Spec

(* The invariant holds in every reachable state. *)
LEMMA SpecRefundInv == Spec => []RefundInv
  BY RefundInvInit, RefundInvStep, PTL DEF Spec

(* The treasury pays only for paid invoices within the size limit whose       *)
(* failure was recorded, whatever executions, late failures and restarts do   *)
(* to each other (x402RefundWorker.mjs:114-115, 144-149).                     *)
THEOREM SpecPayoutIsJustified == Spec => []PayoutIsJustified
  <1>1. RefundInv => PayoutIsJustified
    BY DEF RefundInv
  <1>. QED
    BY <1>1, SpecRefundInv, PTL

(* The refund-farming guard (docs/arcox-intel.md:102): never more than the    *)
(* limit of an owner's refunds wait for execution within one window.          *)
THEOREM SpecFarmingBound == Spec => []FarmingBound
  <1>1. RefundInv => FarmingBound
    BY DEF RefundInv
  <1>. QED
    BY <1>1, SpecRefundInv, PTL

--------------------------------------------------------------------------------
(* What a single sweep guarantees. *)

(* There is one execution at most. *)
LEMMA OneExecution ==
  ASSUME Alone, NEW d \in Execs, NEW e \in Execs
  PROVE  d = e
  BY DEF Alone, Execs

(* A step that leaves the counts alone: an invoice may leave its review, and  *)
(* an execution may end before its money moved.                               *)
LEMMA OutcomesKept ==
  ASSUME Alone, TypeOK, OutcomesLeft, UNCHANGED <<payouts, recorded>>,
         \A e \in Execs : exec'[e] = exec[e] \/ (exec'[e] = Resting /\ exec[e].stage = "spending"),
         \A i \in Invoices : refund'[i] \in {"pending_review", "refund_approved"} =>
                               refund[i] \in {"pending_review", "refund_approved"}
  PROVE  OutcomesLeft'
  <1>1. \A i \in Invoices : Spends(i)' => Spends(i)
    BY StagesDiffer DEF Spends
  <1>2. \A i \in Invoices : HasMoved(i)' <=> HasMoved(i)
    BY StagesDiffer DEF HasMoved
  <1>. QED
    BY <1>1, <1>2 DEF OutcomesLeft, PaysOncePerOutcome

(* A recorded failure may be paid back once more. *)
LEMMA OutcomeAdded ==
  ASSUME TypeOK, OutcomesLeft, NEW i \in Invoices, MarkOutcome(i), UNCHANGED exec
  PROVE  OutcomesLeft'
  <1>1. /\ recorded'[i] = recorded[i] + 1
        /\ \A j \in Invoices \ {i} : recorded'[j] = recorded[j] /\ refund'[j] = refund[j]
        /\ \A j \in Invoices : recorded[j] \in Nat /\ payouts[j] \in Nat /\ payouts'[j] = payouts[j]
    BY DEF MarkOutcome, TypeOK
  <1>2. \A j \in Invoices : (Spends(j)' <=> Spends(j)) /\ (HasMoved(j)' <=> HasMoved(j))
    BY DEF Spends, HasMoved
  <1>3. PaysOncePerOutcome'
    BY <1>1 DEF OutcomesLeft, PaysOncePerOutcome
  <1>4. ASSUME NEW j \in Invoices
        PROVE  /\ Spends(j)' => payouts'[j] + 1 <= recorded'[j]
               /\ (refund'[j] \in {"pending_review", "refund_approved"} /\ ~HasMoved(j)') =>
                    payouts'[j] + 1 <= recorded'[j]
    BY <1>1, <1>2 DEF OutcomesLeft, PaysOncePerOutcome
  <1>. QED
    BY <1>3, <1>4 DEF OutcomesLeft

LEMMA OutcomesStep ==
  ASSUME Alone, TypeOK, OutcomesLeft, [Next]_vars
  PROVE  OutcomesLeft'
  <1>. USE DEF invoiceVars
  <1>0. \A i \in Invoices : recorded[i] \in Nat /\ payouts[i] \in Nat
    BY DEF TypeOK
  <1>1. ASSUME NEW i \in Invoices, Settle(i) \/ ApprovalAges(i) \/ OutcomeAges(i)
        PROVE  OutcomesLeft'
    BY <1>1, OutcomesKept DEF Settle, ApprovalAges, OutcomeAges
  <1>2. ASSUME NEW i \in Invoices, OperatorCompletes(i)
        PROVE  OutcomesLeft'
    <2>1. \A j \in Invoices : refund'[j] = IF j = i THEN "refunded" ELSE refund[j]
      BY <1>2 DEF OperatorCompletes, Complete, TypeOK
    <2>. QED
      BY <1>2, <2>1, OutcomesKept DEF OperatorCompletes, Complete
  <1>3. ASSUME NEW i \in Invoices, NEW c \in Clients, Unlock(c, i) \/ TreasuryLow(c, i)
        PROVE  OutcomesLeft'
    BY <1>3, OutcomesKept DEF Unlock, TreasuryLow
  <1>4. ASSUME NEW i \in Invoices, NEW e \in Execs, StartRefund(e, i)
        PROVE  OutcomesLeft'
    <2>1. exec[e] = Resting /\ exec'[e] = Spending(i) /\ \A d \in Execs : d = e
      BY <1>4, OneExecution DEF StartRefund, TypeOK
    <2>2. \A j \in Invoices : ~HasMoved(j) /\ (Spends(j)' => j = i)
      BY <2>1, StagesDiffer DEF HasMoved, Spends
    <2>. QED
      BY <1>4, <2>2 DEF StartRefund, OutcomesLeft, PaysOncePerOutcome
  <1>5. ASSUME NEW c \in Clients, ProviderOk(c)
        PROVE  OutcomesLeft'
    BY <1>5, OutcomesKept DEF ProviderOk
  <1>6. ASSUME NEW c \in Clients, ProviderFails(c) \/ ToolRecords(c)
        PROVE  OutcomesLeft'
    <2>1. request[c].invoice \in Invoices
      BY <1>6, RequestStage DEF ProviderFails, ToolRecords
    <2>2. CASE MarkOutcome(request[c].invoice) /\ UNCHANGED exec
      BY <2>1, <2>2, OutcomeAdded
    <2>3. CASE UNCHANGED <<invoiceVars, recorded, payouts, exec>>
      BY <2>3, OutcomesKept
    <2>. QED
      BY <1>6, <2>2, <2>3 DEF ProviderFails, ToolRecords
  <1>7. ASSUME NEW e \in Execs, MoneyMoves(e)
        PROVE  OutcomesLeft'
    <2>. DEFINE i == exec[e].invoice
    <2>1. i \in Invoices /\ exec[e] = Spending(i) /\ \A d \in Execs : d = e
      BY <1>7, ExecutionStage, OneExecution DEF MoneyMoves
    <2>2. /\ exec'[e] = Moved(i) /\ payouts'[i] = payouts[i] + 1
          /\ \A j \in Invoices \ {i} : payouts'[j] = payouts[j]
          /\ UNCHANGED <<recorded, refund>>
      BY <1>7, <2>1 DEF MoneyMoves, TypeOK
    <2>3. /\ HasMoved(i)' /\ payouts[i] + 1 <= recorded[i]
          /\ \A j \in Invoices : ~Spends(j)' /\ ~HasMoved(j)
      BY <2>1, <2>2, StagesDiffer DEF HasMoved, Spends, OutcomesLeft
    <2>4. PaysOncePerOutcome'
      BY <1>0, <2>1, <2>2, <2>3 DEF OutcomesLeft, PaysOncePerOutcome
    <2>5. ASSUME NEW j \in Invoices, refund'[j] \in {"pending_review", "refund_approved"}, ~HasMoved(j)'
          PROVE  payouts'[j] + 1 <= recorded'[j]
      <3>1. j # i
        BY <2>1, <2>2, <2>5 DEF HasMoved
      <3>. QED
        BY <2>2, <2>3, <2>5, <3>1 DEF OutcomesLeft
    <2>. QED
      BY <2>3, <2>4, <2>5 DEF OutcomesLeft
  <1>8. ASSUME NEW e \in Execs, SpendReturns(e)
        PROVE  OutcomesLeft'
    <2>. DEFINE i == exec[e].invoice
    <2>1. i \in Invoices /\ exec[e] = Moved(i) /\ \A d \in Execs : d = e
      BY <1>8, ExecutionStage, OneExecution DEF SpendReturns
    <2>2. /\ exec'[e] = Resting /\ refund'[i] = "refunded"
          /\ \A j \in Invoices \ {i} : refund'[j] = refund[j]
          /\ UNCHANGED <<recorded, payouts>>
      BY <1>8, <2>1 DEF SpendReturns, Complete, TypeOK
    <2>3. \A j \in Invoices : ~Spends(j)' /\ (j # i => ~HasMoved(j))
      BY <2>1, <2>2, StagesDiffer DEF HasMoved, Spends
    <2>. QED
      BY <2>2, <2>3 DEF OutcomesLeft, PaysOncePerOutcome
  <1>9. ASSUME NEW e \in Execs, SpendThrows(e)
        PROVE  OutcomesLeft'
    <2>1. exec[e].stage = "spending" /\ exec[e].invoice \in Invoices
      BY <1>9, ExecutionStage DEF SpendThrows, Alone
    <2>2. \A j \in Invoices : refund'[j] \in {"refund_failed_manual", refund[j]}
      BY <1>9, <2>1 DEF SpendThrows, TypeOK
    <2>3. \A d \in Execs : exec'[d] = exec[d] \/ (exec'[d] = Resting /\ exec[d].stage = "spending")
      BY <1>9, <2>1 DEF SpendThrows, TypeOK
    <2>. QED
      BY <1>9, <2>2, <2>3, OutcomesKept DEF SpendThrows
  <1>10. ASSUME NEW e \in Execs, SpendReturnsNoHash(e)
         PROVE  OutcomesLeft'
    BY <1>10 DEF SpendReturnsNoHash, Alone
  <1>11. CASE Scan
    <2>1. \A i \in Invoices : refund'[i] \in {"pending_review", "refund_approved"} =>
                              refund[i] \in {"pending_review", "refund_approved"}
      BY <1>11 DEF Scan, Reviewable, TypeOK
    <2>. QED
      BY <1>11, <2>1, OutcomesKept DEF Scan
  <1>12. CASE NewDay
    BY <1>12, OutcomesKept DEF NewDay
  <1>13. CASE Restart
    BY <1>13 DEF Restart, Alone, TypeOK
  <1>14. CASE UNCHANGED vars
    BY <1>14, OutcomesKept DEF vars
  <1>. QED
    BY <1>1, <1>2, <1>3, <1>4, <1>5, <1>6, <1>7, <1>8, <1>9, <1>10, <1>11, <1>12, <1>13,
      <1>14 DEF Next

--------------------------------------------------------------------------------
(* The daily budget of a single sweep. *)

(* What a refund of today adds to the count, and a reopened one takes away. *)
LEMMA TodayCounts ==
  ASSUME TypeOK, NEW i \in Invoices
  PROVE  /\ Cardinality(today) \in Nat
         /\ Cardinality(today \cup {i}) = Cardinality(today) + IF i \in today THEN 0 ELSE 1
         /\ Cardinality(today \ {i}) = Cardinality(today) - IF i \in today THEN 1 ELSE 0
  <1>1. IsFiniteSet(today)
    BY SetsAssumption, FS_Subset DEF TypeOK
  <1>2. Cardinality(today) \in Nat
    BY <1>1, FS_CardinalityType
  <1>3. CASE i \in today
    <2>1. Cardinality(today \cup {i}) = Cardinality(today)
      <3>1. today \cup {i} = today
        BY <1>3
      <3>. QED
        BY <3>1, Zenon
    <2>2. Cardinality(today \ {i}) = Cardinality(today) - 1
      BY <1>1, <1>3, FS_RemoveElement
    <2>. QED
      BY <1>2, <1>3, <2>1, <2>2
  <1>4. CASE i \notin today
    <2>1. Cardinality(today \ {i}) = Cardinality(today)
      <3>1. today \ {i} = today
        BY <1>4
      <3>. QED
        BY <3>1, Zenon
    <2>2. Cardinality(today \cup {i}) = Cardinality(today) + 1
      BY <1>1, <1>4, FS_AddElement
    <2>. QED
      BY <1>2, <1>4, <2>1, <2>2
  <1>. QED
    BY <1>3, <1>4

LEMMA TodayIsCounted ==
  ASSUME TypeOK
  PROVE  Cardinality(today) \in Nat
  BY SetsAssumption, FS_Subset, FS_CardinalityType DEF TypeOK

(* A step that leaves the budget alone: an execution may end before its money *)
(* moved, and today's refunds stay refunded.                                  *)
LEMMA BudgetKept ==
  ASSUME TypeOK, BudgetLeft, UNCHANGED <<today, spent, reopened>>,
         \A e \in Execs : exec'[e] = exec[e] \/ (exec'[e] = Resting /\ exec[e].stage = "spending"),
         \A i \in today : refund'[i] = "refunded"
  PROVE  BudgetLeft'
  <1>1. \A i \in Invoices : Spends(i)' => Spends(i)
    BY StagesDiffer DEF Spends
  <1>2. \A i \in Invoices : HasMoved(i)' <=> HasMoved(i)
    BY StagesDiffer DEF HasMoved
  <1>3. (\E i \in Invoices \ today' : HasMoved(i)') <=> \E i \in Invoices \ today : HasMoved(i)
    BY <1>2
  <1>4. today \subseteq Invoices /\ Cardinality(today)' = Cardinality(today)
    BY DEF TypeOK
  <1>5. \A i \in today' : Spends(i)' => spent' + 1 <= Cardinality(today)' + reopened'
    BY <1>1, <1>4 DEF BudgetLeft
  <1>6. spent' <= Cardinality(today)' + reopened' + IF \E i \in Invoices \ today' : HasMoved(i)' THEN 1 ELSE 0
    BY <1>3, <1>4 DEF BudgetLeft
  <1>7. CapPlusReopened' /\ ((\E i \in Invoices : Spends(i)') => spent' + 1 <= DailyCap + reopened')
    BY <1>1 DEF BudgetLeft, CapPlusReopened
  <1>. QED
    BY <1>5, <1>6, <1>7 DEF BudgetLeft

(* A failure recorded for one of today's refunds takes it out of the count,   *)
(* and counts as reopened.                                                    *)
LEMMA BudgetReopened ==
  ASSUME TypeOK, BudgetLeft, NEW i \in Invoices, MarkOutcome(i), UNCHANGED exec
  PROVE  BudgetLeft'
  <1>1. \A j \in Invoices : (Spends(j)' <=> Spends(j)) /\ (HasMoved(j)' <=> HasMoved(j))
    BY DEF Spends, HasMoved
  <1>2. /\ spent' = spent /\ spent \in Nat /\ reopened \in Nat
        /\ today' = today \ {i} /\ reopened' = reopened + IF i \in today THEN 1 ELSE 0
        /\ Cardinality(today)' = Cardinality(today) - IF i \in today THEN 1 ELSE 0
        /\ Cardinality(today) \in Nat
    BY TodayCounts DEF MarkOutcome, TypeOK
  <1>3. Cardinality(today)' + reopened' = Cardinality(today) + reopened /\ reopened' >= reopened
    BY <1>2
  <1>4. \A j \in today' : refund'[j] = "refunded"
    BY <1>2 DEF MarkOutcome, TypeOK, BudgetLeft
  <1>5. (\E j \in Invoices \ today : HasMoved(j)) => \E j \in Invoices \ today' : HasMoved(j)'
    BY <1>1, <1>2
  <1>6. spent' <= Cardinality(today)' + reopened' + IF \E j \in Invoices \ today' : HasMoved(j)' THEN 1 ELSE 0
    BY <1>2, <1>3, <1>5 DEF BudgetLeft
  <1>7. \A j \in today' : Spends(j)' => spent' + 1 <= Cardinality(today)' + reopened'
    BY <1>1, <1>2, <1>3 DEF BudgetLeft, TypeOK
  <1>8. CapPlusReopened' /\ ((\E j \in Invoices : Spends(j)') => spent' + 1 <= DailyCap + reopened')
    BY <1>1, <1>2, LimitsAssumption DEF BudgetLeft, CapPlusReopened
  <1>. QED
    BY <1>4, <1>6, <1>7, <1>8 DEF BudgetLeft

(* A refund completes while nothing is executed, or its execution is about to *)
(* end: today's count makes up for the money that has moved.                  *)
LEMMA BudgetCompleted ==
  ASSUME Alone, TypeOK, BudgetLeft, NEW i \in Invoices, Complete(i), UNCHANGED <<spent, reopened>>,
         \/ UNCHANGED exec
         \/ \E e \in Execs : exec[e] = Moved(i) /\ exec' = [exec EXCEPT ![e] = Resting]
  PROVE  BudgetLeft'
  <1>1. /\ today' = today \cup {i}
        /\ Cardinality(today)' = Cardinality(today) + IF i \in today THEN 0 ELSE 1
        /\ Cardinality(today) \in Nat /\ spent \in Nat /\ reopened \in Nat
    BY TodayCounts DEF Complete, TypeOK
  <1>2. \A j \in today' : refund'[j] = "refunded"
    BY <1>1 DEF Complete, TypeOK, BudgetLeft
  <1>3. \A j \in Invoices : Spends(j)' => Spends(j)
    BY StagesDiffer DEF Spends, TypeOK
  <1>4. \A j \in Invoices \ {i} : HasMoved(j) => HasMoved(j)'
    BY OneExecution, StagesDiffer DEF HasMoved, TypeOK
  <1>5. spent <= Cardinality(today)' + reopened + IF \E j \in Invoices \ today' : HasMoved(j)' THEN 1 ELSE 0
    <2>1. CASE i \in today
      BY <1>1, <1>4, <2>1 DEF BudgetLeft
    <2>2. CASE i \notin today
      BY <1>1, <2>2 DEF BudgetLeft
    <2>. QED
      BY <2>1, <2>2
  <1>6. \A j \in today' : Spends(j)' => spent + 1 <= Cardinality(today)' + reopened
    <2>1. CASE i \in today
      BY <1>1, <1>3, <2>1 DEF BudgetLeft, TypeOK
    <2>2. ASSUME i \notin today, NEW j \in Invoices, Spends(j)
          PROVE  spent + 1 <= Cardinality(today)' + reopened
      <3>1. \A k \in Invoices : ~HasMoved(k)
        BY <2>2, OneExecution, StagesDiffer DEF HasMoved, Spends
      <3>. QED
        BY <1>1, <2>2, <3>1 DEF BudgetLeft
    <2>. QED
      BY <1>1, <1>3, <2>1, <2>2 DEF TypeOK
  <1>7. CapPlusReopened' /\ ((\E j \in Invoices : Spends(j)') => spent' + 1 <= DailyCap + reopened')
    BY <1>3 DEF BudgetLeft, CapPlusReopened
  <1>. QED
    BY <1>2, <1>5, <1>6, <1>7 DEF BudgetLeft

LEMMA BudgetStep ==
  ASSUME Alone, TypeOK, BudgetLeft, [Next]_vars
  PROVE  BudgetLeft'
  <1>. USE DEF invoiceVars
  <1>0. /\ Cardinality(today) \in Nat /\ spent \in Nat /\ reopened \in Nat
        /\ \A i \in today : i \in Invoices /\ refund[i] = "refunded"
    BY TodayIsCounted DEF TypeOK, BudgetLeft
  <1>1. ASSUME NEW i \in Invoices, Settle(i) \/ ApprovalAges(i) \/ OutcomeAges(i)
        PROVE  BudgetLeft'
    BY <1>0, <1>1, BudgetKept DEF Settle, ApprovalAges, OutcomeAges
  <1>2. ASSUME NEW i \in Invoices, OperatorCompletes(i)
        PROVE  BudgetLeft'
    BY <1>2, BudgetCompleted DEF OperatorCompletes
  <1>3. ASSUME NEW i \in Invoices, NEW c \in Clients, Unlock(c, i) \/ TreasuryLow(c, i)
        PROVE  BudgetLeft'
    BY <1>0, <1>3, BudgetKept DEF Unlock, TreasuryLow
  <1>4. ASSUME NEW i \in Invoices, NEW e \in Execs, StartRefund(e, i)
        PROVE  BudgetLeft'
    <2>1. exec[e] = Resting /\ exec'[e] = Spending(i) /\ \A d \in Execs : d = e
      BY <1>4, OneExecution DEF StartRefund, TypeOK
    <2>2. \A j \in Invoices : ~HasMoved(j) /\ (Spends(j)' => j = i)
      BY <2>1, StagesDiffer DEF HasMoved, Spends
    <2>3. i \notin today /\ Cardinality(today) + 1 <= DailyCap /\ UNCHANGED <<today, refund, spent, reopened>>
      BY <1>0, <1>4 DEF StartRefund, WithinCap
    <2>4. spent <= Cardinality(today) + reopened
      BY <1>0, <2>2 DEF BudgetLeft
    <2>5. spent + 1 <= DailyCap + reopened
      BY <1>0, <2>3, <2>4, LimitsAssumption
    <2>. QED
      BY <1>0, <2>2, <2>3, <2>4, <2>5 DEF BudgetLeft, CapPlusReopened
  <1>5. ASSUME NEW c \in Clients, ProviderOk(c)
        PROVE  BudgetLeft'
    BY <1>0, <1>5, BudgetKept DEF ProviderOk
  <1>6. ASSUME NEW c \in Clients, ProviderFails(c) \/ ToolRecords(c)
        PROVE  BudgetLeft'
    <2>1. request[c].invoice \in Invoices
      BY <1>6, RequestStage DEF ProviderFails, ToolRecords
    <2>2. CASE MarkOutcome(request[c].invoice) /\ UNCHANGED exec
      BY <2>1, <2>2, BudgetReopened
    <2>3. CASE UNCHANGED <<invoiceVars, spent, reopened, exec>>
      BY <1>0, <2>3, BudgetKept
    <2>. QED
      BY <1>6, <2>2, <2>3 DEF ProviderFails, ToolRecords
  <1>7. ASSUME NEW e \in Execs, MoneyMoves(e)
        PROVE  BudgetLeft'
    <2>1. PICK i \in Invoices : exec[e] = Spending(i) /\ exec'[e] = Moved(i)
      BY <1>7, ExecutionStage DEF MoneyMoves, TypeOK
    <2>2. \A d \in Execs : d = e
      BY OneExecution
    <2>3. /\ Spends(i) /\ HasMoved(i)'
          /\ \A j \in Invoices : ~Spends(j)' /\ ~HasMoved(j)
      BY <2>1, <2>2, StagesDiffer DEF HasMoved, Spends
    <2>4. spent' = spent + 1 /\ UNCHANGED <<today, refund, reopened>>
      BY <1>7 DEF MoneyMoves
    <2>5. spent' <= Cardinality(today) + reopened + IF \E j \in Invoices \ today : HasMoved(j)' THEN 1 ELSE 0
      <3>1. CASE i \in today
        BY <1>0, <2>3, <2>4, <3>1 DEF BudgetLeft
      <3>2. CASE i \notin today
        BY <1>0, <2>3, <2>4, <3>2 DEF BudgetLeft
      <3>. QED
        BY <3>1, <3>2
    <2>6. CapPlusReopened'
      BY <2>3, <2>4 DEF BudgetLeft, CapPlusReopened
    <2>. QED
      BY <1>0, <2>3, <2>4, <2>5, <2>6 DEF BudgetLeft
  <1>8. ASSUME NEW e \in Execs, SpendReturns(e)
        PROVE  BudgetLeft'
    <2>1. PICK i \in Invoices : exec[e] = Moved(i) /\ exec[e].invoice = i
      BY <1>8, ExecutionStage DEF SpendReturns
    <2>. QED
      BY <1>8, <2>1, BudgetCompleted DEF SpendReturns
  <1>9. ASSUME NEW e \in Execs, SpendThrows(e)
        PROVE  BudgetLeft'
    <2>1. PICK i \in Invoices : exec[e] = Spending(i) /\ exec[e].invoice = i
      BY <1>9, ExecutionStage DEF SpendThrows, Alone
    <2>2. exec'[e] = Resting /\ exec[e].stage = "spending" /\ \A d \in Execs : d = e
      BY <1>9, <2>1, OneExecution, StagesDiffer DEF SpendThrows, TypeOK
    <2>3. UNCHANGED <<spent, reopened>> /\ \A j \in Invoices \ {i} : refund'[j] = refund[j]
      BY <1>9, <2>1 DEF SpendThrows, TypeOK
    <2>4. CASE refund' = refund /\ today' = today
      BY <1>0, <2>2, <2>3, <2>4, BudgetKept
    <2>5. CASE today' = today \ {i}
      <3>1. \A j \in Invoices : ~Spends(j)' /\ ~HasMoved(j) /\ ~HasMoved(j)'
        BY <2>1, <2>2, StagesDiffer DEF HasMoved, Spends
      <3>2. Spends(i) /\ Cardinality(today)' = Cardinality(today) - IF i \in today THEN 1 ELSE 0
        BY <2>1, <2>5, TodayCounts DEF Spends
      <3>3. spent <= Cardinality(today)' + reopened
        BY <1>0, <3>1, <3>2 DEF BudgetLeft
      <3>. QED
        BY <1>0, <2>3, <2>5, <3>1, <3>2, <3>3 DEF BudgetLeft, CapPlusReopened
    <2>6. (refund' = refund /\ today' = today) \/ today' = today \ {i}
      BY <1>9, <2>1 DEF SpendThrows, TypeOK
    <2>. QED
      BY <2>4, <2>5, <2>6
  <1>10. ASSUME NEW e \in Execs, SpendReturnsNoHash(e)
         PROVE  BudgetLeft'
    BY <1>10 DEF SpendReturnsNoHash, Alone
  <1>11. CASE Scan
    <2>1. \A i \in today : refund'[i] = "refunded"
      BY <1>0, <1>11 DEF Scan, Reviewable
    <2>. QED
      BY <1>11, <2>1, BudgetKept DEF Scan
  <1>12. CASE NewDay
    <2>1. today' = {} /\ spent' = 0 /\ reopened' = 0 /\ Cardinality(today)' = 0
      BY <1>12, FS_EmptySet DEF NewDay
    <2>. QED
      BY <2>1, LimitsAssumption DEF BudgetLeft, CapPlusReopened
  <1>13. CASE Restart
    BY <1>13 DEF Restart, Alone, TypeOK
  <1>14. CASE UNCHANGED vars
    BY <1>0, <1>14, BudgetKept DEF vars
  <1>. QED
    BY <1>1, <1>2, <1>3, <1>4, <1>5, <1>6, <1>7, <1>8, <1>9, <1>10, <1>11, <1>12, <1>13,
      <1>14 DEF Next

LEMMA AloneInvInit == Init => OutcomesLeft /\ BudgetLeft
  <1>. SUFFICES ASSUME Init PROVE OutcomesLeft /\ BudgetLeft
    OBVIOUS
  <1>1. \A i \in Invoices : ~Spends(i) /\ ~HasMoved(i)
    BY StagesDiffer DEF Init, Spends, HasMoved
  <1>2. OutcomesLeft
    BY <1>1 DEF Init, OutcomesLeft, PaysOncePerOutcome
  <1>3. BudgetLeft
    BY <1>1, FS_EmptySet, LimitsAssumption DEF Init, BudgetLeft, CapPlusReopened
  <1>. QED
    BY <1>2, <1>3

LEMMA SpecAloneInv ==
  ASSUME Alone
  PROVE  Spec => []AloneInv
  <1>1. Init => AloneInv
    BY InitTypes, AloneInvInit DEF AloneInv
  <1>2. AloneInv /\ [Next]_vars => AloneInv'
    BY TypeStep, OutcomesStep, BudgetStep DEF AloneInv
  <1>. QED
    BY <1>1, <1>2, PTL DEF Spec

(* x402RefundWorker.mjs:11, "Execution is idempotent per invoice", as far as  *)
(* it goes: with one sweep and truthful spends a recorded failure is paid     *)
(* back at most once.                                                         *)
THEOREM SpecPaysOncePerOutcome ==
  ASSUME Alone
  PROVE  Spec => []PaysOncePerOutcome
  <1>1. AloneInv => PaysOncePerOutcome
    BY DEF AloneInv, OutcomesLeft
  <1>. QED
    BY <1>1, SpecAloneInv, PTL

(* The daily cap (x402RefundWorker.mjs:200-208) under the same conditions: a  *)
(* day's payouts exceed it only by refunds that were put under review again.  *)
THEOREM SpecCapPlusReopened ==
  ASSUME Alone
  PROVE  Spec => []CapPlusReopened
  <1>1. AloneInv => CapPlusReopened
    BY DEF AloneInv, BudgetLeft
  <1>. QED
    BY <1>1, SpecAloneInv, PTL
================================================================================
