------------------------------- MODULE X402Refund -------------------------------
(***************************************************************************)
(* What happens to an x402 invoice after it is paid: a request unlocks the  *)
(* resource and asks the provider (withArcoxX402, sendArkham), a provider   *)
(* failure may be recorded for refund review (markX402ServiceOutcome), the  *)
(* refund worker approves it after a cooldown and pays it back from the     *)
(* treasury, and operators can trigger or close a refund by hand            *)
(* (x402RefundWorker.mjs, x402Routes.mjs).  Requests, worker sweeps and     *)
(* manual executions run in one process and interleave at their awaits.     *)
(*                                                                          *)
(* Settlement itself is X402Invoice's; here an invoice just becomes paid.   *)
(* Every change is written to the JSON file before the handler goes on, so  *)
(* a restart (of a process whose writes succeed) loses only what is in      *)
(* flight.  All refunds are of the same amount, the unit of DailyCap.       *)
(***************************************************************************)
EXTENDS Integers, FiniteSets

CONSTANTS
  Invoices,
  Owners,
  OwnerOf,     \* [Invoices -> Owners]
  Oversized,   \* invoices above X402_MAX_AUTO_REFUND_USDC
  HttpClients, \* clients that call the paid routes themselves
  McpTools,    \* intel tools, that call them and judge the answer
  Sweeps,      \* executeApprovedRefunds runs; setInterval starts a new one
               \* whether or not the one before has ended
  Manuals,     \* POST /refunds/:invoiceId/execute requests
  FarmLimit,   \* X402_REFUND_FARM_LIMIT
  MaxAttempts, \* X402_REFUND_MAX_ATTEMPTS
  DailyCap,    \* X402_REFUND_DAILY_CAP_USDC, in refunds
  SpendFaults, \* what a spend may do after the money moved besides returning
               \* its hash: a subset of {"throw", "no_hash"}
  MaxOutcomes, \* bound: outcomes recorded per invoice
  MaxPayouts,  \* bound: payouts per invoice
  MaxRestarts  \* bound: restarts

Clients == HttpClients \cup McpTools
Execs == Sweeps \cup Manuals

ASSUME SetsAssumption ==
  /\ IsFiniteSet(Invoices) /\ IsFiniteSet(Sweeps) /\ IsFiniteSet(Manuals)
  /\ OwnerOf \in [Invoices -> Owners]
  /\ Oversized \subseteq Invoices
  /\ HttpClients \cap McpTools = {}
  /\ Sweeps \cap Manuals = {}
ASSUME LimitsAssumption ==
  /\ FarmLimit \in Nat \ {0}
  /\ MaxAttempts \in Nat \ {0}
  /\ DailyCap \in Nat \ {0}
  /\ SpendFaults \subseteq {"throw", "no_hash"}
  /\ MaxOutcomes \in Nat /\ MaxPayouts \in Nat /\ MaxRestarts \in Nat

VARIABLES
  paid,     \* invoices whose status is 'paid'
  service,  \* serviceStatus; provider_failed is provider_error or _not_found
  refund,   \* refundStatus
  attempts, \* refundAttempts
  age,      \* of serviceOutcomeAt: 0, 1 past the cooldown, 2 past the window
  due,      \* invoices whose refundApprovedAt is X402_REFUND_EXECUTE_DELAY_MS old
  today,    \* invoices whose refundedAt is today
  request,  \* the request each client has in flight
  exec,     \* the executeRefund call each executor is in
  recorded, \* history: outcomes recorded per invoice
  payouts,  \* history: payouts the treasury made per invoice
  spent,    \* history: payouts the treasury made today
  reopened, \* history: refunded invoices put under review again today
  restarts

vars == <<paid, service, refund, attempts, age, due, today, request, exec,
          recorded, payouts, spent, reopened, restarts>>

invoiceVars == <<paid, service, refund, attempts, age, due, today>>

--------------------------------------------------------------------------------
Services == {"none", "service_unlocked", "provider_failed"}
Reviewed == {"pending_review", "refund_approved", "refunded", "manual_review",
             "refund_failed_manual"}
RefundStatuses == Reviewed \cup {"none"}

Resting == [stage |-> "idle"]
Serving(i) == [stage |-> "serving", invoice |-> i]
Failed(i) == [stage |-> "failed", invoice |-> i]     \* answered, not yet judged
Answered(i) == [stage |-> "answered", invoice |-> i] \* the caller saw the failure
Spending(i) == [stage |-> "spending", invoice |-> i]
Moved(i) == [stage |-> "moved", invoice |-> i]       \* the money has left

Init ==
  /\ paid = {}
  /\ service = [i \in Invoices |-> "none"]
  /\ refund = [i \in Invoices |-> "none"]
  /\ attempts = [i \in Invoices |-> 0]
  /\ age = [i \in Invoices |-> 0]
  /\ due = {}
  /\ today = {}
  /\ request = [c \in Clients |-> Resting]
  /\ exec = [e \in Execs |-> Resting]
  /\ recorded = [i \in Invoices |-> 0]
  /\ payouts = [i \in Invoices |-> 0]
  /\ spent = 0
  /\ reopened = 0
  /\ restarts = 0

--------------------------------------------------------------------------------
(* The paid request. *)

(* X402Invoice settles an invoice. *)
Settle(i) ==
  /\ i \notin paid
  /\ paid' = paid \cup {i}
  /\ UNCHANGED <<service, refund, attempts, age, due, today, request, exec,
                 recorded, payouts, spent, reopened, restarts>>

(* markX402ServiceOutcome, as every caller uses it (refundEligible is true): *)
(* whatever review the invoice was in starts over.                           *)
MarkOutcome(i) ==
  /\ service' = [service EXCEPT ![i] = "provider_failed"]
  /\ refund' = [refund EXCEPT ![i] = "pending_review"]
  /\ age' = [age EXCEPT ![i] = 0]
  /\ recorded' = [recorded EXCEPT ![i] = @ + 1]
  /\ today' = today \ {i}
  /\ reopened' = reopened + (IF i \in today THEN 1 ELSE 0)
  /\ UNCHANGED <<paid, attempts, due, payouts, spent, restarts>>

(* withArcoxX402 with the paymentId of a paid invoice: the resource is       *)
(* unlocked before the handler asks the provider.                            *)
Unlock(c, i) ==
  /\ request[c] \in {Resting} \cup {Answered(j) : j \in Invoices}
  /\ i \in paid
  /\ recorded[i] < MaxOutcomes
  /\ service' = [service EXCEPT ![i] = "service_unlocked"]
  /\ request' = [request EXCEPT ![c] = Serving(i)]
  /\ UNCHANGED <<paid, refund, attempts, age, due, today, exec,
                 recorded, payouts, spent, reopened, restarts>>

(* The treasury is low: a retry of an unpaid invoice is answered 503, which  *)
(* the intel tool takes for a provider failure.                              *)
TreasuryLow(c, i) ==
  /\ c \in McpTools /\ request[c] = Resting
  /\ i \notin paid
  /\ recorded[i] < MaxOutcomes
  /\ request' = [request EXCEPT ![c] = Failed(i)]
  /\ UNCHANGED <<invoiceVars, exec, recorded, payouts, spent, reopened, restarts>>

ProviderOk(c) ==
  /\ request[c].stage = "serving"
  /\ request' = [request EXCEPT ![c] = Resting]
  /\ UNCHANGED <<invoiceVars, exec, recorded, payouts, spent, reopened, restarts>>

(* sendArkham's catch: the outcome is recorded if no service status is set.  *)
RecordsFailure(i) == i \in paid /\ service[i] = "none"

ProviderFails(c) ==
  /\ request[c].stage = "serving"
  /\ LET i == request[c].invoice
     IN  /\ request' = [request EXCEPT ![c] =
                          IF c \in McpTools THEN Failed(i) ELSE Answered(i)]
         /\ IF RecordsFailure(i)
            THEN MarkOutcome(i)
            ELSE UNCHANGED <<invoiceVars, recorded, payouts, spent, reopened, restarts>>
  /\ UNCHANGED exec

(* intelTool: the tool reads the answer and records the failure. *)
ToolRecords(c) ==
  /\ request[c].stage = "failed"
  /\ MarkOutcome(request[c].invoice)
  /\ request' = [request EXCEPT ![c] = Answered(request[c].invoice)]
  /\ UNCHANGED exec

--------------------------------------------------------------------------------
(* Approval. *)

(* refundFarmingDetected *)
FarmingOverLimit(i) ==  \* mutant: the limit is compared with > instead of >=
  Cardinality({j \in Invoices \ {i} :
                 /\ OwnerOf[j] = OwnerOf[i]
                 /\ refund[j] \in Reviewed
                 /\ age[j] < 2}) > FarmLimit

Farming(i) ==
  Cardinality({j \in Invoices \ {i} :
                 /\ OwnerOf[j] = OwnerOf[i]
                 /\ refund[j] \in Reviewed
                 /\ age[j] < 2}) >= FarmLimit

ReviewableUnpaid(i) ==  \* mutant: the status is not looked at
  /\ refund[i] = "pending_review"
  /\ age[i] > 0
  /\ service[i] = "provider_failed"

Reviewable(i) ==
  /\ i \in paid
  /\ refund[i] = "pending_review"
  /\ age[i] > 0
  /\ service[i] = "provider_failed"

(* scanRefundEligibleInvoices.  Approval and manual review both count as     *)
(* reviewed, so the order in which the loop meets the invoices is immaterial.*)
Scan ==
  LET approved == {i \in Invoices : Reviewable(i) /\ ~Farming(i) /\ i \notin Oversized}
      suspects == {i \in Invoices : Reviewable(i) /\ Farming(i)}
  IN  /\ approved \cup suspects # {}
      /\ refund' = [i \in Invoices |-> IF i \in approved THEN "refund_approved"
                                       ELSE IF i \in suspects THEN "manual_review"
                                       ELSE refund[i]]
      /\ due' = due \ approved
      /\ UNCHANGED <<paid, service, attempts, age, today, request, exec,
                     recorded, payouts, spent, reopened, restarts>>

--------------------------------------------------------------------------------
(* Execution. *)

WithinCapOffByOne == Cardinality(today) <= DailyCap  \* mutant: the amount is left out
WithinCap == Cardinality(today) + 1 <= DailyCap

(* executeRefund up to the await of the spend. *)
StartRefund(e, i) ==
  /\ exec[e] = Resting
  /\ e \in Sweeps => i \in due
  /\ refund[i] = "refund_approved"
  /\ WithinCap
  /\ exec' = [exec EXCEPT ![e] = Spending(i)]
  /\ UNCHANGED <<invoiceVars, request, recorded, payouts, spent, reopened, restarts>>

(* External: the Unified Balance spend takes effect. *)
MoneyMoves(e) ==
  /\ exec[e].stage = "spending"
  /\ LET i == exec[e].invoice
     IN  /\ payouts[i] < MaxPayouts
         /\ payouts' = [payouts EXCEPT ![i] = @ + 1]
         /\ exec' = [exec EXCEPT ![e] = Moved(i)]
  /\ spent' = spent + 1
  /\ UNCHANGED <<invoiceVars, request, recorded, reopened, restarts>>

(* The spend returns a hash: markRefundCompleted. *)
CompleteWithoutStatus(i) ==  \* mutant: the hash is kept, the status is not set
  /\ today' = today \cup {i}
  /\ UNCHANGED <<paid, service, refund, attempts, age, due>>

Complete(i) ==
  /\ refund' = [refund EXCEPT ![i] = "refunded"]
  /\ today' = today \cup {i}
  /\ UNCHANGED <<paid, service, attempts, age, due>>

SpendReturns(e) ==
  /\ exec[e].stage = "moved"
  /\ Complete(exec[e].invoice)
  /\ exec' = [exec EXCEPT ![e] = Resting]
  /\ UNCHANGED <<request, recorded, payouts, spent, reopened, restarts>>

(* Mutant: a throwing spend is retried for ever. *)
SpendThrowsUncounted(e) ==
  /\ exec[e].stage = "spending"
  /\ exec' = [exec EXCEPT ![e] = Resting]
  /\ UNCHANGED <<invoiceVars, request, recorded, payouts, spent, reopened, restarts>>

(* The spend throws, before the money moved or after it. *)
SpendThrows(e) ==
  /\ \/ exec[e].stage = "spending"
     \/ exec[e].stage = "moved" /\ "throw" \in SpendFaults
  /\ LET i == exec[e].invoice
         gaveUp == attempts[i] + 1 >= MaxAttempts
     IN  /\ attempts' = [attempts EXCEPT ![i] = @ + 1]
         /\ refund' = [refund EXCEPT ![i] = IF gaveUp THEN "refund_failed_manual" ELSE @]
         /\ today' = IF gaveUp THEN today \ {i} ELSE today
  /\ exec' = [exec EXCEPT ![e] = Resting]
  /\ UNCHANGED <<paid, service, age, due, request, recorded, payouts, spent,
                 reopened, restarts>>

(* The spend returns without txHash and transferId. *)
SpendReturnsNoHash(e) ==
  /\ exec[e].stage = "moved" /\ "no_hash" \in SpendFaults
  /\ attempts' = [attempts EXCEPT ![exec[e].invoice] = @ + 1]
  /\ exec' = [exec EXCEPT ![e] = Resting]
  /\ UNCHANGED <<paid, service, refund, age, due, today, request, recorded,
                 payouts, spent, reopened, restarts>>

(* POST /refunds/:invoiceId/complete, of an invoice that is under review.    *)
OperatorCompletes(i) ==
  /\ refund[i] # "none"
  /\ Complete(i)
  /\ UNCHANGED <<request, exec, recorded, payouts, spent, reopened, restarts>>

--------------------------------------------------------------------------------
(* Time and crashes. *)

OutcomeAges(i) ==
  /\ refund[i] # "none" /\ age[i] < 2
  /\ age' = [age EXCEPT ![i] = @ + 1]
  /\ UNCHANGED <<paid, service, refund, attempts, due, today, request, exec,
                 recorded, payouts, spent, reopened, restarts>>

ApprovalAges(i) ==
  /\ refund[i] = "refund_approved" /\ i \notin due
  /\ due' = due \cup {i}
  /\ UNCHANGED <<paid, service, refund, attempts, age, today, request, exec,
                 recorded, payouts, spent, reopened, restarts>>

NewDay ==
  /\ today # {} \/ spent > 0 \/ reopened > 0
  /\ today' = {}
  /\ spent' = 0
  /\ reopened' = 0
  /\ UNCHANGED <<paid, service, refund, attempts, age, due, request, exec,
                 recorded, payouts, restarts>>

Restart ==
  /\ restarts < MaxRestarts
  /\ restarts' = restarts + 1
  /\ request' = [c \in Clients |-> Resting]
  /\ exec' = [e \in Execs |-> Resting]
  /\ UNCHANGED <<invoiceVars, recorded, payouts, spent, reopened>>

Next ==
  \/ \E i \in Invoices :
       \/ Settle(i) \/ OperatorCompletes(i) \/ OutcomeAges(i) \/ ApprovalAges(i)
       \/ \E c \in Clients : Unlock(c, i) \/ TreasuryLow(c, i)
       \/ \E e \in Execs : StartRefund(e, i)
  \/ \E c \in Clients : ProviderOk(c) \/ ProviderFails(c) \/ ToolRecords(c)
  \/ \E e \in Execs : MoneyMoves(e) \/ SpendReturns(e) \/ SpendThrows(e)
                        \/ SpendReturnsNoHash(e)
  \/ Scan
  \/ NewDay
  \/ Restart

Spec == Init /\ [][Next]_vars

(* The interval keeps firing and time keeps passing; a spend that was        *)
(* started ends; the sweep of a tick meets every invoice in turn, so one     *)
(* that is executable again and again is executed.                           *)
Fairness ==
  /\ WF_vars(Scan)
  /\ WF_vars(NewDay)
  /\ \A i \in Invoices : WF_vars(ApprovalAges(i))
  /\ \A e \in Sweeps :
       /\ WF_vars(MoneyMoves(e) \/ SpendReturns(e) \/ SpendThrows(e))
       /\ \A i \in Invoices : SF_vars(StartRefund(e, i))

FairSpec == Spec /\ Fairness

--------------------------------------------------------------------------------
(* Type invariant of the refund pipeline. *)
TypeOK ==
  /\ paid \subseteq Invoices
  /\ service \in [Invoices -> Services]
  /\ refund \in [Invoices -> RefundStatuses]
  /\ attempts \in [Invoices -> Nat]
  /\ age \in [Invoices -> 0 .. 2]
  /\ due \subseteq Invoices
  /\ today \subseteq Invoices
  /\ request \in [Clients -> {Resting} \cup {Serving(i) : i \in Invoices}
                       \cup {Failed(i) : i \in Invoices} \cup {Answered(i) : i \in Invoices}]
  /\ exec \in [Execs -> {Resting} \cup {Spending(i) : i \in Invoices}
                       \cup {Moved(i) : i \in Invoices}]
  /\ recorded \in [Invoices -> Nat]
  /\ payouts \in [Invoices -> 0 .. MaxPayouts]
  /\ spent \in Nat /\ reopened \in Nat
  /\ restarts \in 0 .. MaxRestarts

(* x402RefundWorker.mjs:114-115 and 144-149: whatever requests, sweeps,      *)
(* manual executions, late failures and crashes do to each other, the        *)
(* treasury pays only for invoices that were paid and have a recorded        *)
(* provider failure, and never for one above X402_MAX_AUTO_REFUND_USDC.      *)
PayoutIsJustified ==
  \A i \in Invoices : payouts[i] > 0 =>
    i \in paid /\ recorded[i] > 0 /\ i \notin Oversized

(* docs/arcox-intel.md:102, the refund-farming guard: an owner never has     *)
(* more than FarmLimit automatically approved refunds from one window        *)
(* waiting for execution, although each approval looks only at the others.   *)
FarmingBound ==
  \A o \in Owners :
    Cardinality({i \in Invoices : /\ OwnerOf[i] = o
                                  /\ refund[i] = "refund_approved"
                                  /\ age[i] < 2}) <= FarmLimit

(* What is left of "execution is idempotent per invoice" when sweeps do not  *)
(* overlap, nobody executes by hand, nothing crashes and a spend tells the   *)
(* truth: a recorded failure is paid back at most once, also while the       *)
(* client retries during the spend.                                          *)
PaysOncePerOutcome == \A i \in Invoices : payouts[i] <= recorded[i]

(* x402RefundWorker.mjs:200-208 under the same conditions: the treasury pays *)
(* at most the daily cap plus what was refunded today and is under review    *)
(* again (executedRefundsToday no longer sees it), also across midnight.     *)
CapPlusReopened == spent <= DailyCap + reopened

(* An approved refund does not stay approved: it is paid, or given up after  *)
(* MaxAttempts throwing spends, or put under review again.                   *)
ApprovedResolves ==
  \A i \in Invoices : refund[i] = "refund_approved" ~> refund[i] # "refund_approved"

(* x402RefundWorker.mjs:11: "Execution is idempotent per invoice". *)
RefundIdempotent == \A i \in Invoices : payouts[i] <= 1

(* arkhamRoutes.mjs:64-67: "A paid request that fails at the provider ...    *)
(* must be recorded as refund-review-eligible ... instead of silently losing *)
(* the user's payment."                                                      *)
FailureIsRecorded ==
  \A c \in Clients : request[c].stage = "answered" =>
    refund[request[c].invoice] # "none"
===============================================================================
