-------------------------------- MODULE X402Pay --------------------------------
(***************************************************************************)
(* A paid resource from the side of those who want it: the gate that serves *)
(* it against a paid invoice and asks for payment otherwise (withArcoxX402, *)
(* x402Routes.mjs), and the MCP tool that pays an invoice from the agent's  *)
(* wallet and fetches the resource with it (arcox_x402_pay_invoice).        *)
(*                                                                          *)
(* The tool talks to the backend over HTTP, so that everything it read may  *)
(* be old when it acts.  How an invoice is settled is X402Invoice's; here   *)
(* looking at an invoice may find its transfer, or not yet.  Requests name  *)
(* no agent identity.                                                       *)
(***************************************************************************)
EXTENDS Integers, FiniteSets

LOCAL INSTANCE Functions

CONSTANTS
  PayCalls,      \* HTTP requests and tool calls that may be under way together
  Users,         \* vault owners, whose token a request may carry
  NoUser,        \* a request without a valid token
  PayerWallets,
  NoPayer,       \* no wallet: no header, or no active session
  InvoiceIds,    \* ids an invoice may draw
  NoId,
  Resources,
  OpenPerOwner,  \* X402_MAX_UNPAID_PER_OWNER
  MaxSends,      \* bound: transfers sent
  PayerChanges   \* bound: sessions set up or revoked

ASSUME X402PayAssumption ==
  /\ NoUser \notin Users /\ NoPayer \notin PayerWallets /\ NoId \notin InvoiceIds
  /\ IsFiniteSet(InvoiceIds)
  /\ OpenPerOwner \in Nat \ {0} /\ MaxSends \in Nat /\ PayerChanges \in Nat

VARIABLES
  bill,     \* the invoices
  lateBills, \* open invoices whose time is over
  payer,    \* the wallet of each user's active session, or NoPayer
  payCall,  \* the calls
  landed,   \* external: exact transfers of the owner that landed, per invoice
  blind,    \* history: those of them sent before an earlier one was settled
  served,   \* history: what was served to whom against which invoice
  turned    \* sessions set up or revoked so far

x402PayVars == <<bill, lateBills, payer, payCall, landed, blind, served, turned>>

NoBill == [status |-> "none"]
Bill(w, res) == [status |-> "open", ownerWallet |-> w, resource |-> res]
Drawn == {i \in InvoiceIds : bill[i] # NoBill}
AtRest == [at |-> "rest"]
IsAt(c, at) == payCall[c].at = at
Ends(c) == payCall' = [payCall EXCEPT ![c] = AtRest]

X402PayInit ==
  /\ bill = [i \in InvoiceIds |-> NoBill]
  /\ lateBills = {}
  /\ payer \in [Users -> PayerWallets \cup {NoPayer}]
  /\ payCall = [c \in PayCalls |-> AtRest]
  /\ landed = [i \in InvoiceIds |-> 0]
  /\ blind = landed
  /\ served = {}
  /\ turned = 0

--------------------------------------------------------------------------------
(* Looking at an invoice and creating one. *)

(* What reconcileX402Invoice may return: an open invoice is expired when it  *)
(* is looked at too late, and either is paid once its transfer is found.     *)
SeenStatuses(i) ==
  IF bill[i].status = "paid" THEN {"paid"}
  ELSE {IF i \in lateBills THEN "expired" ELSE bill[i].status}
         \cup {s \in {"paid"} : landed[i] > 0}

Looked(i, status) == [bill EXCEPT ![i].status = status]

LooksAt(i, status) ==
  /\ status \in SeenStatuses(i)
  /\ bill' = Looked(i, status)
  /\ UNCHANGED lateBills

(* assertX402TreasuryHealthy: only a balance that was read and is low stops  *)
(* new invoices.                                                             *)
TreasuryTakes(reading) == reading \in {"healthy", "unreachable"}

(* createX402Invoice: within the cap on open invoices a new one, else 429.   *)
WithinOpenCap(bills, w) ==
  Cardinality({i \in Drawn : /\ bills[i].status = "open"
                             /\ bills[i].ownerWallet = w}) < OpenPerOwner

Issues(bills, w, res) ==
  IF WithinOpenCap(bills, w) /\ Drawn # InvoiceIds
  THEN \E i \in InvoiceIds \ Drawn : bill' = [bills EXCEPT ![i] = Bill(w, res)]
  ELSE bill' = bills

IssuesIfHealthy(bills, w, res) ==
  \E reading \in {"healthy", "low", "unreachable"} :
    IF TreasuryTakes(reading) THEN Issues(bills, w, res) ELSE bill' = bills

(* authenticatedOwner: the user has an active session. *)
HasSession(u) == u \in Users /\ payer[u] # NoPayer

(* createInvoiceForOwner: the wallet of the body, if any, is the session's.  *)
CreateByRoute(u, w, res) ==
  /\ HasSession(u)
  /\ w \in {NoPayer, payer[u]}
  /\ IssuesIfHealthy(bill, payer[u], res)
  /\ UNCHANGED <<lateBills, payer, payCall, landed, blind, served, turned>>

--------------------------------------------------------------------------------
(* The gate. *)

Gated(u, w, i, res) ==
  [at |-> "gate", user |-> u, wallet |-> w, invoice |-> i, resource |-> res]

(* withArcoxX402 up to its await: a wallet in the header is the wallet of    *)
(* the active session of whoever asks; a payment id needs one.               *)
MayPass(u, w) == w # NoPayer /\ HasSession(u) /\ payer[u] = w

AskResource(c, u, w, i, res) ==
  /\ IsAt(c, "rest")
  /\ MayPass(u, w)
  /\ i \in Drawn \cup {NoId}
  /\ payCall' = [payCall EXCEPT ![c] = Gated(u, w, i, res)]
  /\ UNCHANGED <<bill, lateBills, payer, landed, blind, served, turned>>

(* A paid invoice opens the resource it was made out for, to its owner.      *)
OpensAny(call, status) ==  \* mutant: the resource is not compared
  /\ status = "paid"
  /\ call.wallet = bill[call.invoice].ownerWallet

Opens(call, status) ==
  /\ status = "paid"
  /\ call.wallet = bill[call.invoice].ownerWallet
  /\ call.resource = bill[call.invoice].resource

(* The invoice is looked at, and the resource served.                        *)
GateServes(c) ==
  /\ IsAt(c, "gate") /\ payCall[c].invoice # NoId
  /\ LooksAt(payCall[c].invoice, "paid")
  /\ Opens(payCall[c], "paid")
  /\ served' = served \cup {[invoice  |-> payCall[c].invoice,
                             resource |-> payCall[c].resource,
                             wallet   |-> payCall[c].wallet]}
  /\ Ends(c)
  /\ UNCHANGED <<payer, landed, blind, turned>>

(* Somebody else's invoice is refused.  In every other case a new one is     *)
(* asked for - when the resource is another or the invoice expired, without  *)
(* a look at the treasury.                                                   *)
GateRefuses(c) ==
  /\ IsAt(c, "gate") /\ payCall[c].invoice # NoId
  /\ payCall[c].wallet # bill[payCall[c].invoice].ownerWallet
  /\ \E status \in SeenStatuses(payCall[c].invoice) :
       LooksAt(payCall[c].invoice, status)
  /\ Ends(c)
  /\ UNCHANGED <<payer, landed, blind, served, turned>>

GateCharges(c) ==
  /\ IsAt(c, "gate")
  /\ LET call == payCall[c]
         i == call.invoice
     IN  IF i = NoId
         THEN IssuesIfHealthy(bill, call.wallet, call.resource)
         ELSE /\ call.wallet = bill[i].ownerWallet
              /\ \E status \in SeenStatuses(i) :
                   /\ ~Opens(call, status)
                   /\ IF status = "expired" \/ call.resource # bill[i].resource
                      THEN Issues(Looked(i, status), call.wallet, call.resource)
                      ELSE IssuesIfHealthy(Looked(i, status), call.wallet, call.resource)
  /\ Ends(c)
  /\ UNCHANGED <<lateBills, payer, landed, blind, served, turned>>

--------------------------------------------------------------------------------
(* The tool. *)

Told(u, i, status) == [at |-> "told", user |-> u, invoice |-> i, status |-> status]
Sent(call, hidden) ==
  [at |-> "sent", user |-> call.user, invoice |-> call.invoice, hidden |-> hidden]
Watching(call) == [at |-> "watching", user |-> call.user, invoice |-> call.invoice]

(* unlockX402Resource: the resource of the invoice is asked for with its     *)
(* payment id and wallet, in the name of the tool's user.                    *)
Unlocks(c, u, i) ==
  payCall' = [payCall EXCEPT ![c] =
    IF MayPass(u, bill[i].ownerWallet)
    THEN Gated(u, bill[i].ownerWallet, i, bill[i].resource)
    ELSE AtRest]

(* previewX402Pay: a paid invoice is unlocked, everything else only answered.*)
Preview(c, u, i) ==
  /\ IsAt(c, "rest") /\ i \in Drawn
  /\ \E status \in SeenStatuses(i) :
       /\ LooksAt(i, status)
       /\ IF status = "paid" THEN Unlocks(c, u, i) ELSE UNCHANGED payCall
  /\ UNCHANGED <<payer, landed, blind, served, turned>>

(* executeX402Pay reads the invoice, and stops only at a paid one.           *)
ConfirmPaysAgain(c, u, i) ==  \* mutant: a paid invoice is not stopped at
  /\ IsAt(c, "rest") /\ i \in Drawn
  /\ \E status \in SeenStatuses(i) :
       /\ LooksAt(i, status)
       /\ payCall' = [payCall EXCEPT ![c] = Told(u, i, status)]
  /\ UNCHANGED <<payer, landed, blind, served, turned>>

Confirm(c, u, i) ==
  /\ IsAt(c, "rest") /\ i \in Drawn
  /\ \E status \in SeenStatuses(i) :
       /\ LooksAt(i, status)
       /\ IF status = "paid"
          THEN Unlocks(c, u, i)
          ELSE payCall' = [payCall EXCEPT ![c] = Told(u, i, status)]
  /\ UNCHANGED <<payer, landed, blind, served, turned>>

(* The answer is there, and executeViaSession submits the transfer - if the  *)
(* session is active and the invoice is made out to its wallet.              *)
PaysNow(i) == {c \in PayCalls : IsAt(c, "sent") /\ payCall[c].invoice = i}
SentSoFar == SumFunction(landed) + Cardinality({c \in PayCalls : IsAt(c, "sent")})

Submit(c) ==
  /\ IsAt(c, "told")
  /\ LET call == payCall[c]
         i == call.invoice
     IN  IF MayPass(call.user, bill[i].ownerWallet)
         THEN /\ SentSoFar < MaxSends
              /\ payCall' = [payCall EXCEPT ![c] = Sent(call,
                   call.status # "paid" /\ (landed[i] > 0 \/ PaysNow(i) # {}))]
         ELSE Ends(c)
  /\ UNCHANGED <<bill, lateBills, payer, landed, blind, served, turned>>

(* External: the transfer lands, and the tool hears of it or not.            *)
Land(c) ==
  /\ IsAt(c, "sent")
  /\ landed' = [landed EXCEPT ![payCall[c].invoice] = @ + 1]
  /\ blind' = [blind EXCEPT ![payCall[c].invoice] = @ + IF payCall[c].hidden THEN 1 ELSE 0]
  /\ payCall' \in {[payCall EXCEPT ![c] = AtRest],
                   [payCall EXCEPT ![c] = Watching(payCall[c])]}
  /\ UNCHANGED <<bill, lateBills, payer, served, turned>>

(* The wallet refuses, or the operation reverts. *)
PaymentFails(c) ==
  /\ IsAt(c, "sent")
  /\ Ends(c)
  /\ UNCHANGED <<bill, lateBills, payer, landed, blind, served, turned>>

(* One of the twenty looks for the settlement: a paid invoice is unlocked,   *)
(* an expired one ends the watch, and so does the last look.                 *)
Watch(c) ==
  /\ IsAt(c, "watching")
  /\ LET i == payCall[c].invoice IN
     \E status \in SeenStatuses(i) :
       /\ LooksAt(i, status)
       /\ CASE status = "paid" -> Unlocks(c, payCall[c].user, i)
            [] status = "expired" -> Ends(c)
            [] OTHER -> Ends(c) \/ UNCHANGED payCall
  /\ UNCHANGED <<payer, landed, blind, served, turned>>

--------------------------------------------------------------------------------
(* The session is revoked, or another wallet set up; the invoice's time ends.*)
PayerTurns(u, w) ==
  /\ turned < PayerChanges /\ payer[u] # w
  /\ payer' = [payer EXCEPT ![u] = w]
  /\ turned' = turned + 1
  /\ UNCHANGED <<bill, lateBills, payCall, landed, blind, served>>

BillTimesOut(i) ==
  /\ i \in Drawn /\ bill[i].status = "open" /\ i \notin lateBills
  /\ lateBills' = lateBills \cup {i}
  /\ UNCHANGED <<bill, payer, payCall, landed, blind, served, turned>>

X402PayNext ==
  \/ \E u \in Users :
       \/ \E w \in PayerWallets \cup {NoPayer} :
            PayerTurns(u, w) \/ \E res \in Resources : CreateByRoute(u, w, res)
       \/ \E c \in PayCalls, i \in InvoiceIds : Preview(c, u, i) \/ Confirm(c, u, i)
  \/ \E c \in PayCalls, u \in Users \cup {NoUser}, w \in PayerWallets \cup {NoPayer},
        i \in InvoiceIds \cup {NoId}, res \in Resources : AskResource(c, u, w, i, res)
  \/ \E c \in PayCalls :
       GateServes(c) \/ GateRefuses(c) \/ GateCharges(c)
         \/ Submit(c) \/ Land(c) \/ PaymentFails(c) \/ Watch(c)
  \/ \E i \in InvoiceIds : BillTimesOut(i)

X402PaySpec == X402PayInit /\ [][X402PayNext]_x402PayVars

--------------------------------------------------------------------------------
(* A resource is served only against an invoice that was made out for it, to *)
(* the wallet that owes it, and only once that wallet's transfer landed -    *)
(* whoever else asked, with whatever session and payment id, in between.     *)
ServedIsPaid ==
  \A s \in served :
    /\ bill[s.invoice].status = "paid"
    /\ bill[s.invoice].ownerWallet = s.wallet
    /\ bill[s.invoice].resource = s.resource
    /\ landed[s.invoice] > 0

(* An invoice is paid once, but for the payments that were confirmed while   *)
(* an earlier one was under way or had landed without being settled yet:     *)
(* after the settlement no confirmation pays again.                          *)
PaidOnceUnlessBlind == \A i \in InvoiceIds : landed[i] <= 1 + blind[i]
================================================================================
