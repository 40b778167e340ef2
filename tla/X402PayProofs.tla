----------------------------- MODULE X402PayProofs -----------------------------
(***************************************************************************)
(* Theorems about X402Pay, for any number of calls, users, wallets,        *)
(* invoices and resources, and any number of transfers.                    *)
(*                                                                         *)
(* Both properties follow from one inductive invariant.  It says which      *)
(* invoice each suspended call holds, and that of the transfers under way   *)
(* for one invoice at most one was sent without another being known of.     *)
(***************************************************************************)
EXTENDS X402Pay, TLAPS

BillRecord ==
  [status : {"open", "expired", "paid"}, ownerWallet : PayerWallets, resource : Resources]

(* A suspended call holds an invoice that exists, or the gate has none.      *)
CallOK(call) ==
  \/ call = AtRest
  \/ /\ call.at = "gate"
     /\ call.user \in Users /\ call.wallet \in PayerWallets /\ call.resource \in Resources
     /\ call.invoice \in Drawn \cup {NoId}
  \/ /\ call.at = "told"
     /\ call.user \in Users /\ call.invoice \in Drawn /\ call.status # "paid"
  \/ /\ call.at = "sent"
     /\ call.user \in Users /\ call.invoice \in Drawn /\ call.hidden \in BOOLEAN
  \/ /\ call.at = "watching"
     /\ call.user \in Users /\ call.invoice \in Drawn

PayTypeOK ==
  /\ bill \in [InvoiceIds -> BillRecord \cup {NoBill}]
  /\ payer \in [Users -> PayerWallets \cup {NoPayer}]
  /\ payCall = [c \in PayCalls |-> payCall[c]]
  /\ \A c \in PayCalls : CallOK(payCall[c])
  /\ landed \in [InvoiceIds -> Nat] /\ blind \in [InvoiceIds -> Nat]
  /\ \A s \in served : s.invoice \in InvoiceIds

(* An invoice is settled by a transfer that landed for it. *)
SettledHasLanded == \A i \in Drawn : bill[i].status = "paid" => landed[i] > 0

(* A transfer of c is under way that was sent as the only one known of. *)
Openly(c, i) == IsAt(c, "sent") /\ payCall[c].invoice = i /\ ~payCall[c].hidden

(* Of those there is one at a time, and no transfer before it has landed     *)
(* but blindly.                                                              *)
OneOpenTransfer ==
  \A i \in InvoiceIds :
    /\ \A c, d \in PayCalls : Openly(c, i) /\ Openly(d, i) => c = d
    /\ (\E c \in PayCalls : Openly(c, i)) => landed[i] <= blind[i]

PayInv ==
  /\ PayTypeOK /\ SettledHasLanded /\ OneOpenTransfer
  /\ ServedIsPaid /\ PaidOnceUnlessBlind

--------------------------------------------------------------------------------
(* Steps.  All but three actions are quiet: they look at an invoice or issue  *)
(* one, and move one call to a stage in which it has sent nothing.            *)

Follows(i) ==
  \/ bill'[i] = bill[i]
  \/ bill[i] = NoBill /\ bill'[i] \in BillRecord /\ bill'[i].status = "open"
  \/ /\ bill[i] \in BillRecord /\ bill'[i] \in BillRecord
     /\ bill'[i].ownerWallet = bill[i].ownerWallet
     /\ bill'[i].resource = bill[i].resource
     /\ bill[i].status # "paid"
     /\ bill'[i].status = "paid" => landed[i] > 0

BillsFollow ==
  /\ bill' \in [InvoiceIds -> BillRecord \cup {NoBill}]
  /\ \A i \in InvoiceIds : Follows(i)

Moves(c, call) ==
  /\ payCall' = [payCall EXCEPT ![c] = call]
  /\ CallOK(call) /\ call.at # "sent"

CallsQuiet == payCall' = payCall \/ \E c \in PayCalls : \E call : Moves(c, call)

Quiet ==
  /\ BillsFollow /\ CallsQuiet
  /\ payer' \in [Users -> PayerWallets \cup {NoPayer}]
  /\ UNCHANGED <<landed, blind, served>>

(* An invoice that does not exist is not a record with a wallet. *)
LEMMA NoBillIsNoRecord == NoBill \notin BillRecord
  BY DEF NoBill, BillRecord

(* Whoever may pass is a user, and the wallet is one of the program's. *)
LEMMA PassesWithWallet ==
  ASSUME PayTypeOK, NEW u, NEW w, MayPass(u, w)
  PROVE  u \in Users /\ w \in PayerWallets
  BY X402PayAssumption DEF PayTypeOK, MayPass, HasSession

(* Looking at an invoice keeps what it is, and finds it paid only if a        *)
(* transfer landed.                                                           *)
LEMMA LookFollows ==
  ASSUME PayInv, NEW i \in Drawn, NEW status \in SeenStatuses(i)
  PROVE  /\ Looked(i, status) \in [InvoiceIds -> BillRecord \cup {NoBill}]
         /\ bill[i] \in BillRecord /\ Looked(i, status)[i] \in BillRecord
         /\ \A j \in InvoiceIds \ {i} : Looked(i, status)[j] = bill[j]
         /\ Looked(i, status)[i].ownerWallet = bill[i].ownerWallet
         /\ Looked(i, status)[i].resource = bill[i].resource
         /\ Looked(i, status)[i].status = status
         /\ bill[i].status = "paid" => status = "paid" /\ Looked(i, status) = bill
         /\ status = "paid" => landed[i] > 0
  <1>1. i \in InvoiceIds /\ bill[i] \in BillRecord
    BY DEF PayInv, PayTypeOK, Drawn
  <1>2. landed[i] \in Nat /\ (bill[i].status = "paid" => landed[i] > 0)
    BY <1>1 DEF PayInv, PayTypeOK, SettledHasLanded
  <1>3. status \in {"open", "expired", "paid"}
    BY <1>1 DEF SeenStatuses, BillRecord
  <1>4. status = "paid" => landed[i] > 0
    BY <1>1, <1>2 DEF SeenStatuses, BillRecord
  <1>5. bill[i].status = "paid" => status = "paid"
    BY DEF SeenStatuses
  <1>6. [bill[i] EXCEPT !.status = status] \in BillRecord
    BY <1>1, <1>3 DEF BillRecord
  <1>7. bill[i].status = status => [bill[i] EXCEPT !.status = status] = bill[i]
    BY <1>1 DEF BillRecord
  <1>8. Looked(i, status) = [bill EXCEPT ![i] = [bill[i] EXCEPT !.status = status]]
    BY DEF Looked
  <1>. QED
    BY <1>1, <1>3, <1>4, <1>5, <1>6, <1>7, <1>8 DEF PayInv, PayTypeOK, BillRecord

(* A look alone. *)
LEMMA LookIsFollowed ==
  ASSUME PayInv, NEW i \in Drawn, NEW status \in SeenStatuses(i),
         bill' = Looked(i, status)
  PROVE  BillsFollow
  <1>1. i \in InvoiceIds
    BY DEF Drawn
  <1>2. Follows(i)
    BY LookFollows DEF Follows
  <1>3. \A j \in InvoiceIds \ {i} : Follows(j)
    BY LookFollows DEF Follows
  <1>4. bill' \in [InvoiceIds -> BillRecord \cup {NoBill}]
    BY LookFollows
  <1>. QED
    BY <1>1, <1>2, <1>3, <1>4 DEF BillsFollow

(* A look, or none, and a new invoice or none. *)
LEMMA IssueIsFollowed ==
  ASSUME PayInv, NEW bills, NEW w \in PayerWallets, NEW res \in Resources,
         \/ bills = bill
         \/ \E i \in Drawn : \E status \in SeenStatuses(i) : bills = Looked(i, status),
         Issues(bills, w, res)
  PROVE  BillsFollow
  <1>1. CASE bill' = bills
    <2>1. CASE bills = bill
      BY <1>1, <2>1 DEF BillsFollow, Follows, PayInv, PayTypeOK
    <2>2. CASE \E i \in Drawn : \E status \in SeenStatuses(i) : bills = Looked(i, status)
      BY <1>1, <2>2, LookIsFollowed
    <2>. QED
      BY <2>1, <2>2
  <1>2. CASE \E n \in InvoiceIds \ Drawn : bill' = [bills EXCEPT ![n] = Bill(w, res)]
    <2>1. PICK n \in InvoiceIds \ Drawn : bill' = [bills EXCEPT ![n] = Bill(w, res)]
      BY <1>2
    <2>2. bill[n] = NoBill
      BY DEF Drawn
    <2>3. Bill(w, res) \in BillRecord /\ Bill(w, res).status = "open"
      BY DEF Bill, BillRecord
    <2>4. CASE bills = bill
      BY <2>1, <2>2, <2>3, <2>4 DEF BillsFollow, Follows, PayInv, PayTypeOK
    <2>5. CASE \E i \in Drawn : \E status \in SeenStatuses(i) : bills = Looked(i, status)
      <3>1. PICK i \in Drawn : \E status \in SeenStatuses(i) : bills = Looked(i, status)
        BY <2>5
      <3>2. PICK status \in SeenStatuses(i) : bills = Looked(i, status)
        BY <3>1
      <3>3. i \in InvoiceIds /\ i # n
        BY DEF Drawn
      <3>4. /\ bills \in [InvoiceIds -> BillRecord \cup {NoBill}]
            /\ bill[i] \in BillRecord /\ bills[i] \in BillRecord
            /\ \A j \in InvoiceIds \ {i} : bills[j] = bill[j]
            /\ bills[i].ownerWallet = bill[i].ownerWallet
            /\ bills[i].resource = bill[i].resource
            /\ bill[i].status = "paid" => bills = bill
            /\ bills[i].status = "paid" => landed[i] > 0
        BY <3>2, LookFollows
      <3>5. bill'[i] = bills[i] /\ bill'[n] = Bill(w, res)
            /\ \A j \in InvoiceIds \ {i, n} : bill'[j] = bill[j]
        BY <2>1, <3>3, <3>4
      <3>6. bill' \in [InvoiceIds -> BillRecord \cup {NoBill}]
        BY <2>1, <2>3, <3>4
      <3>7. Follows(i)
        BY <3>4, <3>5 DEF Follows
      <3>8. Follows(n)
        BY <2>2, <2>3, <3>5 DEF Follows
      <3>9. \A j \in InvoiceIds \ {i, n} : Follows(j)
        BY <3>5 DEF Follows
      <3>. QED
        BY <3>6, <3>7, <3>8, <3>9 DEF BillsFollow
    <2>. QED
      BY <2>4, <2>5
  <1>. QED
    BY <1>1, <1>2 DEF Issues

(* What exists stays, and keeps its wallet and its resource; what is paid     *)
(* stays paid.                                                                *)
LEMMA DrawnStays ==
  ASSUME PayInv, BillsFollow
  PROVE  /\ Drawn \subseteq Drawn'
         /\ \A i \in Drawn : /\ bill'[i].ownerWallet = bill[i].ownerWallet
                             /\ bill'[i].resource = bill[i].resource
                             /\ bill[i].status = "paid" => bill'[i].status = "paid"
  BY NoBillIsNoRecord DEF BillsFollow, Follows, Drawn

(* A call that is well formed stays so. *)
LEMMA CallsStayOK ==
  ASSUME PayInv, BillsFollow,
         payCall' = [c \in PayCalls |-> payCall'[c]],
         \A c \in PayCalls : CallOK(payCall'[c])
  PROVE  (\A c \in PayCalls : CallOK(payCall[c]))'
  BY DrawnStays DEF CallOK

(* Quiet steps keep the invariant. *)
LEMMA QuietKeeps ==
  ASSUME PayInv, Quiet
  PROVE  PayInv'
  <1>1. /\ payCall' = [c \in PayCalls |-> payCall'[c]]
        /\ \A c \in PayCalls : CallOK(payCall'[c])
        /\ \A c \in PayCalls : payCall'[c] = payCall[c] \/ payCall'[c].at # "sent"
    BY DEF Quiet, CallsQuiet, Moves, PayInv, PayTypeOK
  <1>2. PayTypeOK'
    BY <1>1, CallsStayOK DEF Quiet, BillsFollow, PayInv, PayTypeOK
  <1>3. SettledHasLanded'
    <2>. SUFFICES ASSUME NEW i \in InvoiceIds, bill'[i] # NoBill, bill'[i].status = "paid"
                  PROVE  landed[i] > 0
      BY DEF Quiet, SettledHasLanded, Drawn
    <2>1. Follows(i)
      BY DEF Quiet, BillsFollow
    <2>. QED
      BY <2>1 DEF Follows, PayInv, SettledHasLanded, Drawn
  <1>4. \A c \in PayCalls, i \in InvoiceIds : Openly(c, i)' => Openly(c, i)
    BY <1>1 DEF Openly, IsAt
  <1>5. OneOpenTransfer'
    BY <1>4 DEF Quiet, PayInv, OneOpenTransfer
  <1>6. ServedIsPaid'
    <2>. SUFFICES ASSUME NEW s \in served
                  PROVE  /\ bill'[s.invoice].status = "paid"
                         /\ bill'[s.invoice].ownerWallet = s.wallet
                         /\ bill'[s.invoice].resource = s.resource
                         /\ landed[s.invoice] > 0
      BY DEF Quiet, ServedIsPaid
    <2>1. s.invoice \in Drawn
      BY DEF PayInv, PayTypeOK, ServedIsPaid, Drawn, NoBill
    <2>. QED
      BY <2>1, DrawnStays DEF Quiet, PayInv, ServedIsPaid
  <1>7. PaidOnceUnlessBlind'
    BY DEF Quiet, PayInv, PaidOnceUnlessBlind
  <1>. QED
    BY <1>2, <1>3, <1>5, <1>6, <1>7 DEF PayInv

--------------------------------------------------------------------------------
(* The quiet actions. *)

(* Nothing happens to the invoices. *)
LEMMA SameBillsFollow ==
  ASSUME PayInv, UNCHANGED bill
  PROVE  BillsFollow
  BY DEF PayInv, PayTypeOK, BillsFollow, Follows

(* The wallets of the sessions stay what they are. *)
LEMMA SamePayers ==
  ASSUME PayInv, UNCHANGED payer
  PROVE  payer' \in [Users -> PayerWallets \cup {NoPayer}]
  BY DEF PayInv, PayTypeOK

(* A call that ends, and a tool that asks for the resource itself. *)
LEMMA EndIsQuiet ==
  ASSUME NEW c \in PayCalls, Ends(c)
  PROVE  CallsQuiet
  <1>1. CallOK(AtRest) /\ AtRest.at # "sent"
    BY DEF CallOK, AtRest
  <1>. QED
    BY <1>1 DEF Ends, CallsQuiet, Moves

LEMMA UnlockIsQuiet ==
  ASSUME PayInv, NEW c \in PayCalls, NEW u, NEW i \in Drawn, Unlocks(c, u, i)
  PROVE  CallsQuiet
  <1>1. bill[i] \in BillRecord
    BY DEF PayInv, PayTypeOK, Drawn
  <1>2. CASE MayPass(u, bill[i].ownerWallet)
    <2>. DEFINE call == Gated(u, bill[i].ownerWallet, i, bill[i].resource)
    <2>1. payCall' = [payCall EXCEPT ![c] = call]
      BY <1>2 DEF Unlocks
    <2>2. CallOK(call) /\ call.at # "sent"
      BY <1>1, <1>2, PassesWithWallet DEF PayInv, Gated, CallOK, BillRecord
    <2>. QED
      BY <2>1, <2>2 DEF CallsQuiet, Moves
  <1>3. CASE ~MayPass(u, bill[i].ownerWallet)
    BY <1>3, EndIsQuiet DEF Unlocks, Ends
  <1>. QED
    BY <1>2, <1>3

(* An issue behind the look at the treasury. *)
LEMMA HealthyIssueIsFollowed ==
  ASSUME PayInv, NEW bills, NEW w \in PayerWallets, NEW res \in Resources,
         \/ bills = bill
         \/ \E i \in Drawn : \E status \in SeenStatuses(i) : bills = Looked(i, status),
         IssuesIfHealthy(bills, w, res)
  PROVE  BillsFollow
  <1>1. CASE Issues(bills, w, res)
    BY <1>1, IssueIsFollowed
  <1>2. CASE bill' = bills
    <2>1. CASE bills = bill
      BY <1>2, <2>1, SameBillsFollow
    <2>2. CASE \E i \in Drawn : \E status \in SeenStatuses(i) : bills = Looked(i, status)
      BY <1>2, <2>2, LookIsFollowed
    <2>. QED
      BY <2>1, <2>2
  <1>. QED
    BY <1>1, <1>2 DEF IssuesIfHealthy

(* The route creates an invoice for a wallet that has a session. *)
LEMMA CreateByRouteIsQuiet ==
  ASSUME PayInv, NEW u \in Users, NEW w, NEW res \in Resources, CreateByRoute(u, w, res)
  PROVE  Quiet
  <1>1. payer[u] \in PayerWallets
    BY PassesWithWallet DEF CreateByRoute, MayPass, HasSession, PayInv, PayTypeOK
  <1>2. BillsFollow
    BY <1>1, HealthyIssueIsFollowed DEF CreateByRoute
  <1>. QED
    BY <1>2, SamePayers DEF CreateByRoute, Quiet, CallsQuiet

(* A request stops at the gate. *)
LEMMA AskResourceIsQuiet ==
  ASSUME PayInv, NEW c \in PayCalls, NEW u, NEW w, NEW i, NEW res \in Resources,
         AskResource(c, u, w, i, res)
  PROVE  Quiet
  <1>1. CallOK(Gated(u, w, i, res)) /\ Gated(u, w, i, res).at # "sent"
    BY PassesWithWallet DEF AskResource, PayInv, Gated, CallOK
  <1>2. CallsQuiet
    BY <1>1 DEF AskResource, CallsQuiet, Moves
  <1>. QED
    BY <1>2, SameBillsFollow, SamePayers DEF AskResource, Quiet

(* What the gate has in its hands. *)
LEMMA GateHas ==
  ASSUME PayInv, NEW c \in PayCalls, IsAt(c, "gate")
  PROVE  /\ payCall[c].wallet \in PayerWallets /\ payCall[c].resource \in Resources
         /\ payCall[c].invoice \in Drawn \cup {NoId}
  BY DEF PayInv, PayTypeOK, CallOK, IsAt, AtRest

(* The gate refuses somebody else's invoice. *)
LEMMA GateRefusesIsQuiet ==
  ASSUME PayInv, NEW c \in PayCalls, GateRefuses(c)
  PROVE  Quiet
  <1>1. payCall[c].invoice \in Drawn
    BY GateHas DEF GateRefuses
  <1>2. BillsFollow
    BY <1>1, LookIsFollowed DEF GateRefuses, LooksAt
  <1>. QED
    BY <1>2, EndIsQuiet, SamePayers DEF GateRefuses, Quiet

(* The gate asks for a new payment. *)
LEMMA GateChargesIsQuiet ==
  ASSUME PayInv, NEW c \in PayCalls, GateCharges(c)
  PROVE  Quiet
  <1>. DEFINE call == payCall[c]
              i == call.invoice
  <1>1. call.wallet \in PayerWallets /\ call.resource \in Resources /\ i \in Drawn \cup {NoId}
    BY GateHas DEF GateCharges
  <1>2. i = NoId => BillsFollow
    BY <1>1, HealthyIssueIsFollowed DEF GateCharges
  <1>3. ASSUME i # NoId PROVE BillsFollow
    <2>1. PICK status \in SeenStatuses(i) :
            IF status = "expired" \/ call.resource # bill[i].resource
            THEN Issues(Looked(i, status), call.wallet, call.resource)
            ELSE IssuesIfHealthy(Looked(i, status), call.wallet, call.resource)
      BY <1>3 DEF GateCharges
    <2>2. i \in Drawn
      BY <1>1, <1>3
    <2>. QED
      BY <1>1, <2>1, <2>2, IssueIsFollowed, HealthyIssueIsFollowed
  <1>4. BillsFollow
    BY <1>2, <1>3
  <1>. QED
    BY <1>4, EndIsQuiet, SamePayers DEF GateCharges, Quiet

(* The tool looks at an invoice, and unlocks it or takes note. *)
LEMMA PreviewIsQuiet ==
  ASSUME PayInv, NEW c \in PayCalls, NEW u, NEW i, Preview(c, u, i)
  PROVE  Quiet
  <1>1. BillsFollow
    BY LookIsFollowed DEF Preview, LooksAt
  <1>2. CallsQuiet
    BY UnlockIsQuiet DEF Preview, CallsQuiet
  <1>. QED
    BY <1>1, <1>2, SamePayers DEF Preview, Quiet

LEMMA ConfirmIsQuiet ==
  ASSUME PayInv, NEW c \in PayCalls, NEW u \in Users, NEW i, Confirm(c, u, i)
  PROVE  Quiet
  <1>1. BillsFollow
    BY LookIsFollowed DEF Confirm, LooksAt
  <1>2. ASSUME NEW status, status # "paid",
               payCall' = [payCall EXCEPT ![c] = Told(u, i, status)]
        PROVE  CallsQuiet
    <2>1. CallOK(Told(u, i, status)) /\ Told(u, i, status).at # "sent"
      BY <1>2 DEF Confirm, Told, CallOK
    <2>. QED
      BY <1>2, <2>1 DEF CallsQuiet, Moves
  <1>3. CallsQuiet
    BY <1>2, UnlockIsQuiet DEF Confirm
  <1>. QED
    BY <1>1, <1>3, SamePayers DEF Confirm, Quiet

LEMMA WatchIsQuiet ==
  ASSUME PayInv, NEW c \in PayCalls, Watch(c)
  PROVE  Quiet
  <1>. DEFINE i == payCall[c].invoice
  <1>1. i \in Drawn
    BY DEF Watch, IsAt, PayInv, PayTypeOK, CallOK, AtRest
  <1>2. PICK status \in SeenStatuses(i) :
          /\ LooksAt(i, status)
          /\ \/ Unlocks(c, payCall[c].user, i)
             \/ Ends(c)
             \/ UNCHANGED payCall
    BY DEF Watch
  <1>3. BillsFollow
    BY <1>1, <1>2, LookIsFollowed DEF LooksAt
  <1>4. CallsQuiet
    BY <1>1, <1>2, UnlockIsQuiet, EndIsQuiet DEF CallsQuiet
  <1>. QED
    BY <1>3, <1>4, SamePayers DEF Watch, Quiet

(* The payment fails, the session turns, the invoice's time ends. *)
LEMMA PaymentFailsIsQuiet ==
  ASSUME PayInv, NEW c \in PayCalls, PaymentFails(c)
  PROVE  Quiet
  BY SameBillsFollow, SamePayers, EndIsQuiet DEF PaymentFails, Quiet

LEMMA PayerTurnsIsQuiet ==
  ASSUME PayInv, NEW u \in Users, NEW w \in PayerWallets \cup {NoPayer}, PayerTurns(u, w)
  PROVE  Quiet
  <1>1. payer' \in [Users -> PayerWallets \cup {NoPayer}]
    BY DEF PayerTurns, PayInv, PayTypeOK
  <1>. QED
    BY <1>1, SameBillsFollow DEF PayerTurns, Quiet, CallsQuiet

LEMMA BillTimesOutIsQuiet ==
  ASSUME PayInv, NEW i, BillTimesOut(i)
  PROVE  Quiet
  BY SameBillsFollow, SamePayers DEF BillTimesOut, Quiet, CallsQuiet

--------------------------------------------------------------------------------
(* The three other actions. *)

(* What is served is what the gate has compared with a paid invoice. *)
LEMMA GateServesKeeps ==
  ASSUME PayInv, NEW c \in PayCalls, GateServes(c)
  PROVE  PayInv'
  <1>. DEFINE i == payCall[c].invoice
              s == [invoice |-> i, resource |-> payCall[c].resource,
                    wallet |-> payCall[c].wallet]
  <1>1. i \in Drawn /\ i \in InvoiceIds /\ "paid" \in SeenStatuses(i)
    BY GateHas DEF GateServes, LooksAt, Drawn
  <1>2. bill' = Looked(i, "paid") /\ BillsFollow
    BY <1>1, LookIsFollowed DEF GateServes, LooksAt
  <1>3. /\ bill'[i].status = "paid" /\ landed[i] > 0
        /\ bill'[i].ownerWallet = s.wallet
        /\ bill'[i].resource = s.resource
    BY <1>1, <1>2, LookFollows DEF GateServes, Opens
  <1>4. /\ payCall' = [c2 \in PayCalls |-> payCall'[c2]]
        /\ \A d \in PayCalls : CallOK(payCall'[d])
        /\ \A d \in PayCalls : payCall'[d] = payCall[d] \/ payCall'[d].at # "sent"
    BY DEF GateServes, Ends, PayInv, PayTypeOK, CallOK, AtRest
  <1>5. PayTypeOK'
    BY <1>1, <1>2, <1>4, CallsStayOK DEF GateServes, BillsFollow, PayInv, PayTypeOK
  <1>6. SettledHasLanded'
    <2>. SUFFICES ASSUME NEW j \in InvoiceIds, bill'[j] # NoBill, bill'[j].status = "paid"
                  PROVE  landed[j] > 0
      BY DEF GateServes, SettledHasLanded, Drawn
    <2>1. Follows(j)
      BY <1>2 DEF BillsFollow
    <2>. QED
      BY <2>1 DEF Follows, PayInv, SettledHasLanded, Drawn
  <1>7. \A d \in PayCalls, j \in InvoiceIds : Openly(d, j)' => Openly(d, j)
    BY <1>4 DEF Openly, IsAt
  <1>8. OneOpenTransfer'
    BY <1>7 DEF GateServes, PayInv, OneOpenTransfer
  <1>9. ServedIsPaid'
    <2>1. ASSUME NEW q \in served
          PROVE  /\ bill'[q.invoice].status = "paid"
                 /\ bill'[q.invoice].ownerWallet = q.wallet
                 /\ bill'[q.invoice].resource = q.resource
                 /\ landed[q.invoice] > 0
      <3>1. q.invoice \in Drawn
        BY DEF PayInv, PayTypeOK, ServedIsPaid, Drawn, NoBill
      <3>. QED
        BY <1>2, <3>1, DrawnStays DEF PayInv, ServedIsPaid
    <2>2. served' = served \cup {s} /\ s.invoice = i /\ UNCHANGED landed
      BY DEF GateServes
    <2>. QED
      BY <1>3, <2>1, <2>2 DEF ServedIsPaid
  <1>10. PaidOnceUnlessBlind'
    BY DEF GateServes, PayInv, PaidOnceUnlessBlind
  <1>. QED
    BY <1>5, <1>6, <1>8, <1>9, <1>10 DEF PayInv

(* A transfer is sent, openly only if no other is known of. *)
LEMMA SubmitKeeps ==
  ASSUME PayInv, NEW c \in PayCalls, Submit(c)
  PROVE  PayInv'
  <1>. DEFINE call == payCall[c]
              i == call.invoice
              hidden == call.status # "paid" /\ (landed[i] > 0 \/ PaysNow(i) # {})
  <1>1. call.user \in Users /\ i \in Drawn /\ i \in InvoiceIds /\ call.status # "paid"
    BY DEF Submit, IsAt, PayInv, PayTypeOK, CallOK, AtRest, Drawn
  <1>2. CASE Ends(c)
    BY <1>2, EndIsQuiet, SameBillsFollow, SamePayers, QuietKeeps DEF Submit, Quiet
  <1>3. CASE payCall' = [payCall EXCEPT ![c] = Sent(call, hidden)]
    <2>0. hidden \in BOOLEAN
      OBVIOUS
    <2>. HIDE DEF hidden
    <2>1. CallOK(Sent(call, hidden))
      BY <1>1, <2>0 DEF Sent, CallOK
    <2>2. BillsFollow
      BY SameBillsFollow DEF Submit
    <2>3. /\ payCall' = [d \in PayCalls |-> payCall'[d]]
          /\ \A d \in PayCalls : CallOK(payCall'[d])
          /\ payCall'[c] = Sent(call, hidden)
          /\ \A d \in PayCalls \ {c} : payCall'[d] = payCall[d]
      BY <1>3, <2>1 DEF PayInv, PayTypeOK
    <2>4. PayTypeOK'
      BY <2>2, <2>3, CallsStayOK DEF Submit, PayInv, PayTypeOK
    <2>5. \A j \in InvoiceIds : landed[j] \in Nat /\ blind[j] \in Nat
      BY DEF PayInv, PayTypeOK
    <2>6. OneOpenTransfer'
      <3>. SUFFICES ASSUME NEW j \in InvoiceIds
                    PROVE  /\ \A d, e \in PayCalls : Openly(d, j)' /\ Openly(e, j)' => d = e
                           /\ (\E d \in PayCalls : Openly(d, j)') => landed[j] <= blind[j]
        BY DEF Submit, OneOpenTransfer
      <3>1. \A d \in PayCalls \ {c} : Openly(d, j)' <=> Openly(d, j)
        BY <2>3 DEF Openly, IsAt
      <3>2. Openly(c, j)' => /\ j = i /\ ~hidden
        BY <2>3 DEF Openly, IsAt, Sent
      <3>3. ~hidden => landed[i] = 0 /\ \A d \in PayCalls : ~Openly(d, i)
        BY <1>1, <2>5 DEF PaysNow, Openly, hidden
      <3>. QED
        BY <2>5, <3>1, <3>2, <3>3 DEF PayInv, OneOpenTransfer
    <2>. QED
      BY <2>4, <2>6 DEF Submit, PayInv, SettledHasLanded, Drawn, ServedIsPaid, PaidOnceUnlessBlind
  <1>4. Ends(c) \/ payCall' = [payCall EXCEPT ![c] = Sent(call, hidden)]
    BY DEF Submit
  <1>. QED
    BY <1>2, <1>3, <1>4

(* A transfer lands: a blind one moves both counts, the open one is alone. *)
LEMMA LandKeeps ==
  ASSUME PayInv, NEW c \in PayCalls, Land(c)
  PROVE  PayInv'
  <1>. DEFINE call == payCall[c]
              i == call.invoice
  <1>1. call.user \in Users /\ i \in Drawn /\ i \in InvoiceIds /\ call.hidden \in BOOLEAN
    BY DEF Land, IsAt, PayInv, PayTypeOK, CallOK, AtRest, Drawn
  <1>2. \A j \in InvoiceIds : landed[j] \in Nat /\ blind[j] \in Nat
    BY DEF PayInv, PayTypeOK
  <1>3. /\ landed' \in [InvoiceIds -> Nat] /\ blind' \in [InvoiceIds -> Nat]
        /\ landed'[i] = landed[i] + 1
        /\ blind'[i] = blind[i] + IF call.hidden THEN 1 ELSE 0
        /\ \A j \in InvoiceIds \ {i} : landed'[j] = landed[j] /\ blind'[j] = blind[j]
    BY <1>1, <1>2 DEF Land, PayInv, PayTypeOK
  <1>4. BillsFollow
    BY SameBillsFollow DEF Land
  <1>5. CallOK(AtRest) /\ CallOK(Watching(call))
    BY <1>1 DEF CallOK, Watching
  <1>6. /\ payCall' = [d \in PayCalls |-> payCall'[d]]
        /\ \A d \in PayCalls : CallOK(payCall'[d])
        /\ payCall'[c].at # "sent"
        /\ \A d \in PayCalls \ {c} : payCall'[d] = payCall[d]
    BY <1>5 DEF Land, PayInv, PayTypeOK, AtRest, Watching
  <1>7. PayTypeOK'
    BY <1>3, <1>4, <1>6, CallsStayOK DEF Land, PayInv, PayTypeOK
  <1>8. \A j \in InvoiceIds : landed[j] > 0 => landed'[j] > 0
    BY <1>2, <1>3
  <1>9. SettledHasLanded' /\ ServedIsPaid'
    BY <1>8 DEF Land, PayInv, PayTypeOK, SettledHasLanded, Drawn, ServedIsPaid
  <1>10. \A d \in PayCalls, j \in InvoiceIds :
           Openly(d, j)' => Openly(d, j) /\ d # c
    BY <1>6 DEF Openly, IsAt
  <1>11. ~call.hidden => Openly(c, i)
    BY DEF Land, Openly
  <1>12. OneOpenTransfer'
    BY <1>1, <1>2, <1>3, <1>10, <1>11 DEF PayInv, OneOpenTransfer
  <1>13. PaidOnceUnlessBlind'
    BY <1>1, <1>2, <1>3, <1>11 DEF PayInv, OneOpenTransfer, PaidOnceUnlessBlind
  <1>. QED
    BY <1>7, <1>9, <1>12, <1>13 DEF PayInv

--------------------------------------------------------------------------------
(* At the start there are no invoices and no calls. *)
LEMMA PayInvInit == X402PayInit => PayInv
  <1>. SUFFICES ASSUME X402PayInit PROVE PayInv
    OBVIOUS
  <1>1. \A c \in PayCalls : payCall[c] = AtRest /\ CallOK(payCall[c]) /\ ~IsAt(c, "sent")
    BY DEF X402PayInit, CallOK, IsAt, AtRest
  <1>2. PayTypeOK
    BY <1>1 DEF X402PayInit, PayTypeOK
  <1>. QED
    BY <1>1, <1>2 DEF X402PayInit, PayInv, SettledHasLanded, Drawn, OneOpenTransfer, Openly,
      ServedIsPaid, PaidOnceUnlessBlind

(* Every step keeps the invariant, one action at a time. *)
LEMMA PayInvStep == PayInv /\ [X402PayNext]_x402PayVars => PayInv'
  <1>. SUFFICES ASSUME PayInv, [X402PayNext]_x402PayVars PROVE PayInv'
    OBVIOUS
  <1>1. ASSUME NEW u \in Users, NEW w \in PayerWallets \cup {NoPayer}, PayerTurns(u, w)
        PROVE  PayInv'
    BY <1>1, PayerTurnsIsQuiet, QuietKeeps
  <1>2. ASSUME NEW u \in Users, NEW w \in PayerWallets \cup {NoPayer}, NEW res \in Resources,
               CreateByRoute(u, w, res)
        PROVE  PayInv'
    BY <1>2, CreateByRouteIsQuiet, QuietKeeps
  <1>3. ASSUME NEW u \in Users, NEW c \in PayCalls, NEW i \in InvoiceIds,
               Preview(c, u, i) \/ Confirm(c, u, i)
        PROVE  PayInv'
    BY <1>3, PreviewIsQuiet, ConfirmIsQuiet, QuietKeeps
  <1>4. ASSUME NEW c \in PayCalls, NEW u, NEW w, NEW i, NEW res \in Resources,
               AskResource(c, u, w, i, res)
        PROVE  PayInv'
    BY <1>4, AskResourceIsQuiet, QuietKeeps
  <1>5. ASSUME NEW c \in PayCalls, GateServes(c)
        PROVE  PayInv'
    BY <1>5, GateServesKeeps
  <1>6. ASSUME NEW c \in PayCalls, GateRefuses(c) \/ GateCharges(c)
        PROVE  PayInv'
    BY <1>6, GateRefusesIsQuiet, GateChargesIsQuiet, QuietKeeps
  <1>7. ASSUME NEW c \in PayCalls, Submit(c) \/ Land(c)
        PROVE  PayInv'
    BY <1>7, SubmitKeeps, LandKeeps
  <1>8. ASSUME NEW c \in PayCalls, PaymentFails(c) \/ Watch(c)
        PROVE  PayInv'
    BY <1>8, PaymentFailsIsQuiet, WatchIsQuiet, QuietKeeps
  <1>9. ASSUME NEW i \in InvoiceIds, BillTimesOut(i)
        PROVE  PayInv'
    BY <1>9, BillTimesOutIsQuiet, QuietKeeps
  <1>10. CASE UNCHANGED x402PayVars
    BY <1>10, SameBillsFollow, SamePayers, QuietKeeps DEF x402PayVars, Quiet, CallsQuiet
  <1>. QED
    BY <1>1, <1>2, <1>3, <1>4, <1>5, <1>6, <1>7, <1>8, <1>9, <1>10 DEF X402PayNext

(* The invariant holds in every reachable state. *)
LEMMA SpecPayInv == X402PaySpec => []PayInv
  BY PayInvInit, PayInvStep, PTL DEF X402PaySpec

(* A resource is served only against its own invoice, paid by the wallet that *)
(* asked (withArcoxX402).                                                     *)
THEOREM SpecServedIsPaid == X402PaySpec => []ServedIsPaid
  <1>1. PayInv => ServedIsPaid
    BY DEF PayInv
  <1>. QED
    BY <1>1, SpecPayInv, PTL

(* An invoice is paid more than once only by transfers that were confirmed    *)
(* before an earlier one had been settled (executeX402Pay).                   *)
THEOREM SpecPaidOnceUnlessBlind == X402PaySpec => []PaidOnceUnlessBlind
  <1>1. PayInv => PaidOnceUnlessBlind
    BY DEF PayInv
  <1>. QED
    BY <1>1, SpecPayInv, PTL
================================================================================
