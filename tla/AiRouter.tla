------------------------------- MODULE AiRouter --------------------------------
(***************************************************************************)
(* The AI Router (aiRouterRoutes.mjs, aiRouterStore.mjs): a chat call that  *)
(* carries an API key asks a provider first and then debits the owner's     *)
(* Unified Balance through the delegate wallet.  The store is one object    *)
(* saved on every change; the answers, the keys in flight and the queue of  *)
(* each wallet live in memory.  A call suspends at every named stage.       *)
(***************************************************************************)
EXTENDS Naturals, Sequences, FiniteSets, FiniteSetsExt, SequencesExt

CONSTANTS
  MaxChats,       \* bound: chat calls of the clients
  MaxKeys,        \* bound: API keys
  Payers,         \* owners
  KeyOwner,       \* the owner of each key
  Idems, NoIdem,  \* idempotency keys
  Cost,           \* the price of a call
  Fees,           \* Gateway fees a spend may carry
  MaxDebit,       \* AI_ROUTER_MAX_TOTAL_DEBIT_USDC
  DailyLimit,     \* AI_ROUTER_DAILY_LIMIT_USDC
  RateMax,        \* AI_ROUTER_REQUESTS_PER_MINUTE
  MaxLogs,        \* the usage logs kept
  MaxChanges,     \* bound: changes of keys and policies by their owners
  RouterFaults    \* bound: clients that leave, answers lost, restarts, and
                  \* times that run out

AiRouterAssumption ==
  /\ MaxChats \in Nat \ {0} /\ NoIdem \notin Idems /\ Idems \cap Nat = {}
  /\ MaxKeys \in Nat \ {0} /\ KeyOwner \in [1 .. MaxKeys -> Payers]
  /\ Fees \subseteq Nat /\ \E most \in Fees : \A fee \in Fees : fee <= most
  /\ {Cost, MaxDebit, DailyLimit, RateMax, MaxLogs, MaxChanges, RouterFaults} \subseteq Nat
ASSUME AiRouterAssumption

(* Calls and keys are numbered in the order they come. *)
Chats == 1 .. MaxChats
ApiKeys == 1 .. MaxKeys
NoChat == 0

VARIABLES
  keys,      \* state.apiKeys: "none", "active" or "revoked"
  policy,    \* state.autoPayPolicy: enabled, and the status of its chain
  wanted,    \* history: the owner's own last choice of Auto Pay
  reverted,  \* history: a readiness refresh wrote an older choice back
  payments,  \* state.payments: the status under each request id
  usage,     \* state.usageLogs of successful calls, newest first
  answers,   \* aiResponseCache
  inflight,  \* aiInflight
  slot,      \* aiOwnerInflight
  chats,     \* the calls and the stage each waits at
  gone,      \* calls whose client has left
  refresh,   \* readiness refreshes under way: the policy each has read
  debits,    \* history: the debits of each call
  blind,     \* history: debited amounts that no usage log shows
  overlaps,  \* history: limit checks passed beside an unlogged call
  gaps,      \* history: outcomes a retry could not see, and paid records that a
             \* call whose client has left wrote over
  users,     \* history: the keys that have used each request id
  overrun,   \* history: calls that lost the wallet's slot before their spend ended
  routerChanges, faults

aiVars == <<keys, policy, wanted, reverted, payments, usage, answers, inflight, slot,
            chats, gone, refresh, debits, blind, overlaps, gaps, users, overrun,
            routerChanges, faults>>
storeVars == <<keys, policy, wanted, reverted>>
callVars == <<payments, usage, answers, inflight, slot, chats, gone>>
historyVars == <<debits, blind, overlaps, gaps, users, overrun>>

ChainStatuses == {"none", "pending", "ready"}
Policy == [enabled : BOOLEAN, chain : ChainStatuses]
NoRefresh == [enabled |-> FALSE, chain |-> "none"]
RequestIds == Idems \cup Chats

(* The stages between the limit check and the end of the call. *)
Between == {"checked", "serving", "queued", "spending", "proving"}

NewCall == [stage |-> "new", idem |-> NoIdem]

AiRouterInit ==
  /\ keys = [k \in ApiKeys |-> "none"]
  /\ policy = [w \in Payers |-> [enabled |-> TRUE, chain |-> "ready"]]
  /\ wanted = [w \in Payers |-> TRUE]
  /\ reverted = [w \in Payers |-> FALSE]
  /\ payments = [r \in RequestIds |-> "none"]
  /\ usage = <<>> /\ answers = {} /\ inflight = {}
  /\ slot = [w \in Payers |-> NoChat]
  /\ chats = [c \in Chats |-> NewCall]
  /\ gone = {}
  /\ refresh = [w \in Payers |-> NoRefresh]
  /\ debits = [c \in Chats |-> 0]
  /\ blind = 0 /\ overlaps = 0 /\ gaps = 0 /\ users = {} /\ overrun = {}
  /\ routerChanges = 0 /\ faults = 0

--------------------------------------------------------------------------------
(* Owners: keys and Auto Pay. *)

ChatAt(c, stage) == chats[c].stage = stage
Change == routerChanges < MaxChanges /\ routerChanges' = routerChanges + 1

(* A key is issued when those before it are revoked or have let a call in (a   *)
(* bound that loses nothing: an unused key waits).                            *)
KeyUsed(k) == keys[k] = "revoked" \/ \E c \in Chats : ~ChatAt(c, "new") /\ chats[c].key = k
IssueKey(k) ==
  /\ keys[k] = "none" /\ \A j \in 1 .. k - 1 : KeyUsed(j)
  /\ keys' = [keys EXCEPT ![k] = "active"]
  /\ UNCHANGED <<policy, wanted, reverted, refresh, callVars, historyVars, routerChanges,
                 faults>>

RevokeKey(k) ==
  /\ keys[k] = "active" /\ Change
  /\ keys' = [keys EXCEPT ![k] = "revoked"]
  /\ UNCHANGED <<policy, wanted, reverted, refresh, callVars, historyVars, faults>>

(* POST /auto-pay: setPolicy takes the owner's word for the chain too. *)
SetPolicy(w, p) ==
  /\ p # policy[w] /\ Change
  /\ policy' = [policy EXCEPT ![w] = p]
  /\ wanted' = [wanted EXCEPT ![w] = p.enabled]
  /\ reverted' = [reverted EXCEPT ![w] = FALSE]
  /\ UNCHANGED <<keys, refresh, callVars, historyVars, faults>>

MayRefresh(p) == p.enabled /\ p.chain # "none"
ChainReads(seen) == IF seen.chain = "pending" THEN ChainStatuses ELSE {seen.chain}

(* refreshAutoPayReadiness writes the choice it has read, whatever it is now. *)
WriteBack(w, seen, chain) ==
  /\ policy' = [policy EXCEPT ![w] = [enabled |-> seen.enabled, chain |-> chain]]
  /\ reverted' = [reverted EXCEPT ![w] = @ \/ (seen.enabled /\ ~wanted[w])]
  /\ UNCHANGED <<keys, wanted>>

(* GET /auto-pay/readiness, and its end. *)
ReadinessStart(w) ==
  /\ refresh[w] = NoRefresh /\ MayRefresh(policy[w])
  /\ refresh' = [refresh EXCEPT ![w] = policy[w]]
  /\ UNCHANGED <<storeVars, callVars, historyVars, faults, routerChanges>>

ReadinessEnd(w) ==
  /\ refresh[w] # NoRefresh
  /\ \E chain \in ChainReads(refresh[w]) : WriteBack(w, refresh[w], chain)
  /\ refresh' = [refresh EXCEPT ![w] = NoRefresh]
  /\ UNCHANGED <<callVars, historyVars, faults, routerChanges>>

--------------------------------------------------------------------------------
(* openAiChatCompletions up to the debit. *)

Owner(c) == KeyOwner[chats[c].key]
RequestId(c) == IF chats[c].idem = NoIdem THEN c ELSE chats[c].idem
CacheKey(c) == <<chats[c].key, chats[c].idem>>
Keyed(c) == chats[c].idem # NoIdem

(* The end of the response: finish and close drop the key and the slot.     *)
Responds(c) ==
  /\ inflight' = IF c \in gone \/ ~Keyed(c) THEN inflight ELSE inflight \ {CacheKey(c)}
  /\ slot' = [w \in Payers |-> IF slot[w] = c THEN NoChat ELSE slot[w]]
Goto(c, stage) == chats' = [chats EXCEPT ![c].stage = stage]
Answer(c) == Goto(c, "done") /\ Responds(c)

(* v[1] + ... + v[n]. *)
SumTo(v, n) == LET sum[m \in Nat] == IF m = 0 THEN 0 ELSE sum[m - 1] + v[m] IN sum[n]

(* Chats of the wallet past their limit check whose debit no log shows yet. *)
Unlogged(w) == {c \in Chats : chats[c].stage \in Between /\ Owner(c) = w}

SpendToday(w) ==
  SumTo([n \in DOMAIN usage |-> IF usage[n].owner = w THEN usage[n].cost ELSE 0], Len(usage))

OverLimitNever(w) == FALSE  \* mutant: the daily limit is not looked at
OverLimit(w) == DailyLimit > 0 /\ SpendToday(w) + Cost > DailyLimit

CheckedIgnoringSwitch(w, p) ==  \* mutant: only the chain is looked at
  IF OverLimit(w) \/ p.chain # "ready" THEN "done" ELSE "checked"
Checked(w, p) ==
  IF OverLimit(w) \/ ~p.enabled \/ p.chain # "ready" THEN "done" ELSE "checked"

CountOverlap(w, stage) ==
  overlaps' = overlaps + (IF stage = "checked" /\ Unlogged(w) # {} THEN 1 ELSE 0)

(* authenticateAiKey: a key of an agent waits for the chain to name its owner. *)
Authenticate(c, k, i) ==
  /\ ChatAt(c, "new") /\ \A d \in 1 .. c - 1 : ~ChatAt(d, "new")
  /\ keys[k] = "active"
  /\ chats' = [chats EXCEPT ![c] = [stage |-> "let_in", key |-> k, idem |-> i,
                                    consent |-> FALSE, seen |-> NoRefresh]]
  /\ UNCHANGED <<storeVars, refresh, payments, usage, answers, inflight, slot, gone,
                 historyVars, faults, routerChanges>>

KeyBusyNever(c) == FALSE  \* mutant: the keys in flight are not looked at
KeyBusy(c) == Keyed(c) /\ CacheKey(c) \in inflight

(* A cached answer, a key in flight and a paid request come first.           *)
TurnedAway(c) ==
  \/ CacheKey(c) \in answers \/ KeyBusy(c)
  \/ Keyed(c) /\ payments[RequestId(c)] = "paid"

Begin(c) ==
  /\ ChatAt(c, "let_in")
  /\ LET w == Owner(c)
         p == policy[w]
         stage == IF TurnedAway(c) THEN "done"
                  ELSE IF p.chain = "pending" /\ MayRefresh(p) THEN "refreshing"
                  ELSE Checked(w, p)
     IN  /\ chats' = [chats EXCEPT ![c].stage = stage,
                                   ![c].seen = IF stage = "refreshing" THEN p ELSE NoRefresh,
                                   ![c].consent = wanted[w] \/ reverted[w]]
         /\ inflight' = IF Keyed(c) /\ stage # "done" /\ c \notin gone
                        THEN inflight \cup {CacheKey(c)} ELSE inflight
         /\ CountOverlap(w, stage)
  /\ UNCHANGED <<storeVars, refresh, payments, usage, answers, slot, gone,
                 debits, blind, gaps, users, overrun, faults, routerChanges>>

(* consumeAiKeyRate: a key that has begun RateMax calls is refused, unless   *)
(* the minute has passed, and then Begin goes on.                            *)
Begun(k) == {d \in Chats : chats[d].stage \notin {"new", "let_in"} /\ chats[d].key = k}
RateRefused(c) ==
  /\ ChatAt(c, "let_in") /\ ~TurnedAway(c)
  /\ Cardinality(Begun(chats[c].key)) >= RateMax
  /\ Goto(c, "done")
  /\ UNCHANGED <<storeVars, refresh, payments, usage, answers, inflight, slot, gone,
                 historyVars, faults, routerChanges>>

(* The call goes on with the policy its own refresh has written. *)
GoesOnWith(c, chain) ==
  LET w == Owner(c)
      stage == Checked(w, [enabled |-> TRUE, chain |-> chain])
  IN  /\ WriteBack(w, chats[c].seen, chain)
      /\ chats' = [chats EXCEPT ![c].stage = stage, ![c].seen = NoRefresh,
                                ![c].consent = wanted[w] \/ reverted'[w]]
      /\ CountOverlap(w, stage)
      /\ IF stage = "done" THEN Responds(c) ELSE UNCHANGED <<inflight, slot>>

Refreshed(c) ==
  /\ ChatAt(c, "refreshing")
  /\ \E chain \in ChainReads(chats[c].seen) : GoesOnWith(c, chain)
  /\ UNCHANGED <<refresh, payments, usage, answers, gone, debits, blind, gaps, users,
                 overrun, faults, routerChanges>>

(* Two providers, in the order of the request (selectProviders). *)
Queue == 1 .. 2

Pay(c, status) == payments' = [payments EXCEPT ![RequestId(c)] = status]

(* A call that was left goes on, and a retry may have been paid meanwhile.   *)
PaysOver(c) == c \in gone /\ payments[RequestId(c)] = "paid"
CountGap(more) == gaps' = gaps + (IF more THEN 1 ELSE 0)

Failed(c) == Pay(c, "failed") /\ Answer(c)
ChatFails(c) == Failed(c) /\ CountGap(PaysOver(c))

(* What asking a provider for its models gives: the model among them, a list  *)
(* without it, no list, or an error; a provider of the queue that lists it or *)
(* lists nothing will do (validateChatCompletionRoute).                     *)
ModelLists == {"listed", "unlisted", "empty", "down"}
RouteValid(lists) == \E n \in DOMAIN lists : lists[n] \in {"listed", "empty"}

(* createPaymentIntent: over any record of the request id. *)
Opens(c) ==
  /\ Pay(c, "open") /\ CountGap(PaysOver(c))
  /\ users' = users \cup {<<RequestId(c), chats[c].key>>}

Routed(c) ==
  /\ ChatAt(c, "checked")
  /\ \E lists \in [Queue -> ModelLists] :
       IF RouteValid(lists)
       THEN Opens(c) /\ Goto(c, "serving") /\ UNCHANGED <<inflight, slot>>
       ELSE Answer(c) /\ UNCHANGED <<payments, users, gaps>>
  /\ UNCHANGED <<storeVars, refresh, usage, answers, gone, debits, blind, overlaps,
                 overrun, faults, routerChanges>>

(* sanitizeUsageLog, as far as the limit reads it. *)
LogEntry(w, cost) == [owner |-> w, cost |-> cost]

(* addUsageLog: what falls off the end is forgotten by the limit. *)
LogCallKeepsAll(w, cost, more) ==  \* a plausible slip: the list is not cut
  /\ usage' = <<LogEntry(w, cost)>> \o usage
  /\ blind' = blind + more
LogCall(w, cost, more) ==
  LET all == <<LogEntry(w, cost)>> \o usage
  IN  /\ usage' = SubSeq(all, 1, Min({MaxLogs, Len(all)}))
      /\ blind' = blind + more + (IF Len(all) > MaxLogs THEN Last(all).cost ELSE 0)

(* callChatCompletionWithFallback over the queue of providers: the first     *)
(* answer that is not a reason to try the next one decides.                 *)
ProviderAnswers == {"ok", "transient", "rejected"}
Decided(queue) == \E n \in DOMAIN queue :
  queue[n] = "ok" /\ \A m \in 1 .. n - 1 : queue[m] = "transient"

(* estimateDelegatedAiSpend: the price and the fees of the chains drawn on.   *)
Estimates == {Cost + fee : fee \in Fees}

(* The estimate, held against the cap, and then the provider.               *)
Served(c) ==
  /\ ChatAt(c, "serving")
  /\ \E total \in Estimates, queue \in [Queue -> ProviderAnswers] :
       IF total <= MaxDebit /\ Decided(queue)
       THEN /\ Goto(c, "queued")
            /\ UNCHANGED <<payments, inflight, slot, usage, blind, gaps>>
       ELSE ChatFails(c) /\ (IF total <= MaxDebit THEN LogCall(Owner(c), 0, 0)
                         ELSE UNCHANGED <<usage, blind>>)
  /\ UNCHANGED <<storeVars, refresh, answers, gone, debits, overlaps,
                 users, overrun, faults, routerChanges>>

EstimateFails(c) ==
  /\ ChatAt(c, "serving") /\ ChatFails(c)
  /\ UNCHANGED <<storeVars, refresh, usage, answers, gone, debits, blind, overlaps,
                 users, overrun, faults, routerChanges>>

--------------------------------------------------------------------------------
(* acquireAiOwnerSlot and the debit. *)

SlotFreeAlways(w) == TRUE  \* mutant: the queue of the wallet is not respected
SlotFree(w) == slot[w] = NoChat

(* Every 150 ms: cancelled, next, or still waiting; 120 seconds at most. *)
Dequeued(c) ==
  /\ ChatAt(c, "queued")
  /\ \/ c \in gone /\ ChatFails(c)
     \/ /\ c \notin gone /\ SlotFree(Owner(c))
        /\ slot' = [slot EXCEPT ![Owner(c)] = c]
        /\ Goto(c, "spending")
        /\ UNCHANGED <<payments, inflight, gaps>>
     \/ /\ c \notin gone /\ ~SlotFree(Owner(c))
        /\ ChatFails(c)
  /\ UNCHANGED <<storeVars, refresh, usage, answers, gone, debits, blind, overlaps,
                 users, overrun, faults, routerChanges>>

Trouble == faults < RouterFaults /\ faults' = faults + 1

(* spendDelegatedUnifiedBalance estimates again when the fee has moved, and  *)
(* does not hold the new fee against the cap.                               *)
Spent(c) ==
  /\ ChatAt(c, "spending")
  /\ \E total \in Estimates : debits' = [debits EXCEPT ![c] = total]
  /\ Goto(c, "proving")
  /\ slot' = [w \in Payers |-> IF slot[w] = c THEN NoChat ELSE slot[w]]
  /\ UNCHANGED <<storeVars, refresh, payments, usage, answers, inflight, gone,
                 blind, overlaps, gaps, users, overrun, faults, routerChanges>>

NotSpent(c) ==
  /\ ChatAt(c, "spending") /\ ChatFails(c)
  /\ UNCHANGED <<storeVars, refresh, usage, answers, gone, debits, blind, overlaps,
                 users, overrun, faults, routerChanges>>

(* The Gateway has debited the wallet and its answer is lost. *)
SpentUnheard(c) ==
  /\ ChatAt(c, "spending") /\ Trouble
  /\ Failed(c)
  /\ \E total \in Estimates :
       /\ debits' = [debits EXCEPT ![c] = total]
       /\ blind' = blind + total
  /\ CountGap(TRUE)
  /\ UNCHANGED <<storeVars, refresh, usage, answers, gone, overlaps, users,
                 overrun, routerChanges>>

(* The memo proof is waited for, with or without success; then all is saved. *)
Settled(c) ==
  /\ ChatAt(c, "proving")
  /\ Pay(c, "paid")
  /\ LogCall(Owner(c), debits[c], 0)
  /\ answers' = IF Keyed(c) THEN answers \cup {CacheKey(c)} ELSE answers
  /\ Answer(c)
  /\ UNCHANGED <<storeVars, refresh, gone, debits, overlaps, gaps, users,
                 overrun, faults, routerChanges>>

--------------------------------------------------------------------------------
(* Clients, time and the process. *)

ClientLeaves(c) ==
  /\ chats[c].stage \in Between \cup {"refreshing"} /\ c \notin gone /\ Trouble
  /\ gone' = gone \cup {c}
  /\ Responds(c)
  /\ overrun' = IF c \in {slot[w] : w \in Payers} THEN overrun \cup {c} ELSE overrun
  /\ CountGap(TRUE)
  /\ UNCHANGED <<storeVars, refresh, payments, usage, answers, chats,
                 debits, blind, overlaps, users, routerChanges>>

(* AI_ROUTER_WALLET_LOCK_TTL_MS. *)
SlotExpires(w) ==
  /\ slot[w] # NoChat /\ Trouble
  /\ slot' = [slot EXCEPT ![w] = NoChat]
  /\ overrun' = overrun \cup {slot[w]}
  /\ UNCHANGED <<storeVars, refresh, payments, usage, answers, inflight, chats, gone,
                 debits, blind, overlaps, gaps, users, routerChanges>>

(* AI_ROUTER_IDEMPOTENCY_TTL_SECONDS, or more than 100 answers. *)
AnswerExpires(a) ==
  /\ Trouble
  /\ answers' = answers \ {a}
  /\ UNCHANGED <<storeVars, refresh, payments, usage, inflight, slot, chats, gone,
                 historyVars, routerChanges>>

(* The store is on disk; the debits of spends under way may have landed.    *)
RouterRestarts ==
  /\ Trouble
  /\ \E landed \in SUBSET {c \in Chats : ChatAt(c, "spending")}, fee \in Fees :
       LET lost == landed \cup {c \in Chats : ChatAt(c, "proving")} IN
       /\ debits' = [c \in Chats |-> IF c \in landed THEN Cost + fee ELSE debits[c]]
       /\ blind' = blind + SumTo([c \in Chats |-> IF c \in lost THEN debits'[c] ELSE 0], MaxChats)
       /\ gaps' = gaps + Cardinality(lost)
  /\ chats' = [c \in Chats |-> IF ChatAt(c, "new") THEN chats[c]
                        ELSE [chats[c] EXCEPT !.stage = "done"]]
  /\ refresh' = [w \in Payers |-> NoRefresh]
  /\ answers' = {} /\ inflight' = {}
  /\ slot' = [w \in Payers |-> NoChat]
  /\ UNCHANGED <<storeVars, payments, usage, gone, overlaps, users, overrun, routerChanges>>

AiRouterNext ==
  \/ \E k \in ApiKeys : IssueKey(k) \/ RevokeKey(k)
  \/ \E w \in Payers :
       \/ \E p \in Policy : SetPolicy(w, p)
       \/ ReadinessStart(w) \/ ReadinessEnd(w) \/ SlotExpires(w)
  \/ \E c \in Chats :
       \/ \E k \in ApiKeys, i \in Idems \cup {NoIdem} : Authenticate(c, k, i)
       \/ Begin(c) \/ RateRefused(c) \/ Refreshed(c) \/ Routed(c) \/ EstimateFails(c)
       \/ Served(c) \/ Dequeued(c) \/ Spent(c) \/ NotSpent(c) \/ SpentUnheard(c)
       \/ Settled(c) \/ ClientLeaves(c)
  \/ \E a \in answers : AnswerExpires(a)
  \/ RouterRestarts

AiRouterSpec == AiRouterInit /\ [][AiRouterNext]_aiVars

--------------------------------------------------------------------------------
AiRouterTypeOK ==
  /\ keys \in [ApiKeys -> {"none", "active", "revoked"}]
  /\ policy \in [Payers -> Policy] /\ refresh \in [Payers -> Policy]
  /\ payments \in [RequestIds -> {"none", "open", "failed", "paid"}]
  /\ Len(usage) <= MaxLogs
  /\ answers \cup inflight \subseteq ApiKeys \X (Idems \cup {NoIdem})
  /\ slot \in [Payers -> Chats \cup {NoChat}]
  /\ \A c \in Chats : chats[c].stage \in Between \cup {"new", "let_in", "refreshing", "done"}
  /\ gone \cup overrun \subseteq Chats
  /\ routerChanges \in 0 .. MaxChanges /\ faults \in 0 .. RouterFaults

Debited == {c \in Chats : debits[c] > 0}

(* A retried identical request is not charged twice (README.md:225): calls   *)
(* with one API key and one idempotency key are debited once, and once more  *)
(* only for each call whose client left, whose debit was not heard of, or    *)
(* that went on after its client had left and wrote over the paid record of  *)
(* a retry (createPaymentIntent and the failures write whatever is there).   *)
(* The payment record is shared by all keys that send one idempotency key,   *)
(* and a failure under one key takes back what the other has paid.           *)
ChargedOnce ==
  \A k \in ApiKeys, i \in Idems :
    (\A j \in ApiKeys \ {k} : <<i, j>> \notin users) =>
      Cardinality({c \in Debited : CacheKey(c) = <<k, i>>}) <= 1 + gaps

(* Without the exception: the disconnect of a client frees the key and the   *)
(* wallet while its debit is under way, and the retry pays again.            *)
RetryIsNotCharged ==
  \A c, d \in Debited : Keyed(c) /\ Keyed(d) /\ CacheKey(c) = CacheKey(d) => c = d

(* Per-owner payment serialization (docs/mainnet-security.md:16): the spends *)
(* of a wallet exclude each other unless one has lost its slot, because its  *)
(* lock ran out or its client left.                                         *)
OneSpendPerWallet ==
  \A c, d \in Chats :
    (c # d /\ ChatAt(c, "spending") /\ ChatAt(d, "spending") /\ Owner(c) = Owner(d)) =>
      c \in overrun \/ d \in overrun

(* A call is debited only if Auto Pay was on by the owner's own choice when  *)
(* the call last looked, or a readiness refresh that had read the policy     *)
(* before the owner switched it off has written it back (:708).             *)
ChargeNeedsConsent == \A c \in Debited : chats[c].consent

(* The daily limit is checked before the provider is asked and the debit is  *)
(* logged after: the debits of a day pass the limit by one fee, by a debit   *)
(* for every call that was checked beside an unlogged one, and by what the   *)
(* logs have lost.                                                          *)
DebitedOf(w) ==
  SumTo([c \in Chats |-> IF c \in Debited /\ Owner(c) = w THEN debits[c] ELSE 0], MaxChats)
LimitOvershoot ==
  DailyLimit > 0 =>
    \A w \in Payers :
      DebitedOf(w) <= DailyLimit + Max(Fees) + overlaps * (Cost + Max(Fees)) + blind
================================================================================
