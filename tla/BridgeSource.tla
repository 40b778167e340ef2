----------------------------- MODULE BridgeSource -----------------------------
(***************************************************************************)
(* The source half of the CCTP bridge of the MCP server (mcpServer.mjs):    *)
(* one wallet and one route.  A quote is live in memory; an execution       *)
(* writes an intent among the approvals of the vault, submits the approve   *)
(* operation, waits, and submits the burn.  Quotes, executions and status   *)
(* polls of one wallet interleave at their awaits.                          *)
(***************************************************************************)
EXTENDS Naturals, Sequences, FiniteSets, SequencesExt

CONSTANTS
  Executions, NoOperation, \* execution calls, which also name their operations
  Pollers,                 \* status calls
  Previews,                \* the preview ids a quote may get
  BridgeFaults             \* bound: restarts, and submissions without an answer

BridgeSourceAssumption ==
  /\ NoOperation \notin Executions /\ Executions \cap Pollers = {}
  /\ BridgeFaults \in Nat
ASSUME BridgeSourceAssumption

VARIABLES
  quotes,      \* executionQuotes: "none", "asked", "live" or "gone"
  intents,     \* the bridge approvals of the wallet, oldest first
  executions,  \* the calls and the stage each waits at
  approveOps,  \* the approve operations on the source chain
  burnOps,     \* the burn operations on the source chain
  minted,      \* burns whose message the destination has used
  superseded,  \* history: intents a newer quote has superseded
  crossed,     \* history: intents written over by a call that had read them
               \* before their last change, or that a quote took from a call
  resumed,     \* history: calls that burn on an approval they did not submit
  reused,      \* history: intents begun after an earlier one of the quote ended
  bridgeFaults

sourceVars == <<quotes, intents, executions, approveOps, burnOps, minted, superseded, crossed,
                resumed, reused, bridgeFaults>>

OpStates == {"none", "inflight", "landed", "reverted"}
ApprovalPhases == {"source_approval_unknown", "source_approval_submitted",
                   "source_approval_confirmed"}
PendingPhases == ApprovalPhases \cup
  {"source_intent_created", "source_submission_unknown", "source_submitted", "source_confirmed"}
FailedPhases == {"source_approval_failed", "source_submission_failed",
                 "source_approval_superseded"}

(* An approval of the vault: its two operation hashes, whether it has a burn *)
(* hash, whether a webhook has given it a transaction, and whether it is     *)
(* safe to retry for a reason that ends the operation.                      *)
Intent ==
  [id : Executions, preview : Previews, status : {"pending_confirmation", "error", "success"},
   phase : PendingPhases \cup FailedPhases, approve : Executions \cup {NoOperation},
   burn : Executions \cup {NoOperation}, burnTx : BOOLEAN, hinted : BOOLEAN,
   safe : BOOLEAN, terminal : BOOLEAN]

BridgeSourceInit ==
  /\ quotes = [p \in Previews |-> "none"]
  /\ intents = <<>>
  /\ executions = [e \in Executions \cup Pollers |-> [stage |-> "new"]]
  /\ approveOps = [e \in Executions |-> "none"]
  /\ burnOps = [e \in Executions |-> "none"]
  /\ minted = {} /\ superseded = {} /\ crossed = {} /\ resumed = {} /\ reused = {}
  /\ bridgeFaults = 0

BridgeFault == bridgeFaults < BridgeFaults /\ bridgeFaults' = bridgeFaults + 1

ExecAt(e, stage) == executions[e].stage = stage
ExecGoes(e, rec) == executions' = [executions EXCEPT ![e] = rec]
ExecEnds(e) == ExecGoes(e, [stage |-> "done"])

IndexOf(id) == CHOOSE n \in DOMAIN intents : intents[n].id = id
Current(id) == intents[IndexOf(id)]
WriteIntent(rec) == intents' = [intents EXCEPT ![IndexOf(rec.id)] = rec]

--------------------------------------------------------------------------------
(* classifySourceBridgeBurn and hasUnresolvedSourceBridgeIntent. *)

Classify(i) ==
  IF i.burnTx THEN "burn_confirmed"
  ELSE IF i.burn # NoOperation
       THEN IF i.safe /\ i.terminal THEN "burn_failed" ELSE "burn_unresolved"
  ELSE IF i.phase \in FailedPhases /\ i.safe /\ i.terminal THEN "burn_failed"
  ELSE IF i.phase = "source_approval_superseded" THEN "none" ELSE "burn_unresolved"

UnknownSubmissionNever(i) == FALSE  \* mutant: only the status decides
UnknownSubmission(i) ==
  \/ i.phase = "source_submission_unknown"
  \/ i.phase = "source_submission_failed" /\ Classify(i) = "burn_unresolved"

BlocksQuotes(i) ==
  /\ i.status # "success"
  /\ \/ Classify(i) = "burn_confirmed"
     \/ /\ Classify(i) = "burn_unresolved"
        /\ \/ UnknownSubmission(i)
           \/ i.status = "pending_confirmation" /\ i.phase \in PendingPhases

Blocking == {n \in DOMAIN intents : BlocksQuotes(intents[n])}
FirstOf(S) == CHOOSE n \in S : \A m \in S : n <= m

(* isStaleApprovalOnlySourceIntent. *)
ApprovalOnly(i) ==
  i.phase \in ApprovalPhases /\ i.burn = NoOperation /\ ~i.burnTx /\ ~i.hinted

(* arcox_quote_bridge: the first blocking intent is reconciled, superseded,  *)
(* or a reason to refuse; nothing looks for a second one.                   *)
SupersedesAny(i) == TRUE  \* mutant: whatever blocks is superseded
Supersedes(i) == ApprovalOnly(i)

Settled(i) == i.burnTx /\ i.burn \in minted
SupersedingByStatus(i) ==  \* a plausible slip: a status that no reader knows
  [i EXCEPT !.status = "source_approval_superseded", !.safe = TRUE]
Superseding(i) ==
  [i EXCEPT !.status = "error", !.phase = "source_approval_superseded", !.safe = TRUE]

QuoteAsk(p) ==
  /\ quotes[p] = "none"
  /\ \/ Blocking = {} /\ UNCHANGED <<intents, superseded, crossed>>
     \/ /\ Blocking # {}
        /\ LET i == intents[FirstOf(Blocking)] IN
           \/ /\ Settled(i)
              /\ WriteIntent([i EXCEPT !.status = "success"])
              /\ UNCHANGED <<superseded, crossed>>
           \/ /\ ~Settled(i) /\ Supersedes(i)
              /\ WriteIntent(Superseding(i))
              /\ superseded' = superseded \cup {i.id}
              /\ crossed' = IF \E e \in DOMAIN executions :
                                 executions[e].stage \in {"polling", "burning", "watching"}
                                   /\ executions[e].intent = i.id
                            THEN crossed \cup {i.id} ELSE crossed
  /\ quotes' = [quotes EXCEPT ![p] = "asked"]
  /\ UNCHANGED <<executions, approveOps, burnOps, minted, resumed, reused, bridgeFaults>>

(* The fees are read, and createExecutionQuote; or the quote fails. *)
QuoteAnswered(p) ==
  /\ quotes[p] = "asked"
  /\ \E answer \in {"live", "gone"} : quotes' = [quotes EXCEPT ![p] = answer]
  /\ UNCHANGED <<intents, executions, approveOps, burnOps, minted, superseded, crossed, resumed,
                 reused, bridgeFaults>>

(* Five minutes. *)
QuoteExpires(p) ==
  /\ quotes[p] = "live"
  /\ quotes' = [quotes EXCEPT ![p] = "gone"]
  /\ UNCHANGED <<intents, executions, approveOps, burnOps, minted, superseded, crossed, resumed,
                 reused, bridgeFaults>>

--------------------------------------------------------------------------------
(* arcox_execute_bridge. *)

Execute(e, p) ==
  /\ ExecAt(e, "new") /\ quotes[p] = "live"
  /\ ExecGoes(e, [stage |-> "checking", preview |-> p])
  /\ UNCHANGED <<quotes, intents, approveOps, burnOps, minted, superseded, crossed, resumed,
                 reused, bridgeFaults>>

(* findPendingSourceIntent. *)
PendingForNone(p) == {}  \* mutant: an earlier intent of the quote is not looked for
PendingFor(p) ==
  {n \in DOMAIN intents : intents[n].preview = p /\ intents[n].status = "pending_confirmation"
                          /\ intents[n].phase \in PendingPhases}

NewIntent(e, p) ==
  [id |-> e, preview |-> p, status |-> "pending_confirmation", phase |-> "source_intent_created",
   approve |-> NoOperation, burn |-> NoOperation, burnTx |-> FALSE, hinted |-> FALSE,
   safe |-> FALSE, terminal |-> FALSE]

OperationOf(i) == IF i.burn # NoOperation THEN i.burn ELSE i.approve

ExecuteChecked(e) ==
  /\ ExecAt(e, "checking")
  /\ LET p == executions[e].preview IN
     \/ quotes[p] # "live" /\ ExecEnds(e) /\ UNCHANGED <<intents, reused>>
     \/ /\ quotes[p] = "live" /\ PendingFor(p) = {}
        /\ intents' = Append(intents, NewIntent(e, p))
        /\ reused' = IF \E n \in DOMAIN intents :
                           intents[n].preview = p /\ intents[n].status # "pending_confirmation"
                     THEN reused \cup {e} ELSE reused
        /\ ExecGoes(e, [stage |-> "approving", intent |-> e])
     \/ /\ quotes[p] = "live" /\ PendingFor(p) # {}
        /\ LET i == intents[FirstOf(PendingFor(p))] IN
             IF OperationOf(i) = NoOperation THEN ExecEnds(e)
             ELSE ExecGoes(e, [stage |-> "polling", intent |-> i.id, seen |-> i])
        /\ UNCHANGED <<intents, reused>>
  /\ UNCHANGED <<quotes, approveOps, burnOps, minted, superseded, crossed, resumed, bridgeFaults>>

QuoteUsed(p) == quotes' = [quotes EXCEPT ![p] = "gone"]

(* A write of what was read before a wait, with its changes.                 *)
WriteBackIntent(seen, rec) ==
  /\ WriteIntent(rec)
  /\ crossed' = IF Current(seen.id) = seen THEN crossed ELSE crossed \cup {seen.id}

OpState(i) == IF i.burn # NoOperation THEN burnOps[i.burn] ELSE approveOps[i.approve]

(* getUserOpStatus of the stored operation; an unusable answer ends the call. *)
ExecutePolled(e) ==
  /\ ExecAt(e, "polling")
  /\ LET i == executions[e].seen
         burning == i.burn # NoOperation
     IN
     \/ ExecEnds(e) /\ UNCHANGED <<quotes, intents, crossed, resumed>>
     \/ /\ OpState(i) = "landed" /\ burning
        /\ WriteBackIntent(i, [i EXCEPT !.burnTx = TRUE, !.phase = "source_confirmed",
                                        !.hinted = TRUE, !.status = "pending_confirmation"])
        /\ ExecEnds(e) /\ UNCHANGED <<quotes, resumed>>
     \/ /\ OpState(i) = "landed" /\ ~burning
        /\ WriteBackIntent(i, [i EXCEPT !.phase = "source_approval_confirmed"])
        /\ ExecGoes(e, [stage |-> "burning", intent |-> i.id])
        /\ resumed' = resumed \cup {e}
        /\ UNCHANGED quotes
     \/ /\ OpState(i) = "reverted"
        /\ WriteBackIntent(i, [i EXCEPT !.status = "error", !.safe = TRUE,
             !.phase = IF burning THEN "source_submission_failed" ELSE "source_approval_failed"])
        /\ QuoteUsed(i.preview) /\ ExecEnds(e) /\ UNCHANGED resumed
  /\ UNCHANGED <<approveOps, burnOps, minted, superseded, reused, bridgeFaults>>

(* What executeViaSession of an operation may answer, with the state of the  *)
(* operation then: refused before it was accepted, mined, not mined in time  *)
(* (or its receipt not readable), or no answer to the submission at all.     *)
Answers ==
  {[answer |-> "precheck", op |-> "none"], [answer |-> "success", op |-> "landed"],
   [answer |-> "failed", op |-> "reverted"]}
  \cup [answer : {"pending", "receiptless"}, op : {"inflight"}]
  \cup {[answer |-> "unanswered", op |-> "none"], [answer |-> "unanswered", op |-> "inflight"],
        [answer |-> "unhashed", op |-> "landed"]}

MayAnswer(a) ==
  IF a.answer \in {"unanswered", "receiptless"} THEN BridgeFault ELSE UNCHANGED bridgeFaults

Approved(e) ==
  /\ ExecAt(e, "approving")
  /\ \E a \in {x \in Answers : x.answer # "unhashed"} :
       /\ MayAnswer(a)
       /\ approveOps' = [approveOps EXCEPT ![e] = a.op]
       /\ LET i == Current(executions[e].intent)
              hashed == [i EXCEPT !.approve = e, !.status = "pending_confirmation"]
          IN
          \/ /\ a.answer = "success"
             /\ WriteIntent([hashed EXCEPT !.phase = "source_approval_confirmed"])
             /\ ExecGoes(e, [stage |-> "burning", intent |-> i.id])
             /\ UNCHANGED quotes
          \/ /\ a.answer \in {"pending", "receiptless"}
             /\ WriteIntent([hashed EXCEPT !.phase = "source_approval_submitted"])
             /\ ExecEnds(e) /\ UNCHANGED quotes
          \/ /\ a.answer = "unanswered"
             /\ WriteIntent([i EXCEPT !.phase = "source_approval_unknown"])
             /\ ExecEnds(e) /\ UNCHANGED quotes
          \/ /\ a.answer \in {"precheck", "failed"}
             /\ WriteIntent([i EXCEPT !.phase = "source_approval_failed", !.status = "error",
                  !.approve = IF a.answer = "failed" THEN e ELSE NoOperation,
                  !.safe = (a.answer = "precheck"), !.terminal = TRUE])
             /\ QuoteUsed(i.preview) /\ ExecEnds(e)
  /\ UNCHANGED <<burnOps, minted, superseded, crossed, resumed, reused>>

(* The burn answers; a call that throws leaves its quote alive. *)
Burned(e) ==
  /\ ExecAt(e, "burning")
  /\ \E a \in Answers :
       /\ MayAnswer(a)
       /\ burnOps' = [burnOps EXCEPT ![e] = a.op]
       /\ LET i == Current(executions[e].intent)
              failed == a.answer \in {"precheck", "failed", "unhashed"}
              over == [i EXCEPT !.burn = IF a.answer \in {"precheck", "unanswered"}
                                         THEN NoOperation ELSE e,
                                !.safe = a.answer \in {"precheck", "failed"},
                                !.terminal = a.answer \in {"precheck", "failed"},
                                !.status = IF failed THEN "error" ELSE "pending_confirmation"]
          IN
          /\ WriteIntent(
               IF a.answer = "success"
               THEN [over EXCEPT !.burnTx = TRUE, !.hinted = TRUE, !.phase = "source_confirmed"]
               ELSE IF a.answer = "pending"
               THEN [over EXCEPT !.burnTx = FALSE, !.phase = "source_submitted"]
               ELSE IF a.answer = "receiptless" THEN [over EXCEPT !.phase = "source_submitted"]
               ELSE IF a.answer = "unanswered"
               THEN [over EXCEPT !.phase = "source_submission_unknown"]
               ELSE [over EXCEPT !.burnTx = FALSE, !.phase = "source_submission_failed"])
          /\ IF a.answer \in {"unanswered", "receiptless"} THEN UNCHANGED quotes
             ELSE QuoteUsed(i.preview)
          /\ ExecGoes(e, [stage |-> "done", intent |-> i.id])
  /\ UNCHANGED <<approveOps, minted, superseded, crossed, resumed, reused>>

--------------------------------------------------------------------------------
(* arcox_get_request polls an intent, but not one whose submission has no    *)
(* hash, and writes what it read with the answer.                           *)
Watch(e, id) ==
  /\ ExecAt(e, "new") /\ id \in {intents[n].id : n \in DOMAIN intents}
  /\ LET i == Current(id) IN
     /\ i.status = "pending_confirmation"
     /\ i.burn # NoOperation \/ (i.approve # NoOperation /\ i.phase \in ApprovalPhases)
     /\ ExecGoes(e, [stage |-> "watching", intent |-> id, seen |-> i])
  /\ UNCHANGED <<quotes, intents, approveOps, burnOps, minted, superseded, crossed, resumed,
                 reused, bridgeFaults>>

Watched(e) ==
  /\ ExecAt(e, "watching") /\ ExecEnds(e)
  /\ LET i == executions[e].seen
         approving == i.burn = NoOperation
     IN
     \/ UNCHANGED <<intents, crossed>>
     \/ /\ OpState(i) = "landed" /\ approving
        /\ WriteBackIntent(i, [i EXCEPT !.phase = "source_approval_confirmed"])
     \/ /\ OpState(i) = "reverted" /\ approving
        /\ WriteBackIntent(i, [i EXCEPT !.phase = "source_approval_failed", !.status = "error",
                                        !.safe = TRUE])
     \/ /\ OpState(i) = "landed" /\ ~approving
        /\ \E status \in {"pending_confirmation", "error"} \cup
                         (IF i.burn \in minted THEN {"success"} ELSE {}) :
             WriteBackIntent(i, [i EXCEPT !.burnTx = TRUE, !.hinted = TRUE, !.status = status])
     \/ /\ OpState(i) = "reverted" /\ ~approving
        /\ WriteBackIntent(i, [i EXCEPT !.status = "error"])
  /\ UNCHANGED <<quotes, approveOps, burnOps, minted, superseded, resumed, reused, bridgeFaults>>

(* reconcileCircleWalletWebhook: the notification of an operation whose hash *)
(* an intent shows, in a status that is not final.                          *)
Notified(id) ==
  /\ LET i == Current(id) IN
     /\ OperationOf(i) # NoOperation /\ OpState(i) \in {"landed", "reverted"}
     /\ ~i.hinted
     /\ WriteIntent([i EXCEPT !.hinted = TRUE,
          !.status = IF @ # "pending_confirmation" \/ OpState(i) = "landed" THEN @ ELSE "error"])
  /\ UNCHANGED <<quotes, executions, approveOps, burnOps, minted, superseded, crossed, resumed,
                 reused, bridgeFaults>>

(* The destination mint of a recorded burn marks its intent. *)
MintRecorded(id) ==
  /\ Current(id).burnTx /\ Current(id).burn \in minted /\ Current(id).status # "success"
  /\ WriteIntent([Current(id) EXCEPT !.status = "success"])
  /\ UNCHANGED <<quotes, executions, approveOps, burnOps, minted, superseded, crossed, resumed,
                 reused, bridgeFaults>>

(* The chains. *)
SourceMines(e) ==
  /\ \/ /\ approveOps[e] = "inflight"
        /\ \E s \in {"landed", "reverted"} : approveOps' = [approveOps EXCEPT ![e] = s]
        /\ UNCHANGED burnOps
     \/ /\ burnOps[e] = "inflight"
        /\ \E s \in {"landed", "reverted"} : burnOps' = [burnOps EXCEPT ![e] = s]
        /\ UNCHANGED approveOps
  /\ UNCHANGED <<quotes, intents, executions, minted, superseded, crossed, resumed, reused,
                 bridgeFaults>>

DestinationMints(e) ==
  /\ burnOps[e] = "landed" /\ e \notin minted
  /\ minted' = minted \cup {e}
  /\ UNCHANGED <<quotes, intents, executions, approveOps, burnOps, superseded, crossed, resumed,
                 reused, bridgeFaults>>

(* Quotes and calls are lost; operations under way may have been accepted.   *)
BridgeRestarts ==
  /\ BridgeFault
  /\ quotes' = [p \in Previews |-> IF quotes[p] = "none" THEN "none" ELSE "gone"]
  /\ \E lost \in SUBSET {e \in Executions : ExecAt(e, "approving")} :
       approveOps' = [e \in Executions |-> IF e \in lost THEN "inflight" ELSE approveOps[e]]
  /\ \E lost \in SUBSET {e \in Executions : ExecAt(e, "burning")} :
       burnOps' = [e \in Executions |-> IF e \in lost THEN "inflight" ELSE burnOps[e]]
  /\ crossed' = crossed \cup {executions[e].intent : e \in {x \in Executions : ExecAt(x, "burning")}}
  /\ executions' = [e \in DOMAIN executions |->
       IF ExecAt(e, "new") \/ ExecAt(e, "done") THEN executions[e]
       ELSE IF ExecAt(e, "burning") THEN [executions[e] EXCEPT !.stage = "done"]
       ELSE [stage |-> "done"]]
  /\ UNCHANGED <<intents, minted, superseded, resumed, reused>>

BridgeSourceNext ==
  \/ \E p \in Previews : QuoteAsk(p) \/ QuoteAnswered(p) \/ QuoteExpires(p)
  \/ \E e \in Executions :
       \/ \E p \in Previews : Execute(e, p)
       \/ ExecuteChecked(e) \/ ExecutePolled(e) \/ Approved(e) \/ Burned(e)
       \/ SourceMines(e) \/ DestinationMints(e)
  \/ \E e \in Pollers : Watched(e) \/ \E id \in Executions : Watch(e, id)
  \/ \E n \in DOMAIN intents : Notified(intents[n].id) \/ MintRecorded(intents[n].id)
  \/ BridgeRestarts

BridgeSourceSpec == BridgeSourceInit /\ [][BridgeSourceNext]_sourceVars

--------------------------------------------------------------------------------
(* Type invariant of the quotes, the intents and the operations. *)
BridgeSourceTypeOK ==
  /\ quotes \in [Previews -> {"none", "asked", "live", "gone"}]
  /\ Range(intents) \subseteq Intent
  /\ approveOps \in [Executions -> OpStates] /\ burnOps \in [Executions -> OpStates]
  /\ minted \cup superseded \cup crossed \cup resumed \cup reused \subseteq Executions
  /\ bridgeFaults \in 0 .. BridgeFaults

AliveBurns == {e \in Executions : burnOps[e] \in {"inflight", "landed"}}
BurnedIntent(e) == executions[e].intent
BurnedPreview(e) == Current(BurnedIntent(e)).preview

(* A quote is burned once: of two burns of one preview that may land, one    *)
(* came from a call that resumed an intent without a burn hash - the burn of *)
(* the other was under way, or had no answer (mcpServer.mjs:3211) - or that  *)
(* found the earlier intent ended, superseded or failed or minted, and the   *)
(* quote alive, as a submission that throws leaves it (:3307).              *)
OneBurnPerQuote ==
  \A c, d \in AliveBurns :
    (c # d /\ BurnedPreview(c) = BurnedPreview(d)) => {c, d} \cap (resumed \cup reused) # {}

(* "Any accepted hash, timeout, or hashless record without a proven terminal *)
(* failure remains fail-closed" (mcpServer.mjs:1846): a burn that may land   *)
(* and has not minted refuses every new quote, unless its call was cut by a  *)
(* restart, or another call resumed its intent or wrote over it.            *)
Resumed == {BurnedIntent(e) : e \in resumed}
AliveBurnBlocks ==
  (\E e \in AliveBurns \ minted :
     ExecAt(e, "done") /\ BurnedIntent(e) \notin crossed \cup Resumed) => Blocking # {}

(* An approval-only intent "cannot create a CCTP burn, so it is safe to      *)
(* supersede" (mcpServer.mjs:1941): no burn of a superseded intent lands.    *)
SupersededNeverBurns == \A e \in AliveBurns : BurnedIntent(e) \notin superseded

(* "only a known precheck result is safe to replace" (mcpServer.mjs:3310),   *)
(* "never turn an unknown result into a fresh burn" (:3863): no call burns   *)
(* for an intent whose burn submission it found without an answer.           *)
UnknownIsNotBurnedAgain ==
  [][\A e \in Executions :
       (ExecAt(e, "polling") /\ executions'[e].stage = "burning") =>
         executions[e].seen.phase # "source_submission_unknown"]_sourceVars
================================================================================
