------------------------------ MODULE BridgeMint ------------------------------
(***************************************************************************)
(* The destination half of the CCTP bridge of the MCP server: the calls     *)
(* that ask Iris about one burn and mint it (mintDestinationViaMsca).  The  *)
(* execution that burned, requests about an approval and the retry tool run *)
(* it beside each other; they share the lock of the message nonce in memory *)
(* and the approvals of the vault, into which each writes what it found.    *)
(* The retry tool alone may recover a submission that left no hash.         *)
(***************************************************************************)
EXTENDS Naturals, Sequences, FiniteSets, SequencesExt

CONSTANTS
  Mints, NoMint,  \* calls that mint; a call also names the operation it submits
  MintFaults      \* bound: submissions without an answer, reads that fail, relayed
                  \* mints and restarts, together

BridgeMintAssumption == NoMint \notin Mints /\ MintFaults \in Nat
ASSUME BridgeMintAssumption

VARIABLES
  iris,        \* what Iris lists for the burn's transaction: an element of Listings
  lock,        \* destinationMintLocks at the nonce: NoLock, or the operation it names
  approvals,   \* the bridge approvals that name the burn, oldest first
  mints,       \* the calls and the stage each waits at
  mintOps,     \* their operations on the destination chain
  nonceUsed,   \* MessageTransmitter.usedNonces
  claimed,     \* a call has answered that the burn is minted
  recovered,   \* history: calls that took a hashless submission over
  released,    \* history: calls that gave up or took the lock of another call or a
               \* revert another had answered, whose last write hid a submission or
               \* restored an older hash, or that a restart cut unannounced
  mintFaults

mintVars == <<iris, lock, approvals, mints, mintOps, nonceUsed, claimed, recovered, released, mintFaults>>

(* Nothing attested and nothing of ours; another burn of the same bundle      *)
(* attested and ours not listed; ours listed; ours attested.                *)
Listings == <<"nothing", "another", "ours", "attested">>

NoLock == [held |-> FALSE, by |-> NoMint, op |-> NoMint, row |-> 0]
Lock(m, op, row) == [held |-> TRUE, by |-> m, op |-> op, row |-> row]

(* The phases that name a destination submission. *)
DestinationPhases == {"intent_created", "destination_pending", "destination_submitted",
                      "submission_unknown", "destination_submission_failed"}
MintApproval ==
  [status : {"pending_confirmation", "error", "success"},
   phase : DestinationPhases \cup {"source_confirmed"}, op : Mints \cup {NoMint}, cool : BOOLEAN]

(* The burn has been confirmed by its execution. *)
BridgeMintInit ==
  /\ iris = "nothing"
  /\ lock = NoLock
  /\ approvals = <<[status |-> "pending_confirmation", phase |-> "source_confirmed",
                    op |-> NoMint, cool |-> FALSE]>>
  /\ mints = [m \in Mints |-> [stage |-> "new"]]
  /\ mintOps = [m \in Mints |-> "none"]
  /\ nonceUsed = FALSE
  /\ claimed = FALSE /\ recovered = {} /\ released = {} /\ mintFaults = 0

MintFault == mintFaults < MintFaults /\ mintFaults' = mintFaults + 1

MintAt(m, stage) == mints[m].stage = stage
MintStays == UNCHANGED <<iris, lock, approvals>>
Recovering(m) == mints[m].kind = "retry"

(* A call leaves mintDestinationViaMsca: an execution writes its approval then *)
(* unless a hash is under way, a request always, the retry tool a success.  *)
Ended(kind) == [stage |-> "done", burned |-> kind = "execution"]
Ending(kind, n, seen, outcome, op) ==
  IF \/ kind = "request"
     \/ kind = "execution" /\ outcome \in {"refused", "rejected"}
     \/ kind = "retry" /\ outcome = "success" /\ n # 0
  THEN [stage |-> "answering", kind |-> kind, row |-> n, seen |-> seen, outcome |-> outcome, op |-> op]
  ELSE Ended(kind)
Leaves(m, outcome, op) ==
  mints' = [mints EXCEPT ![m] =
    Ending(mints[m].kind, mints[m].asked, mints[m].seen, outcome, op)]
Claims(m, op) == Leaves(m, "success", op) /\ claimed' = TRUE
Refuses(m) == Leaves(m, "refused", NoMint) /\ UNCHANGED claimed
Waits(m, op) == Leaves(m, IF op = NoMint THEN "refused" ELSE "pending", op) /\ UNCHANGED claimed

UpdateApproval(n, status, phase, op) ==
  approvals' = [approvals EXCEPT ![n] =
    [status |-> status, phase |-> phase, op |-> op, cool |-> FALSE]]

Marked(m, slip) == released' = IF slip THEN released \cup {m} ELSE released

(* destinationMintLocks.delete asks nobody whose lock it is. *)
DropLock(m) ==
  /\ lock' = NoLock
  /\ Marked(m, lock.held /\ lock.by # m)

--------------------------------------------------------------------------------
(* Iris answers for the transaction of the burn; while our message is not     *)
(* listed, one that is attested is a route mismatch.                        *)
IrisSays == CASE iris = "attested" -> "attestation_ready" [] iris = "another" -> "rejected"
              [] OTHER -> "pending"

Shows(rec) == rec.status = "pending_confirmation" /\ rec.phase \in DestinationPhases
Submissions == {n \in DOMAIN approvals : Shows(approvals[n])}
FirstIn(S) == CHOOSE n \in S : \A k \in S : n <= k

(* What a request reads of its approval and writes back. *)
Shown(n) == [phase |-> approvals[n].phase, op |-> approvals[n].op]

(* A tool asks Iris for approval n (0: none) and mints, or answers at once.   *)
Asks(m, kind, n) ==
  LET seen == IF kind = "request" THEN Shown(n) ELSE [phase |-> "none"] IN
  mints' = [mints EXCEPT ![m] =
    IF IrisSays = "attestation_ready"
    THEN [stage |-> "asking", kind |-> kind, row |-> n, asked |-> n, seen |-> seen,
          op |-> NoMint, at |-> 0]
    ELSE Ending(kind, n, seen, IF IrisSays = "rejected" THEN "rejected" ELSE "refused", NoMint)]
AskedOnly == UNCHANGED <<mintOps, nonceUsed, claimed, recovered, released>>

(* arcox_execute_bridge, its burn proved; waitForCctpBridgeStatus.           *)
AsksByExecution(m) ==
  /\ MintAt(m, "new")
  /\ {k \in Mints : IF MintAt(k, "done") THEN mints[k].burned
                    ELSE ~MintAt(k, "new") /\ mints[k].kind = "execution"} = {}
  /\ Asks(m, "execution", 1)
  /\ MintStays /\ AskedOnly /\ UNCHANGED mintFaults

(* arcox_get_request of an approval whose operation has a hash: its fate       *)
(* first, then resumePendingBridgeApproval.                                 *)
AsksByRequest(m, n) ==
  /\ MintAt(m, "new") /\ approvals[n].status = "pending_confirmation"
  /\ LET a == approvals[n]
         Ends(outcome) == mints' = [mints EXCEPT ![m] = Ending("request", n, Shown(n), outcome, NoMint)]
     IN
     \/ n = 1 /\ a.op = NoMint /\ Asks(m, "request", n)
     \/ a.op # NoMint /\ mintOps[a.op] = "landed" /\ Asks(m, "request", n)
     \/ a.op # NoMint /\ mintOps[a.op] = "reverted" /\ Ends("rejected")
     \/ a.op # NoMint /\ Ends("refused")
  /\ MintStays /\ AskedOnly /\ UNCHANGED mintFaults

(* arcox_retry_bridge_mint; without an attestation it changes nothing.       *)
AsksByBurn(m) ==
  /\ MintAt(m, "new") /\ IrisSays = "attestation_ready"
  /\ Asks(m, "retry", IF Submissions = {} THEN 0 ELSE FirstIn(Submissions))
  /\ MintStays /\ AskedOnly /\ UNCHANGED mintFaults

(* verifyBridgeBurn cannot read the receipt. *)
Unproven(m) ==
  /\ MintAt(m, "new") /\ MintFault
  /\ approvals[1].status = "pending_confirmation"
  /\ mints' = [mints EXCEPT ![m] = Ending("request", 1, Shown(1), "refused", NoMint)]
  /\ MintStays /\ AskedOnly

(* arcox_bridge_status: Iris and the destination nonce. *)
StatusAnswered(m) ==
  /\ MintAt(m, "new") /\ IrisSays = "attestation_ready" /\ nonceUsed
  /\ claimed' = TRUE
  /\ mints' = [mints EXCEPT ![m] = Ended("status")]
  /\ MintStays /\ UNCHANGED <<mintOps, nonceUsed, recovered, released, mintFaults>>

(* findPendingBridgeIntent, where the caller names no approval. *)
OpenRows == {n \in DOMAIN approvals :
  approvals[n].status = "pending_confirmation" /\ approvals[n].op = NoMint}
RowOf(m, open) ==
  IF mints[m].row # 0 THEN mints[m].row
  ELSE IF open = {} THEN 0 ELSE FirstIn(open)

(* The lock is taken, and the destination wallet looked at. *)
TakeLock(m) ==
  /\ lock' = Lock(m, NoMint, RowOf(m, OpenRows))
  /\ mints' = [mints EXCEPT ![m].stage = "preparing", ![m].row = RowOf(m, OpenRows)]
  /\ UNCHANGED <<approvals, claimed>>

RecoveryAllowed(m, n) == Recovering(m) /\ approvals[n].cool

(* findPendingBridgeMint and what follows from it; the lock that let the call  *)
(* pass is deleted.                                                         *)
PastLock(m) ==
  LET n == FirstIn(Submissions) IN
  \/ Submissions = {} /\ TakeLock(m) /\ UNCHANGED recovered
  \/ /\ Submissions # {} /\ approvals[n].op = NoMint
     /\ IF RecoveryAllowed(m, n)
        THEN TakeLock(m) /\ recovered' = recovered \cup {m}
        ELSE /\ lock' = Lock(m, NoMint, n) /\ Refuses(m)
             /\ UNCHANGED <<approvals, recovered>>
  \/ /\ Submissions # {} /\ approvals[n].op # NoMint
     /\ mints' = [mints EXCEPT ![m] =
          [@ EXCEPT !.stage = "checking_approval", !.op = approvals[n].op, !.at = n]]
     /\ lock' = NoLock
     /\ UNCHANGED <<approvals, claimed, recovered>>

HeldNever(l) == FALSE  \* mutant: the lock is not looked at
Held(l) == l.held

(* destinationMintAlreadyProcessed answers, and the lock is looked at.        *)
NonceUsed(m) ==
  /\ MintAt(m, "asking") /\ nonceUsed
  /\ Claims(m, NoMint)
  /\ MintStays /\ UNCHANGED <<mintOps, nonceUsed, recovered, released, mintFaults>>

NonceUnread(m) ==
  /\ MintAt(m, "asking") /\ MintFault
  /\ Refuses(m)
  /\ MintStays /\ UNCHANGED <<mintOps, nonceUsed, recovered, released>>

NonceFree(m) ==
  /\ MintAt(m, "asking") /\ ~nonceUsed
  /\ \/ /\ ~Held(lock) /\ PastLock(m) /\ UNCHANGED released
     \/ /\ Held(lock) /\ lock.op = NoMint /\ ~Recovering(m)
        /\ Refuses(m) /\ MintStays /\ UNCHANGED <<recovered, released>>
     \/ /\ Held(lock) /\ lock.op = NoMint /\ Recovering(m)
        /\ PastLock(m)
        /\ released' = released \cup {m}
     \/ /\ Held(lock) /\ lock.op # NoMint
        /\ mints' = [mints EXCEPT ![m] = [@ EXCEPT !.stage = "checking_lock", !.op = lock.op]]
        /\ MintStays /\ UNCHANGED <<claimed, recovered, released>>
  /\ UNCHANGED <<iris, mintOps, nonceUsed, mintFaults>>

(* getUserOpStatus. *)
MinedOrPending(op) == mintOps[op] # "none"  \* mutant: a hash is taken for a receipt
Mined(op) == mintOps[op] = "landed"

(* The lock no longer names the operation that was asked about. *)
AnotherLock(op) == lock.held /\ lock.op # op

(* The status of the operation the lock names; only an explicit revert       *)
(* releases it.                                                             *)
LockChecked(m) ==
  /\ MintAt(m, "checking_lock")
  /\ LET op == mints[m].op IN
     \/ Waits(m, op) /\ MintStays /\ UNCHANGED <<recovered, released>>
     \/ /\ Mined(op) /\ Claims(m, op)
        /\ lock' = NoLock /\ Marked(m, AnotherLock(op)) /\ UNCHANGED <<approvals, recovered>>
     \/ /\ mintOps[op] = "reverted"
        /\ PastLock(m)
        /\ Marked(m, AnotherLock(op))
  /\ UNCHANGED <<iris, mintOps, nonceUsed, mintFaults>>

(* After a revert another approval is looked for; one whose submission may be   *)
(* under way stops all but the retry tool.                                  *)
GoesOn(m, open) ==
  /\ lock' = Lock(m, NoMint, RowOf(m, open))
  /\ IF /\ ~Recovering(m) /\ open # {}
        /\ approvals[FirstIn(open)].phase \in {"destination_submitted", "submission_unknown"}
     THEN Refuses(m)
     ELSE /\ mints' = [mints EXCEPT ![m].stage = "preparing", ![m].row = RowOf(m, open)]
          /\ UNCHANGED claimed

(* The status of the operation an approval names; markBridgePendingResolved    *)
(* leaves the hash the approval names.                                      *)
ApprovalChecked(m) ==
  /\ MintAt(m, "checking_approval")
  /\ LET op == mints[m].op
         n == mints[m].at
         Resolved(status) == UpdateApproval(n, status, approvals[n].phase, approvals[n].op)
     IN
     \/ /\ lock' = Lock(m, op, 0) /\ Waits(m, op)
        /\ Marked(m, AnotherLock(op)) /\ UNCHANGED approvals
     \/ Mined(op) /\ Claims(m, op) /\ Resolved("success") /\ UNCHANGED <<lock, released>>
     \/ /\ mintOps[op] = "reverted"
        /\ Resolved("error") /\ GoesOn(m, OpenRows \ {n})
        /\ Marked(m, AnotherLock(op) \/ n \notin Submissions \/ approvals[n].op # op)
  /\ UNCHANGED <<iris, mintOps, nonceUsed, recovered, mintFaults>>

(* destinationMscaPreflight; then the intent is written, before the           *)
(* submission.                                                              *)
NotReady(m) ==
  /\ MintAt(m, "preparing") /\ MintFault
  /\ DropLock(m) /\ Refuses(m)
  /\ UNCHANGED <<iris, approvals, mintOps, nonceUsed, recovered>>

Announce(m) ==
  /\ MintAt(m, "preparing")
  /\ LET n == IF mints[m].row = 0 THEN Len(approvals) + 1 ELSE mints[m].row
         op == IF n > Len(approvals) THEN NoMint ELSE approvals[n].op
         rec == [status |-> "pending_confirmation", phase |-> "submission_unknown", op |-> op,
                 cool |-> FALSE]
     IN  /\ approvals' = IF n > Len(approvals) THEN Append(approvals, rec)
                         ELSE [approvals EXCEPT ![n] = rec]
         /\ mints' = [mints EXCEPT ![m].stage = "submitting", ![m].row = n]
         /\ lock' = Lock(m, NoMint, n)
  /\ UNCHANGED <<iris, mintOps, nonceUsed, claimed, recovered, released, mintFaults>>

(* executeViaSession of receiveMessage: a used nonce reverts.                *)
Submitted(m) ==
  /\ MintAt(m, "submitting")
  /\ LET n == mints[m].row IN
     \/ \* refused before it was accepted
        /\ UpdateApproval(n, "error", "destination_submission_failed", NoMint)
        /\ DropLock(m) /\ Refuses(m)
        /\ UNCHANGED <<mintOps, nonceUsed, mintFaults>>
     \/ \* mined, and said so
        /\ ~nonceUsed /\ nonceUsed' = TRUE
        /\ mintOps' = [mintOps EXCEPT ![m] = "landed"]
        /\ UpdateApproval(n, "success", approvals[n].phase, m)
        /\ DropLock(m) /\ Claims(m, m) /\ UNCHANGED mintFaults
     \/ \* reverted, and said so
        /\ mintOps' = [mintOps EXCEPT ![m] = "reverted"]
        /\ UpdateApproval(n, "error", approvals[n].phase, approvals[n].op)
        /\ DropLock(m) /\ Refuses(m) /\ UNCHANGED <<nonceUsed, mintFaults>>
     \/ \* accepted, its receipt not seen
        /\ mintOps' = [mintOps EXCEPT ![m] = "inflight"]
        /\ UpdateApproval(n, "pending_confirmation", "destination_submitted", m)
        /\ lock' = Lock(m, m, n) /\ Waits(m, m) /\ UNCHANGED <<nonceUsed, released, mintFaults>>
     \/ \* no answer
        /\ MintFault
        /\ \E s \in {"none", "inflight"} : mintOps' = [mintOps EXCEPT ![m] = s]
        /\ LET row == IF lock.row # 0 THEN lock.row ELSE n IN
             /\ UpdateApproval(row, "pending_confirmation", "submission_unknown", NoMint)
             /\ lock' = Lock(m, NoMint, row)
        /\ Refuses(m) /\ UNCHANGED <<nonceUsed, released>>
  /\ UNCHANGED <<iris, recovered>>

(* A write takes a submission that may be under way out of its sight, or gives *)
(* an approval a hash that it does not show.                                *)
Hides(n, written) ==
  /\ n \in Submissions /\ written.status # "success" /\ ~Shows(written)
  /\ approvals[n].op = NoMint \/ mintOps[approvals[n].op] = "inflight"
Restores(n, written) ==
  /\ Shows(written) /\ written.op # NoMint
  /\ n \notin Submissions \/ approvals[n].op # written.op

(* What the tool writes when the mint has answered: a request its approval as *)
(* it was when asked, with the outcome, the others the outcome alone.  The   *)
(* submission announced meanwhile may be hidden by it.                      *)
Written(m) ==
  LET c == mints[m]
      now == approvals[c.row]
      op == IF c.op = NoMint THEN c.seen.op ELSE c.op
      status == [success |-> "success", rejected |-> "error",
                 refused |-> "pending_confirmation", pending |-> "pending_confirmation"]
      seen == [status |-> status[c.outcome], phase |-> c.seen.phase, op |-> op, cool |-> FALSE]
  IN
  IF c.kind = "request" THEN seen
  ELSE IF c.outcome = "success" THEN [now EXCEPT !.status = "success", !.cool = FALSE]
  ELSE IF c.outcome = "rejected" THEN [now EXCEPT !.status = "error", !.cool = FALSE]
  ELSE [now EXCEPT !.status = "pending_confirmation", !.phase = "destination_pending", !.cool = FALSE]

Answered(m) ==
  /\ MintAt(m, "answering")
  /\ mints' = [mints EXCEPT ![m] = Ended(mints[m].kind)]
  /\ LET n == mints[m].row IN
     /\ approvals' = [approvals EXCEPT ![n] = Written(m)]
     /\ Marked(m, Hides(n, Written(m)) \/ Restores(n, Written(m)))
  /\ UNCHANGED <<iris, lock, mintOps, nonceUsed, claimed, recovered, mintFaults>>


--------------------------------------------------------------------------------
(* Iris, the destination chain, HASHLESS_DESTINATION_RECOVERY_DELAY_MS, other *)
(* relayers of the message, and the process.                                *)
IrisIndexes ==
  /\ \E was, now \in DOMAIN Listings :
       was < now /\ iris = Listings[was] /\ iris' = Listings[now]
  /\ UNCHANGED <<lock, approvals, mints, mintOps, nonceUsed, claimed, recovered, released, mintFaults>>

MintMined(m) ==
  /\ mintOps[m] = "inflight"
  /\ \/ ~nonceUsed /\ nonceUsed' = TRUE /\ mintOps' = [mintOps EXCEPT ![m] = "landed"]
     \/ mintOps' = [mintOps EXCEPT ![m] = "reverted"] /\ UNCHANGED nonceUsed
  /\ MintStays /\ UNCHANGED <<mints, claimed, recovered, released, mintFaults>>

CooldownPasses(n) ==
  /\ ~approvals[n].cool /\ n \in Submissions /\ approvals[n].op = NoMint
  /\ approvals' = [approvals EXCEPT ![n].cool = TRUE]
  /\ UNCHANGED <<iris, lock, mints, mintOps, nonceUsed, claimed, recovered, released, mintFaults>>

Relayed ==
  /\ ~nonceUsed /\ iris = "attested" /\ MintFault
  /\ nonceUsed' = TRUE
  /\ MintStays /\ UNCHANGED <<mints, mintOps, claimed, recovered, released>>

MintRestart ==
  /\ MintFault
  /\ lock' = NoLock
  /\ \E lost \in SUBSET {m \in Mints : MintAt(m, "submitting")} :
       /\ mintOps' = [m \in Mints |-> IF m \in lost THEN "inflight" ELSE mintOps[m]]
       /\ released' = released \cup
            {m \in lost : mints[m].row \notin Submissions \/ approvals[mints[m].row].op # NoMint}
  /\ mints' = [m \in Mints |-> IF MintAt(m, "new") \/ MintAt(m, "done") THEN mints[m]
                               ELSE Ended(mints[m].kind)]
  /\ UNCHANGED <<iris, approvals, nonceUsed, claimed, recovered>>

BridgeMintNext ==
  \/ \E m \in Mints :
       \/ AsksByExecution(m) \/ AsksByBurn(m) \/ Unproven(m) \/ StatusAnswered(m)
       \/ Answered(m) \/ \E n \in DOMAIN approvals : AsksByRequest(m, n)
       \/ NonceUsed(m) \/ NonceUnread(m) \/ NonceFree(m) \/ LockChecked(m)
       \/ ApprovalChecked(m) \/ NotReady(m) \/ Announce(m) \/ Submitted(m) \/ MintMined(m)
  \/ \E n \in DOMAIN approvals : CooldownPasses(n)
  \/ IrisIndexes \/ Relayed \/ MintRestart

BridgeMintSpec == BridgeMintInit /\ [][BridgeMintNext]_mintVars

--------------------------------------------------------------------------------
(* Type invariant of the lock, the approvals and the operations. *)
BridgeMintTypeOK ==
  /\ iris \in Range(Listings)
  /\ lock \in [held : BOOLEAN, by : Mints \cup {NoMint}, op : Mints \cup {NoMint},
               row : 0 .. Len(approvals)]
  /\ Range(approvals) \subseteq MintApproval
  /\ mintOps \in [Mints -> {"none", "inflight", "landed", "reverted"}]
  /\ nonceUsed \in BOOLEAN
  /\ claimed \in BOOLEAN /\ recovered \cup released \subseteq Mints
  /\ mintFaults \in 0 .. MintFaults

(* Calls whose receiveMessage is, or may be, on its way. *)
MayBeMinting == {m \in Mints : MintAt(m, "submitting") \/ mintOps[m] = "inflight"}

(* "Keep its hash ... so the next retry polls the exact operation instead of *)
(* submitting a duplicate receiveMessage call blindly" (mcpServer.mjs:2331): *)
(* no two submissions are under way, unless a call recovered a hashless one   *)
(* after its cooldown, gave up or took the lock of another call, went on from *)
(* a revert another call had answered, hid a submission or restored an older  *)
(* hash with its last write, or was cut by a restart while its approval did   *)
(* not announce it.                                                         *)
OneMintInFlight ==
  recovered \cup released = {} => \A a, b \in MayBeMinting : a = b

(* A caller is told that the burn is minted, and an approval closed with     *)
(* success, only when the destination has used the nonce.                   *)
SuccessMeansMinted ==
  (claimed \/ \E n \in DOMAIN approvals : approvals[n].status = "success") => nonceUsed
================================================================================
