------------------------------ MODULE SessionKeys ------------------------------
(***************************************************************************)
(* The automation signer of one Agent Wallet (sessionKeyService.mjs and    *)
(* the /api/session routes of server.mjs).  The server generates and keeps *)
(* the delegate; the owner of the wallet adds it to the wallet's owners on *)
(* each chain with an addOwners operation signed by a passkey; the server  *)
(* reads the operation back from the bundler before it uses the delegate.  *)
(*                                                                         *)
(* A route reads the record, waits for the bundler, then writes the record *)
(* again; the owner may revoke or reserve in between.                      *)
(***************************************************************************)
EXTENDS Naturals, FiniteSets

CONSTANTS
  SessionRoutes, \* requests that wait for the bundler
  MaxDelegates,  \* bound: keys generateSessionKey returns
  MaxOps,        \* bound: addOwners operations the owner signs
  SessionTurns   \* bound: revokes, operations that fail, and settled ones
                 \* the bundler forgets, together

SessionKeysAssumption ==
  MaxDelegates \in Nat \ {0} /\ MaxOps \in Nat \ {0} /\ SessionTurns \in Nat
ASSUME SessionKeysAssumption

(* Keys, and operations by their hash, in the order they are made. *)
Delegates == 1 .. MaxDelegates
Ops == 1 .. MaxOps
NoOp == 0

(* The original chain, and one destination chain. *)
Nets == {"arc", "base"}

VARIABLES
  entry,     \* the wallet's record in session-keys.json
  info,      \* vault.json shows the wallet's session as active
  generated, \* delegates the server has generated
  ops,       \* what the chains and the bundler hold of each operation
  routes,
  banned,    \* history: delegates revoked by their owner
  proof,     \* history: what wrote the destination hash of the record
  turns

skVars == <<entry, info, generated, ops, routes, banned, proof, turns>>

(* reserved: the file has a record. *)
Entry == [reserved : BOOLEAN, delegate : Delegates, active : BOOLEAN, pending : BOOLEAN,
          revoked : BOOLEAN, hash : [Nets -> Ops \cup {NoOp}]]
Op == [state : {"unsent", "pending", "success", "reverted", "dropped"}, net : Nets,
       delegate : Delegates, indexed : BOOLEAN]
Route == [step : {"idle", "attempt", "setup", "chain", "reconcile"}, delegate : Delegates,
          op : Ops, previous : Ops \cup {NoOp}]
Unproved == {"none", "attempt", "late"}

SessionKeysTypeOK ==
  /\ entry \in Entry /\ info \in BOOLEAN /\ generated \subseteq Delegates
  /\ ops \in [Ops -> Op]
  /\ routes \in [SessionRoutes -> Route \cup {[step |-> "idle"], [step |-> "done"]}]
  /\ banned \subseteq generated
  /\ proof \in Unproved \cup {"verified"} /\ turns \in 0 .. SessionTurns

SessionKeysInit ==
  /\ entry = [reserved |-> FALSE, delegate |-> 1, active |-> FALSE, pending |-> FALSE,
              revoked |-> FALSE, hash |-> [c \in Nets |-> NoOp]]
  /\ ops = [o \in Ops |-> [state |-> "unsent", net |-> "arc", delegate |-> 1,
                           indexed |-> FALSE]]
  /\ info = FALSE /\ generated = {} /\ banned = {} /\ proof = "none" /\ turns = 0
  /\ routes = [r \in SessionRoutes |-> [step |-> "idle"]]

Idle(r) == routes[r].step = "idle"
RouteWaits(r, v) == routes' = [routes EXCEPT ![r] = v]
Turn == turns < SessionTurns /\ turns' = turns + 1
RouteEnds(r) == routes' = [routes EXCEPT ![r] = [step |-> "done"]]

-----------------------------------------------------------------------------
(* The owner's browser, the chains and the bundler's index.                  *)

Owners(c) == {ops[o].delegate : o \in {x \in Ops : ops[x].state = "success" /\ ops[x].net = c}}

(* A passkey signs an addOwners operation for a delegate the server named. *)
Authorize(o, d, c) ==
  /\ ops[o].state = "unsent" /\ \A p \in Ops : p < o => ops[p].state # "unsent"
  /\ d \in generated
  /\ ops' = [ops EXCEPT ![o] = [state |-> "pending", net |-> c, delegate |-> d,
                                indexed |-> TRUE]]
  /\ UNCHANGED <<entry, info, generated, routes, banned, proof, turns>>

(* The operation is mined, reverts (so does one that adds an owner twice), or *)
(* never gets into a block.                                                  *)
Mined(o) ==
  /\ ops[o].state = "pending" /\ ops[o].delegate \notin Owners(ops[o].net)
  /\ ops' = [ops EXCEPT ![o].state = "success"]
  /\ UNCHANGED <<entry, info, generated, routes, banned, proof, turns>>

Fails(o) ==
  /\ Turn /\ ops[o].state = "pending"
  /\ \E s \in {"reverted", "dropped"} :
       ops' = [ops EXCEPT ![o].state = s, ![o].indexed = s # "dropped"]
  /\ UNCHANGED <<entry, info, generated, routes, banned, proof>>

(* The bundler's index is bounded: it forgets a settled operation. *)
Forgotten(o) ==
  /\ Turn /\ ops[o].state \in {"success", "reverted"} /\ ops[o].indexed
  /\ ops' = [ops EXCEPT ![o].indexed = FALSE]
  /\ UNCHANGED <<entry, info, generated, routes, banned, proof>>

(* eth_getUserOperationReceipt and ...ByHash, and the calldata they bind. *)
Receipt(o, s) == ops[o].state = s /\ ops[o].indexed
Outcome(o) == CASE Receipt(o, "success") -> "success"
                [] Receipt(o, "reverted") -> "failed"
                [] ops[o].state = "pending" -> "pending"
                [] OTHER -> "absent"
ValidatesAnyCalldata(o, d) == Receipt(o, "success")
Validates(o, d) == Receipt(o, "success") /\ ops[o].delegate = d

-----------------------------------------------------------------------------
(* POST /api/session/generate-key: no route waits inside. *)

Authorized(e) == e.active /\ e.hash["arc"] # NoOp

Fresh(d) ==
  /\ d = Cardinality(generated) + 1
  /\ generated' = generated \cup {d}
  /\ entry' = [reserved |-> TRUE, delegate |-> d, active |-> FALSE, pending |-> TRUE,
               revoked |-> FALSE, hash |-> [c \in Nets |-> NoOp]]
  /\ proof' = "none"

(* An active signer, one with a recorded operation, and one still pending are *)
(* given out again; only a manual revoke or a first request makes a new key.  *)
KeepsHashedOnly == Authorized(entry) \/ entry.hash["arc"] # NoOp
KeepsDelegate == Authorized(entry) \/ entry.hash["arc"] # NoOp \/ entry.pending

Reserve(d) ==
  /\ entry.revoked \/ ~KeepsDelegate
  /\ Fresh(d)
  /\ UNCHANGED <<info, ops, routes, banned, turns>>

(* POST /api/session/revoke; the delegate stays an owner on chain. *)
Revoke ==
  /\ Turn /\ entry.reserved
  /\ entry' = [entry EXCEPT !.active = FALSE, !.revoked = TRUE, !.pending = FALSE]
  /\ info' = FALSE
  /\ banned' = banned \cup {entry.delegate}
  /\ UNCHANGED <<generated, ops, routes, proof>>

-----------------------------------------------------------------------------
(* POST /api/session/authorization-attempt: the browser reports a hash.  The  *)
(* hash it replaces is looked up before the record is locked and read again.  *)

Sent(o) == ops[o].state # "unsent"

StoreHash(c, o, by) ==
  /\ entry' = [entry EXCEPT !.hash[c] = o]
  /\ proof' = IF c = "base" THEN by ELSE proof

AcceptsAttempt(d) == (entry.pending \/ entry.active) /\ entry.delegate = d

AttemptReplaces(r, o) ==
  /\ Idle(r) /\ Sent(o)
  /\ entry.hash[ops[o].net] \notin {NoOp, o}
  /\ RouteWaits(r, [step |-> "attempt", delegate |-> ops[o].delegate, op |-> o,
                    previous |-> entry.hash[ops[o].net]])
  /\ UNCHANGED <<entry, info, generated, ops, banned, proof, turns>>

AttemptFirst(o) ==
  /\ Sent(o) /\ entry.hash[ops[o].net] \in {NoOp, o}
  /\ AcceptsAttempt(ops[o].delegate)
  /\ StoreHash(ops[o].net, o, "attempt")
  /\ UNCHANGED <<info, generated, ops, routes, banned, turns>>

(* Stored when nothing else is recorded by now, or when what is recorded is   *)
(* still the hash that was looked up and that one is gone.                    *)
AttemptEnds(r) ==
  /\ routes[r].step = "attempt"
  /\ LET o == routes[r].op
         c == ops[o].net
         stored == /\ Outcome(routes[r].previous) \in {"failed", "absent"}
                   /\ AcceptsAttempt(routes[r].delegate)
                   /\ entry.hash[c] \in {NoOp, o, routes[r].previous}
     IN IF stored THEN StoreHash(c, o, "attempt") ELSE UNCHANGED <<entry, proof>>
  /\ RouteEnds(r)
  /\ UNCHANGED <<info, generated, ops, banned, turns>>

-----------------------------------------------------------------------------
(* verifySessionAuthorization waits for the receipt and the indexed operation *)
(* between a first look at the record and what its caller does to it.        *)

MayVerify(d) ==
  /\ entry.reserved /\ (entry.pending \/ entry.active \/ entry.hash["arc"] # NoOp)
  /\ ~entry.revoked /\ entry.delegate = d

SetupStarts(r, o) ==
  /\ Idle(r) /\ Sent(o) /\ ops[o].net = "arc" /\ MayVerify(entry.delegate)
  /\ RouteWaits(r, [step |-> "setup", delegate |-> entry.delegate, op |-> o,
                    previous |-> NoOp])
  /\ UNCHANGED <<entry, info, generated, ops, banned, proof, turns>>

MayActivateRevoked(d) ==
  /\ entry.pending \/ entry.hash["arc"] # NoOp
  /\ entry.delegate = d
MayActivate(d) == MayActivateRevoked(d) /\ ~entry.revoked

Activated(o) == [entry EXCEPT !.active = TRUE, !.pending = FALSE, !.revoked = FALSE,
                              !.hash["arc"] = o]

(* The route ends in the record of the keys and in that of the vault. *)
SetupEnds(r) ==
  /\ routes[r].step = "setup"
  /\ IF Validates(routes[r].op, routes[r].delegate) /\ MayActivate(routes[r].delegate)
       THEN entry' = Activated(routes[r].op) /\ info' = TRUE
       ELSE UNCHANGED <<entry, info>>
  /\ RouteEnds(r)
  /\ UNCHANGED <<generated, ops, banned, proof, turns>>

(* POST /api/session/authorize-chain *)
ChainStarts(r, o) ==
  /\ Idle(r) /\ Sent(o) /\ ops[o].net = "base"
  /\ Authorized(entry) /\ MayVerify(entry.delegate)
  /\ RouteWaits(r, [step |-> "chain", delegate |-> entry.delegate, op |-> o,
                    previous |-> NoOp])
  /\ UNCHANGED <<entry, info, generated, ops, banned, proof, turns>>

(* recordSessionChainAuthorization looks only whether a signer is active. *)
ChainEnds(r) ==
  /\ routes[r].step = "chain"
  /\ IF Validates(routes[r].op, routes[r].delegate) /\ entry.active
       THEN StoreHash("base", routes[r].op,
                      IF routes[r].delegate = entry.delegate THEN "verified" ELSE "late")
       ELSE UNCHANGED <<entry, proof>>
  /\ RouteEnds(r)
  /\ UNCHANGED <<info, generated, ops, banned, turns>>

(* POST /api/session/reconcile *)
ReconcileStarts(r) ==
  /\ Idle(r) /\ entry.reserved /\ ~entry.active /\ ~entry.revoked
  /\ entry.hash["arc"] # NoOp
  /\ RouteWaits(r, [step |-> "reconcile", delegate |-> entry.delegate,
                    op |-> entry.hash["arc"], previous |-> NoOp])
  /\ UNCHANGED <<entry, info, generated, ops, banned, proof, turns>>

(* Without a receipt the owner mapping of the wallet decides; it may lag. *)
Restores(r) ==
  \/ Validates(routes[r].op, routes[r].delegate)
  \/ ~Receipt(routes[r].op, "success") /\ ~Receipt(routes[r].op, "reverted")
     /\ routes[r].delegate \in Owners("arc")

StillReconciles(r) ==
  ~entry.active /\ ~entry.revoked /\ entry.hash["arc"] = routes[r].op

ReconcileEnds(r) ==
  /\ routes[r].step = "reconcile"
  /\ \/ /\ Restores(r) /\ StillReconciles(r)
        /\ entry' = [entry EXCEPT !.active = TRUE, !.pending = FALSE]
     \/ UNCHANGED entry
  /\ RouteEnds(r)
  /\ UNCHANGED <<info, generated, ops, banned, proof, turns>>

-----------------------------------------------------------------------------
SessionKeysNext ==
  \/ Revoke
  \/ \E d \in Delegates : Reserve(d)
  \/ \E o \in Ops, d \in Delegates, c \in Nets : Authorize(o, d, c)
  \/ \E o \in Ops : Mined(o) \/ Fails(o) \/ Forgotten(o) \/ AttemptFirst(o)
  \/ \E r \in SessionRoutes, o \in Ops :
       AttemptReplaces(r, o) \/ SetupStarts(r, o) \/ ChainStarts(r, o)
  \/ \E r \in SessionRoutes :
       AttemptEnds(r) \/ SetupEnds(r) \/ ChainEnds(r) \/ ReconcileStarts(r) \/ ReconcileEnds(r)

SessionKeysSpec == SessionKeysInit /\ [][SessionKeysNext]_skVars

-----------------------------------------------------------------------------
(* A record is active only for a delegate that an operation of the owner has  *)
(* made an owner of the wallet and that the owner has not revoked since: a     *)
(* revoke between the look at the record and the end of the wait for the      *)
(* bundler is not undone, by setup or by reconciliation                       *)
(* (activateReservedSessionKey, reconcileSessionKeyActivation).               *)
ActiveSignerIsOwners ==
  entry.active => entry.delegate \in Owners("arc") \ banned

(* Every owner the server's delegates have on a chain is the present delegate *)
(* or one its owner revoked: reserveSessionKey never makes a second key while *)
(* the first may still be authorized, even when its hash was lost.            *)
NoStrayOwner ==
  \A c \in Nets : Owners(c) \subseteq banned \cup {entry.delegate}

(* The destination hash of an active record proves its own delegate there,    *)
(* but for a hash the browser reported with authorization-attempt, which is   *)
(* never looked up, and one that authorize-chain verified for a delegate that *)
(* was replaced while it waited.                                              *)
DestinationProof ==
  entry.active /\ entry.hash["base"] # NoOp /\ proof \notin Unproved
    => entry.delegate \in Owners("base")

(* The comment at server.mjs:496 says that the hash is never trusted by       *)
(* itself before it is recorded.  It does not hold: see DestinationProof.     *)
DestinationIsVerified ==
  entry.active /\ entry.hash["base"] # NoOp => entry.delegate \in Owners("base")
=============================================================================
