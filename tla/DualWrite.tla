-------------------------------- MODULE DualWrite --------------------------------
(***************************************************************************)
(* One x402 invoice with Supabase as the primary store for reads: every     *)
(* change of the in-memory record is queued as an upsert of a snapshot      *)
(* (queueWrite in supabasePersistence.mjs), one at a time and newest first, *)
(* while reconcileX402Invoice reads the row back (readX402Invoice) and puts *)
(* whatever it finds newer into the map - a record that another handler may *)
(* have changed, or replaced, during the read.                              *)
(*                                                                          *)
(* The content of a record is the set of changes it has seen.  Records are  *)
(* JavaScript objects: handlers hold references, so they are kept in a heap *)
(* and the map names one of them.  Server and database share one clock.     *)
(***************************************************************************)
EXTENDS Integers, Sequences, FiniteSets

CONSTANTS
  Changes,       \* synchronous changes: estimates, outcomes, refund marks, ...
  Stamped,       \* those that set updatedAt (markX402ServiceOutcome does not)
  Readers,       \* reconcile requests, each settling the invoice at most once
  NoOp,          \* no upsert
  WritesMayFail, \* TRUE if an upsert may be answered with an error
  MaxFlushes,    \* bound: upserts queued because another invoice changed
  MaxRecords     \* bound: records the server allocates

ASSUME StampedAssumption == Stamped \subseteq Changes
ASSUME DisjointAssumption == Changes \cap Readers = {}
ASSUME BoundsAssumption ==
  /\ WritesMayFail \in BOOLEAN
  /\ MaxFlushes \in Nat
  /\ MaxRecords \in Nat \ {0}

VARIABLES
  heap,    \* sequence of the records allocated so far
  map,     \* position in heap of the record in the invoice map
  pending, \* pendingOperations: the upsert waiting for the one in flight
  drain,   \* activeDrains: the drain loop of this key
  remote,  \* the database row
  clock,
  reader,  \* what each reconcile request is doing
  enq,     \* history: number of upserts queued
  failed,  \* history: number of the last upsert that failed without effect
  done,    \* history: the changes made so far
  flushes

vars == <<heap, map, pending, drain, remote, clock, reader, enq, failed, done, flushes>>

--------------------------------------------------------------------------------
Facts == Changes \cup Readers
Record == [facts : SUBSET Facts, at : Nat]
Upsert == [facts : SUBSET Facts, at : Nat, seq : Nat]

ASSUME NoOpAssumption == NoOp \notin Upsert

NoRow == [facts |-> {}, at |-> 0, seq |-> 0]
NoDrain == [stage |-> "none", op |-> NoOp]
Writing(op) == [stage |-> "writing", op |-> op]  \* the request is on its way
Landed(op) == [stage |-> "landed", op |-> op]    \* the row is written
Closing == [stage |-> "closing", op |-> NoOp]    \* the loop ended, its finally
                                                 \* callback has not run yet

Resting == [stage |-> "idle"]
Settled(r) == r.facts \cap Readers # {}

(* queueWrite of a snapshot of record r, together with the number of it.     *)
Enqueue(r) ==
  LET op == [facts |-> r.facts, at |-> r.at, seq |-> enq + 1]
  IN  /\ enq' = enq + 1
      /\ IF drain = NoDrain
         THEN drain' = Writing(op) /\ pending' = NoOp
         ELSE pending' = op /\ UNCHANGED drain

Init ==
  /\ heap = <<[facts |-> {}, at |-> 1]>>
  /\ map = 1
  /\ pending = NoOp
  /\ drain = Writing([facts |-> {}, at |-> 1, seq |-> 1])
  /\ remote = NoRow
  /\ clock = 1
  /\ reader = [p \in Readers |-> Resting]
  /\ enq = 1
  /\ failed = 0
  /\ done = {}
  /\ flushes = 0

--------------------------------------------------------------------------------
(* Local changes. *)

Changed(r, c) ==
  [facts |-> r.facts \cup {c}, at |-> IF c \in Changes \ Stamped THEN r.at ELSE clock + 1]

(* A handler changes the record in the map and persists it. *)
Change(c) ==
  /\ c \notin done
  /\ heap' = [heap EXCEPT ![map] = Changed(@, c)]
  /\ Enqueue(Changed(heap[map], c))
  /\ clock' = clock + 1
  /\ done' = done \cup {c}
  /\ UNCHANGED <<map, remote, reader, failed, flushes>>

(* Another invoice changes: persistInvoices queues all of them. *)
Flush ==
  /\ flushes < MaxFlushes
  /\ flushes' = flushes + 1
  /\ Enqueue(heap[map])
  /\ UNCHANGED <<heap, map, remote, clock, reader, failed, done>>

--------------------------------------------------------------------------------
(* The drain loop. *)

(* The upsert takes effect: an INSERT keeps the timestamp of the payload, an *)
(* UPDATE gets the time of the database (arcox_set_updated_at).              *)
UpsertLands ==
  /\ drain.stage = "writing"
  /\ clock' = clock + 1
  /\ remote' = [drain.op EXCEPT !.at = IF remote = NoRow THEN @ ELSE clock + 1]
  /\ drain' = Landed(drain.op)
  /\ UNCHANGED <<heap, map, pending, reader, enq, failed, done, flushes>>

(* Mutant: the waiting upsert is deleted after the request it waited for. *)
NextUpsertDropsWaiting ==
  /\ drain' = Closing
  /\ pending' = NoOp

(* The loop takes the upsert that arrived meanwhile, or ends. *)
NextUpsert ==
  /\ drain' = IF pending = NoOp THEN Closing ELSE Writing(pending)
  /\ pending' = NoOp

UpsertAnswered ==
  /\ drain.stage = "landed"
  /\ NextUpsert
  /\ UNCHANGED <<heap, map, remote, clock, reader, enq, failed, done, flushes>>

(* Mutant: the failed upsert is queued again. *)
UpsertFailsRequeued ==
  /\ WritesMayFail
  /\ drain.stage = "writing"
  /\ drain' = IF pending = NoOp THEN drain ELSE Writing(pending)
  /\ pending' = IF pending = NoOp THEN NoOp ELSE drain.op
  /\ UNCHANGED <<heap, map, remote, clock, reader, enq, failed, done, flushes>>

(* An error is logged and the upsert is dropped. *)
UpsertFails ==
  /\ WritesMayFail
  /\ drain.stage = "writing"
  /\ failed' = drain.op.seq
  /\ NextUpsert
  /\ UNCHANGED <<heap, map, remote, clock, reader, enq, done, flushes>>

(* Mutant: the drain is kept while an upsert waits. *)
DrainEndsIfNothingWaits ==
  /\ drain.stage = "closing"
  /\ pending = NoOp
  /\ drain' = NoDrain
  /\ UNCHANGED <<heap, map, pending, remote, clock, reader, enq, failed, done, flushes>>

(* The finally callback.  An upsert queued since the loop ended stays in     *)
(* pendingOperations until the next one of this key is queued.               *)
DrainEnds ==
  /\ drain.stage = "closing"
  /\ drain' = NoDrain
  /\ UNCHANGED <<heap, map, pending, remote, clock, reader, enq, failed, done, flushes>>

--------------------------------------------------------------------------------
(* reconcileX402Invoice(id). *)

(* It holds the record of the map and asks for the row. *)
ReadStart(p) ==
  /\ reader[p] = Resting
  /\ reader' = [reader EXCEPT ![p] = [stage |-> "asked", record |-> map]]
  /\ UNCHANGED <<heap, map, pending, drain, remote, clock, enq, failed, done, flushes>>

(* The database answers; NoRow also stands for a read that fails. *)
ReadRow(p) ==
  /\ reader[p].stage = "asked"
  /\ \E row \in {remote, NoRow} :
       reader' = [reader EXCEPT ![p] =
                    [stage |-> "answered", record |-> reader[p].record, row |-> row]]
  /\ UNCHANGED <<heap, map, pending, drain, remote, clock, enq, failed, done, flushes>>

(* The row is preferred unless the record held is newer; the choice becomes  *)
(* the record of the map.                                                    *)
PrefersRow(p) ==
  reader[p].row # NoRow /\ heap[reader[p].record].at <= reader[p].row.at

Proceed(p, o) ==
  reader' = [reader EXCEPT ![p] =
               IF Settled(heap'[o]) THEN Resting ELSE [stage |-> "settling", record |-> o]]

ReadDone(p) ==
  /\ reader[p].stage = "answered"
  /\ IF PrefersRow(p)
     THEN /\ Len(heap) < MaxRecords
          /\ heap' = Append(heap, [facts |-> reader[p].row.facts, at |-> reader[p].row.at])
          /\ map' = Len(heap) + 1
     ELSE /\ map' = reader[p].record
          /\ UNCHANGED heap
  /\ Proceed(p, map')
  /\ UNCHANGED <<pending, drain, remote, clock, enq, failed, done, flushes>>

(* The search for a payment ends: with one, the record held is marked paid,  *)
(* put into the map and persisted; without one, nothing happens.             *)
Settle(p) ==
  /\ reader[p].stage = "settling"
  /\ p \notin done
  /\ LET o == reader[p].record
     IN  /\ heap' = [heap EXCEPT ![o] = Changed(@, p)]
         /\ map' = o
         /\ Enqueue(Changed(heap[o], p))
  /\ clock' = clock + 1
  /\ done' = done \cup {p}
  /\ reader' = [reader EXCEPT ![p] = Resting]
  /\ UNCHANGED <<remote, failed, flushes>>

GiveUp(p) ==
  /\ reader[p].stage = "settling"
  /\ reader' = [reader EXCEPT ![p] = Resting]
  /\ UNCHANGED <<heap, map, pending, drain, remote, clock, enq, failed, done, flushes>>

Next ==
  \/ \E c \in Changes : Change(c)
  \/ Flush
  \/ UpsertLands \/ UpsertAnswered \/ UpsertFails \/ DrainEnds
  \/ \E p \in Readers :
       ReadStart(p) \/ ReadRow(p) \/ ReadDone(p) \/ Settle(p) \/ GiveUp(p)

Spec == Init /\ [][Next]_vars

(* A request to the database is answered and the event loop keeps running.   *)
FairSpec == Spec /\ WF_vars(UpsertLands \/ UpsertAnswered \/ UpsertFails \/ DrainEnds)

--------------------------------------------------------------------------------
(* Type invariant of the record, the queue and the reads. *)
TypeOK ==
  /\ heap \in Seq(Record) /\ Len(heap) <= MaxRecords
  /\ map \in DOMAIN heap
  /\ pending \in Upsert \cup {NoOp}
  /\ drain \in {NoDrain, Closing} \cup [stage : {"writing", "landed"}, op : Upsert]
  /\ remote \in Upsert
  /\ clock \in Nat
  /\ reader \in [Readers ->
       {Resting} \cup [stage : {"asked", "settling"}, record : DOMAIN heap]
                 \cup [stage : {"answered"}, record : DOMAIN heap, row : Upsert]]
  /\ enq \in Nat /\ failed \in Nat
  /\ done \subseteq Facts
  /\ flushes \in 0 .. MaxFlushes

(* supabasePersistence.mjs:103-105, "Keep the newest payload for a key ...   *)
(* still preserving the latest update that arrived during an in-flight       *)
(* request": when the queue of the key is at rest, the row is the last       *)
(* snapshot queued, unless writing that very snapshot failed.                *)
NewestAtRest ==
  drain = NoDrain /\ pending = NoOp => remote.seq = enq \/ failed = enq

(* The same comment, "prevents stale ... updates from overwriting a newer    *)
(* state": snapshots reach the row in the order they were queued.            *)
LandInOrder == [][remote' # remote => remote'.seq > remote.seq]_vars

(* A drain loop ends however updates keep arriving during its requests.      *)
DrainsEnd == drain # NoDrain ~> drain = NoDrain

(* supabasePersistence.mjs:630-631, "Prefer the newer local state until the  *)
(* queued upsert lands": no change made to the invoice disappears from it.   *)
NothingLost == done \subseteq heap[map].facts
================================================================================
