----------------------------- MODULE DualWriteProofs -----------------------------
(* The write queue of one record (DualWrite), for any number of handlers,    *)
(* readers, failures and flushes: what rests in the database is the newest   *)
(* snapshot, and the row never goes back.                                    *)
EXTENDS DualWrite, RecordReads, FiniteSetTheorems, TLAPS

--------------------------------------------------------------------------------
(* The queue by itself: the records of the heap and the readers only matter  *)
(* for the snapshots they hand to it.                                        *)
QueueTypes ==
  /\ heap \in Seq(Record) /\ map \in DOMAIN heap
  /\ pending \in Upsert \cup {NoOp}
  /\ drain \in {NoDrain, Closing} \cup [stage : {"writing", "landed"}, op : Upsert]
  /\ remote \in Upsert
  /\ clock \in Nat /\ enq \in Nat /\ failed \in Nat

ReaderTypes ==
  reader \in [Readers ->
    {Resting} \cup [stage : {"asked", "settling"}, record : DOMAIN heap]
              \cup [stage : {"answered"}, record : DOMAIN heap, row : Upsert]]

(* The numbers grow along the queue: row, request, waiting snapshot, last    *)
(* one queued.  The last one is the waiting snapshot, or if none waits that  *)
(* of the request, or if there is no request the row - or it failed.         *)
Ordered ==
  /\ remote.seq <= enq
  /\ drain.stage = "writing" => remote.seq < drain.op.seq /\ drain.op.seq <= enq
  /\ drain.stage = "landed" => remote.seq = drain.op.seq
  /\ pending # NoOp =>
       /\ pending.seq = enq /\ remote.seq < enq
       /\ drain.stage \in {"writing", "landed"} => drain.op.seq < enq
  /\ pending = NoOp =>
       IF drain.stage \in {"writing", "landed"} THEN drain.op.seq = enq
       ELSE remote.seq = enq \/ failed = enq

QueueInv == QueueTypes /\ ReaderTypes /\ Ordered

(* A snapshot is queued. *)
LEMMA EnqueueKeeps ==
  ASSUME QueueTypes, Ordered, NEW r \in Record, Enqueue(r), UNCHANGED <<remote, failed>>
  PROVE  /\ enq' \in Nat /\ pending' \in Upsert \cup {NoOp}
         /\ drain' \in {NoDrain, Closing} \cup [stage : {"writing", "landed"}, op : Upsert]
         /\ Ordered'
  <1>. DEFINE op == [facts |-> r.facts, at |-> r.at, seq |-> enq + 1]
  <1>1. op \in Upsert /\ op.seq = enq + 1 /\ enq' = enq + 1 /\ op # NoOp
    BY NoOpAssumption DEF Enqueue, QueueTypes, Upsert, Record
  <1>2. CASE drain = NoDrain
    <2>1. drain' = Writing(op) /\ pending' = NoOp
      BY <1>2 DEF Enqueue
    <2>2. drain'.stage = "writing" /\ drain'.op = op
      BY <2>1 DEF Writing
    <2>. HIDE DEF op
    <2>. QED
      BY <1>1, <2>1, <2>2 DEF QueueTypes, Ordered, Writing, Upsert
  <1>3. CASE drain # NoDrain
    <2>1. drain' = drain /\ pending' = op
      BY <1>3 DEF Enqueue
    <2>. HIDE DEF op
    <2>2. drain.stage \in {"writing", "landed"} => drain.op \in Upsert
      BY DEF QueueTypes, NoDrain, Closing
    <2>. QED
      BY <1>1, <1>3, <2>1, <2>2 DEF QueueTypes, Ordered, Upsert
  <1>. QED
    BY <1>2, <1>3

(* The queue is left alone. *)
LEMMA QueueStays ==
  ASSUME QueueTypes, Ordered, UNCHANGED <<pending, drain, remote, enq, failed>>
  PROVE  Ordered'
  BY DEF Ordered

LEMMA ChangedRecord ==
  ASSUME QueueTypes, NEW r \in Record, NEW c \in Facts
  PROVE  Changed(r, c) \in Record
  BY DEF QueueTypes, Changed, Record

(* The next request, or the end of the loop, after a request that is over.   *)
LEMMA NextUpsertKeeps ==
  ASSUME QueueTypes, Ordered, NextUpsert, UNCHANGED <<remote, enq>>, failed' \in Nat,
         drain.stage \in {"writing", "landed"},
         pending = NoOp => remote.seq = enq \/ failed' = enq
  PROVE  /\ pending' \in Upsert \cup {NoOp}
         /\ drain' \in {NoDrain, Closing} \cup [stage : {"writing", "landed"}, op : Upsert]
         /\ Ordered'
  <1>1. CASE pending = NoOp
    <2>1. drain' = Closing /\ pending' = NoOp /\ drain'.stage = "closing"
      BY <1>1 DEF NextUpsert, Closing
    <2>. QED
      BY <1>1, <2>1 DEF Ordered, QueueTypes
  <1>2. CASE pending # NoOp
    <2>1. drain' = Writing(pending) /\ pending' = NoOp /\ pending \in Upsert
      BY <1>2 DEF NextUpsert, QueueTypes
    <2>2. drain'.stage = "writing" /\ drain'.op = pending
      BY <2>1 DEF Writing
    <2>. QED
      BY <1>2, <2>1, <2>2 DEF Ordered, QueueTypes, Writing, Upsert
  <1>. QED
    BY <1>1, <1>2

--------------------------------------------------------------------------------
(* One step. *)

LEMMA QueueInvInit == Init => QueueInv
  <1>. SUFFICES ASSUME Init PROVE QueueInv
    OBVIOUS
  <1>. DEFINE op == [facts |-> {}, at |-> 1, seq |-> 1]
  <1>1. op \in Upsert /\ op.seq = 1 /\ NoRow \in Upsert /\ NoRow.seq = 0
    BY DEF Upsert, NoRow
  <1>2. heap \in Seq(Record) /\ map \in DOMAIN heap
    BY DEF Init, Record
  <1>3. drain.stage = "writing" /\ drain.op = op /\ drain = Writing(op)
    BY DEF Init, Writing
  <1>4. reader \in [Readers -> {Resting}]
    BY DEF Init
  <1>. HIDE DEF op
  <1>5. drain \in [stage : {"writing", "landed"}, op : Upsert]
    BY <1>1, <1>3 DEF Writing
  <1>6. QueueTypes
    BY <1>1, <1>2, <1>5 DEF Init, QueueTypes
  <1>7. ReaderTypes
    BY <1>4 DEF ReaderTypes
  <1>8. Ordered
    BY <1>1, <1>3 DEF Init, Ordered
  <1>. QED
    BY <1>6, <1>7, <1>8 DEF QueueInv

(* The records a reader may hold stay records while the heap grows.          *)
LEMMA ReadersStay ==
  ASSUME ReaderTypes, DOMAIN heap \subseteq DOMAIN heap', UNCHANGED reader
  PROVE  ReaderTypes'
  BY DEF ReaderTypes

LEMMA ReaderMoves ==
  ASSUME ReaderTypes, DOMAIN heap \subseteq DOMAIN heap', NEW p \in Readers, NEW v,
         v \in {Resting} \cup [stage : {"asked", "settling"}, record : DOMAIN heap']
                         \cup [stage : {"answered"}, record : DOMAIN heap', row : Upsert],
         reader' = [reader EXCEPT ![p] = v]
  PROVE  ReaderTypes'
  BY DEF ReaderTypes

LEMMA QueueInvStep == QueueInv /\ [Next]_vars => QueueInv'
  <1>. SUFFICES ASSUME QueueInv, [Next]_vars PROVE QueueInv'
    OBVIOUS
  <1>0. QueueTypes /\ ReaderTypes /\ Ordered
    BY DEF QueueInv
  <1>1. ASSUME NEW c \in Changes, Change(c)
        PROVE  QueueInv'
    <2>1. heap[map] \in Record /\ Changed(heap[map], c) \in Record
      BY <1>0, ChangedRecord DEF QueueTypes, Facts
    <2>. DEFINE r == Changed(heap[map], c)
    <2>2. /\ heap' = [heap EXCEPT ![map] = r] /\ Enqueue(r)
          /\ UNCHANGED <<map, remote, reader, failed>> /\ clock' = clock + 1
      BY <1>1 DEF Change
    <2>3. r \in Record
      BY <2>1
    <2>. HIDE DEF r
    <2>4. heap' \in Seq(Record) /\ DOMAIN heap' = DOMAIN heap
      BY <1>0, <2>2, <2>3 DEF QueueTypes
    <2>. QED
      BY <1>0, <2>2, <2>3, <2>4, EnqueueKeeps, ReadersStay DEF QueueInv, QueueTypes
  <1>2. CASE Flush
    <2>1. heap[map] \in Record /\ Enqueue(heap[map]) /\ UNCHANGED <<heap, map, remote, clock, reader, failed>>
      BY <1>0, <1>2 DEF Flush, QueueTypes
    <2>. QED
      BY <1>0, <2>1, EnqueueKeeps, ReadersStay DEF QueueInv, QueueTypes
  <1>3. CASE UpsertLands
    <2>1. drain.op \in Upsert /\ drain.stage = "writing" /\ UNCHANGED <<heap, map, pending, reader, enq, failed>>
      BY <1>0, <1>3 DEF UpsertLands, QueueTypes, NoDrain, Closing
    <2>2. /\ drain' = Landed(drain.op) /\ clock' = clock + 1
          /\ remote' = [drain.op EXCEPT !.at = IF remote = NoRow THEN @ ELSE clock + 1]
      BY <1>3 DEF UpsertLands
    <2>3. remote' \in Upsert /\ remote'.seq = drain.op.seq
      BY <1>0, <2>1, <2>2, SMTT(30) DEF Upsert, QueueTypes
    <2>4. /\ drain'.stage = "landed" /\ drain'.op = drain.op
          /\ drain' \in [stage : {"writing", "landed"}, op : Upsert]
      BY <2>1, <2>2 DEF Landed
    <2>5. Ordered'
      BY <1>0, <2>1, <2>3, <2>4 DEF Ordered, QueueTypes, Upsert
    <2>. QED
      BY <1>0, <2>1, <2>2, <2>3, <2>4, <2>5, ReadersStay DEF QueueInv, QueueTypes
  <1>4. CASE UpsertAnswered \/ UpsertFails
    <2>1. /\ NextUpsert /\ drain.stage \in {"writing", "landed"}
          /\ UNCHANGED <<heap, map, remote, clock, reader, enq>>
      BY <1>4 DEF UpsertAnswered, UpsertFails
    <2>2. failed' \in Nat /\ (pending = NoOp => remote.seq = enq \/ failed' = enq)
      <3>1. CASE UpsertAnswered
        BY <1>0, <3>1 DEF UpsertAnswered, Ordered, QueueTypes
      <3>2. CASE UpsertFails
        BY <1>0, <3>2 DEF UpsertFails, Ordered, QueueTypes, NoDrain, Closing, Upsert
      <3>. QED
        BY <1>4, <3>1, <3>2
    <2>. QED
      BY <1>0, <2>1, <2>2, NextUpsertKeeps, ReadersStay DEF QueueInv, QueueTypes
  <1>5. CASE DrainEnds
    <2>1. /\ drain.stage = "closing" /\ drain' = NoDrain /\ drain'.stage = "none"
          /\ UNCHANGED <<heap, map, pending, remote, clock, reader, enq, failed>>
      BY <1>5 DEF DrainEnds, NoDrain
    <2>2. Ordered'
      BY <1>0, <2>1 DEF Ordered
    <2>. QED
      BY <1>0, <2>1, <2>2, ReadersStay DEF QueueInv, QueueTypes
  <1>6. ASSUME NEW p \in Readers, ReadStart(p) \/ ReadRow(p) \/ GiveUp(p)
        PROVE  QueueInv'
    <2>1. UNCHANGED <<heap, map, pending, drain, remote, clock, enq, failed>>
      BY <1>6 DEF ReadStart, ReadRow, GiveUp
    <2>2. ReaderTypes'
      <3>1. CASE ReadStart(p)
        BY <1>0, <2>1, <3>1, ReaderMoves DEF ReadStart, QueueTypes
      <3>2. CASE ReadRow(p)
        <4>1. PICK row \in {remote, NoRow} : reader' = [reader EXCEPT ![p] =
                 [stage |-> "answered", record |-> reader[p].record, row |-> row]]
          BY <3>2 DEF ReadRow
        <4>2. row \in Upsert
          BY <1>0, <4>1 DEF QueueTypes, Upsert, NoRow
        <4>3. reader[p].record \in DOMAIN heap
          BY <1>0, <3>2 DEF ReadRow, ReaderTypes, Resting
        <4>. QED
          BY <1>0, <2>1, <4>1, <4>2, <4>3, ReaderMoves
      <3>3. CASE GiveUp(p)
        BY <1>0, <2>1, <3>3, ReaderMoves DEF GiveUp
      <3>. QED
        BY <1>6, <3>1, <3>2, <3>3
    <2>. QED
      BY <1>0, <2>1, <2>2, QueueStays DEF QueueInv, QueueTypes
  <1>7. ASSUME NEW p \in Readers, ReadDone(p)
        PROVE  QueueInv'
    <2>1. UNCHANGED <<pending, drain, remote, clock, enq, failed>> /\ Proceed(p, map')
      BY <1>7 DEF ReadDone
    <2>2. reader[p].record \in DOMAIN heap /\ reader[p].row \in Upsert
      BY <1>0, <1>7 DEF ReadDone, ReaderTypes, Resting
    <2>3. heap' \in Seq(Record) /\ DOMAIN heap \subseteq DOMAIN heap' /\ map' \in DOMAIN heap'
      <3>1. CASE PrefersRow(p)
        <4>1. /\ heap' = Append(heap, [facts |-> reader[p].row.facts, at |-> reader[p].row.at])
              /\ map' = Len(heap) + 1
          BY <1>7, <3>1 DEF ReadDone
        <4>2. [facts |-> reader[p].row.facts, at |-> reader[p].row.at] \in Record
          BY <2>2 DEF Upsert, Record
        <4>. HIDE DEF Record
        <4>. QED
          BY <1>0, <4>1, <4>2 DEF QueueTypes
      <3>2. CASE ~PrefersRow(p)
        BY <1>0, <1>7, <2>2, <3>2 DEF ReadDone, QueueTypes
      <3>. QED
        BY <3>1, <3>2
    <2>4. ReaderTypes'
      <3>1. reader' = [reader EXCEPT ![p] =
               IF Settled(heap'[map']) THEN Resting ELSE [stage |-> "settling", record |-> map']]
        BY <2>1 DEF Proceed
      <3>. QED
        BY <1>0, <2>3, <3>1, ReaderMoves
    <2>. QED
      BY <1>0, <2>1, <2>3, <2>4, QueueStays DEF QueueInv, QueueTypes
  <1>8. ASSUME NEW p \in Readers, Settle(p)
        PROVE  QueueInv'
    <2>. DEFINE o == reader[p].record
                r == Changed(heap[o], p)
    <2>1. o \in DOMAIN heap /\ heap[o] \in Record
      BY <1>0, <1>8 DEF Settle, ReaderTypes, QueueTypes, Resting
    <2>2. r \in Record
      BY <1>0, <2>1, ChangedRecord DEF Facts
    <2>3. /\ heap' = [heap EXCEPT ![o] = r] /\ map' = o /\ Enqueue(r) /\ clock' = clock + 1
          /\ reader' = [reader EXCEPT ![p] = Resting] /\ UNCHANGED <<remote, failed>>
      BY <1>8 DEF Settle
    <2>. HIDE DEF o, r
    <2>4. heap' \in Seq(Record) /\ DOMAIN heap' = DOMAIN heap
      BY <1>0, <2>1, <2>2, <2>3 DEF QueueTypes
    <2>5. ReaderTypes'
      BY <1>0, <2>3, <2>4, ReaderMoves
    <2>6. /\ enq' \in Nat /\ pending' \in Upsert \cup {NoOp}
          /\ drain' \in {NoDrain, Closing} \cup [stage : {"writing", "landed"}, op : Upsert]
          /\ Ordered'
      BY <1>0, <2>2, <2>3, EnqueueKeeps
    <2>. QED
      BY <1>0, <2>1, <2>3, <2>4, <2>5, <2>6 DEF QueueInv, QueueTypes
  <1>9. CASE UNCHANGED vars
    <2>1. UNCHANGED <<heap, map, pending, drain, remote, clock, reader, enq, failed>>
      BY <1>9 DEF vars
    <2>. QED
      BY <1>0, <2>1, QueueStays, ReadersStay DEF QueueInv, QueueTypes
  <1>. QED
    BY <1>1, <1>2, <1>3, <1>4, <1>5, <1>6, <1>7, <1>8, <1>9 DEF Next

--------------------------------------------------------------------------------
(* When the queue of a key is at rest the row is the last snapshot queued,   *)
(* unless writing that very one failed (supabasePersistence.mjs:103-105),    *)
(* for any number of changes, readers, flushes and failures.                 *)
THEOREM SpecNewestAtRest == Spec => []NewestAtRest
  <1>1. QueueInv => NewestAtRest
    BY DEF QueueInv, Ordered, NewestAtRest, NoDrain
  <1>. QED
    BY <1>1, QueueInvInit, QueueInvStep, PTL DEF Spec

(* Snapshots reach the row in the order they were queued.                    *)
THEOREM SpecLandInOrder == Spec => LandInOrder
  <1>1. QueueInv /\ [Next]_vars => [remote' # remote => remote'.seq > remote.seq]_vars
    <2>. SUFFICES ASSUME QueueInv, [Next]_vars, remote' # remote PROVE remote'.seq > remote.seq
      OBVIOUS
    <2>1. UpsertLands
      BY DEF Next, vars, Change, Flush, UpsertAnswered, UpsertFails, DrainEnds, ReadStart,
        ReadRow, ReadDone, Settle, GiveUp
    <2>2. drain.op \in Upsert /\ drain.stage = "writing"
      BY <2>1 DEF UpsertLands, QueueInv, QueueTypes, NoDrain, Closing
    <2>3. remote'.seq = drain.op.seq
      BY <2>1, <2>2 DEF UpsertLands, Upsert
    <2>. QED
      BY <2>2, <2>3 DEF QueueInv, Ordered, QueueTypes, Upsert
  <1>. QED
    BY <1>1, QueueInvInit, QueueInvStep, PTL DEF Spec, LandInOrder

--------------------------------------------------------------------------------
(* The other kinds of records (RecordReads).  The records of a set have ids of  *)
(* their own; the lists of cards keep their key in the row.                   *)
OnePerId(S) == \A r, s \in S : r.id = s.id => r = s
CardKinds == Merging \ {"activity", "approvals", "session"}

RecordTypes ==
  /\ kind \in AllKinds /\ made \in Nat /\ made <= MaxIds /\ ticks \in Nat /\ reading \in BOOLEAN
  /\ kind \in Single => made <= 1
  /\ local \subseteq Rec /\ IsFiniteSet(local) /\ OnePerId(local)
  /\ asked \subseteq Rec /\ IsFiniteSet(asked) /\ OnePerId(asked)
  /\ rows \in [Ids -> Rec \cup {NoRec}] /\ waiting \in [Ids -> Rec \cup {NoRec}]
  /\ inflight \in [Ids -> Rec \cup {NoRec}]
  /\ told.source \in Sources /\ told.recs \subseteq Shown

(* What a record and a row may be: one was made under the id, an activity is   *)
(* never changed, and only the events of an invoice's row stay behind.         *)
Sound(r, most) == r.id <= most /\ r.events = r.ver /\ (kind = "activity" => r.ver = 1)
SoundRow(q, most) ==
  /\ q.id <= most /\ q.events <= q.ver /\ (kind # "invoice" => q.events = q.ver)
  /\ kind = "activity" => q.ver = 1

RecordsSound ==
  /\ \A r \in local \cup asked : Sound(r, made)
  /\ \A i \in Ids :
       /\ inflight[i] # NoRec => Sound(inflight[i], made) /\ inflight[i].id = i
       /\ waiting[i] # NoRec => Sound(waiting[i], made) /\ waiting[i].id = i
       /\ rows[i] # NoRec => SoundRow(rows[i], made) /\ rows[i].id = i

(* The versions grow from the row over the queue to the server's own record.   *)
Behind(q, l) == q # NoRec => q.ver <= l.ver /\ (kind \in CardKinds => q.key = l.key)
VersionsGrow ==
  /\ \A i \in Ids :
       /\ waiting[i] # NoRec => inflight[i] # NoRec /\ inflight[i].ver <= waiting[i].ver
       /\ rows[i] # NoRec /\ inflight[i] # NoRec => rows[i].ver <= inflight[i].ver
  /\ \A l \in local :
       Behind(rows[l.id], l) /\ Behind(inflight[l.id], l) /\ Behind(waiting[l.id], l)

(* A list that dropped a record is full. *)
Full == kind = "activity" /\ Cardinality(local) >= LocalCap
Has(S, i) == \E s \in S : s.id = i
RowHas(r) == rows[r.id] # NoRec /\ r.ver <= rows[r.id].ver

AskedOld ==
  \A s \in asked :
    /\ \A l \in local : l.id = s.id => s.ver <= l.ver
    /\ kind \in Merging => Has(local, s.id) \/ Full

(* What was told is still known: to the rows, or to the local list.            *)
ToldRows ==
  told.source = "rows" => \A r \in told.recs : RowHas(r) /\ r.events <= rows[r.id].events
ToldMerged ==
  told.source = "merged" =>
    /\ kind \in Merging
    /\ \A r \in told.recs :
         /\ r.id <= made /\ r.events = r.ver /\ (kind = "activity" => r.ver = 1)
         /\ \A l \in local : l.id = r.id => r.ver <= l.ver
         /\ Has(local, r.id) \/ RowHas(r) \/ Full

(* And while a read waits: to the list it asked with, unless that was cut to    *)
(* newer records.                                                             *)
CutOut(r) ==
  \/ kind = "activity" /\ Cardinality(asked) >= ReadLimit
  \/ kind \in CardKinds /\ \E l \in local :
       l.id = r.id /\ Cardinality({s \in asked : s.key > l.key}) >= ReadLimit
  \/ kind = "approvals" /\ Cardinality(local) > ReadLimit
ToldAsked ==
  told.source = "merged" /\ reading =>
    \A r \in told.recs :
      /\ \A s \in asked : s.id = r.id => r.ver <= s.ver
      /\ Has(asked, r.id) \/ RowHas(r) \/ CutOut(r)

RecordsInv ==
  RecordTypes /\ RecordsSound /\ VersionsGrow /\ AskedOld /\ ToldRows /\ ToldMerged /\ ToldAsked

--------------------------------------------------------------------------------
(* Lists cut to their newest records. *)
Above(S, r) == {s \in S : s.key > r.key}
Keyed(S) == IsFiniteSet(S) /\ \A s \in S : s.key \in Nat

LEMMA AboveFinite ==
  ASSUME NEW S, IsFiniteSet(S), NEW r
  PROVE  /\ Above(S, r) \subseteq S /\ IsFiniteSet(Above(S, r))
         /\ Cardinality(Above(S, r)) \in Nat
<1>1. Above(S, r) \in SUBSET S BY DEF Above
<1>. QED BY <1>1, FS_Subset, FS_CardinalityType

(* A record that is cut out has n newer ones that are not: among those that   *)
(* are as new as it and have n newer ones, take one with the fewest of them.  *)
LEMMA CutOutByNewer ==
  ASSUME NEW S, Keyed(S), NEW n \in Nat, NEW r \in S, r \notin Newest(S, n)
  PROVE  Cardinality(Above(Newest(S, n), r)) >= n
<1> DEFINE H == {t \in S : t.key >= r.key /\ Cardinality(Above(S, t)) >= n}
           T == {Above(S, t) : t \in H}
<1>1. r \in H
  <2>1. ~(Cardinality(Above(S, r)) < n) BY DEF Newest, Above
  <2>2. Cardinality(Above(S, r)) \in Nat BY AboveFinite DEF Keyed
  <2>. QED BY <2>1, <2>2 DEF Keyed
<1>2. T \subseteq FiniteSubsetsOf(S) BY AboveFinite DEF Keyed, FiniteSubsetsOf
<1>3. PICK X \in T : \A Y \in T : ~(<<Y, X>> \in StrictSubsetOrdering(S))
  <2>1. IsWellFoundedOn(StrictSubsetOrdering(S), FiniteSubsetsOf(S))
    BY FS_StrictSubsetOrderingWellFounded
  <2>2. T # {} BY <1>1
  <2>. HIDE DEF T
  <2>. QED BY <1>2, <2>1, <2>2, WFMin
<1>4. PICK t \in H : X = Above(S, t) BY <1>3
<1>5. ASSUME NEW s \in X PROVE s \in Above(Newest(S, n), r)
  <2>1. s \in S /\ s.key > t.key /\ s.key > r.key /\ s.key \in Nat
    BY <1>4, <1>5 DEF Above, Keyed
  <2>2. Above(S, s) \subseteq X BY <1>4, <2>1 DEF Above, Keyed
  <2>3. s \notin Above(S, s) BY <2>1 DEF Above
  <2>4. <<Above(S, s), X>> \in StrictSubsetOrdering(S)
    BY <2>2, <2>3, <1>4, <1>5, AboveFinite DEF StrictSubsetOrdering, Keyed
  <2>5. s \notin H BY <2>4, <1>3
  <2>6. Cardinality(Above(S, s)) < n
    BY <2>1, <2>5, AboveFinite DEF Keyed
  <2>. QED BY <2>1, <2>6 DEF Newest, Above
<1>6. X \in SUBSET Above(Newest(S, n), r) BY <1>5
<1>7. IsFiniteSet(Above(Newest(S, n), r)) /\ Cardinality(Above(Newest(S, n), r)) \in Nat
  <2>1. Above(Newest(S, n), r) \in SUBSET S BY DEF Above, Newest
  <2>. QED BY <2>1, FS_Subset, FS_CardinalityType DEF Keyed
<1>8. Cardinality(X) <= Cardinality(Above(Newest(S, n), r)) BY <1>6, <1>7, FS_Subset
<1>9. Cardinality(X) >= n BY <1>4
<1>10. Cardinality(X) \in Nat BY <1>4, AboveFinite DEF Keyed
<1>. QED BY <1>7, <1>8, <1>9, <1>10

LEMMA NewestFinite ==
  ASSUME NEW S, IsFiniteSet(S), NEW n
  PROVE  /\ Newest(S, n) \subseteq S /\ IsFiniteSet(Newest(S, n))
         /\ Cardinality(Newest(S, n)) \in Nat
<1>1. Newest(S, n) \in SUBSET S BY DEF Newest
<1>. QED BY <1>1, FS_Subset, FS_CardinalityType

(* What was cut is full; and so is the cut of what was full. *)
LEMMA CutIsFull ==
  ASSUME NEW S, Keyed(S), NEW n \in Nat, Newest(S, n) # S \/ Cardinality(S) >= n
  PROVE  Cardinality(Newest(S, n)) >= n
<1>1. CASE Newest(S, n) = S BY <1>1
<1>2. CASE Newest(S, n) # S
  <2>1. PICK r \in S : r \notin Newest(S, n) BY <1>2, NewestFinite DEF Keyed
  <2>2. Cardinality(Above(Newest(S, n), r)) >= n BY <2>1, CutOutByNewer
  <2>3. IsFiniteSet(Newest(S, n)) /\ Cardinality(Newest(S, n)) \in Nat
    BY NewestFinite DEF Keyed
  <2>4. Above(Newest(S, n), r) \in SUBSET Newest(S, n) BY DEF Above
  <2>5. Cardinality(Above(Newest(S, n), r)) <= Cardinality(Newest(S, n))
    BY <2>3, <2>4, FS_Subset
  <2>6. Cardinality(Above(Newest(S, n), r)) \in Nat BY <2>3, AboveFinite
  <2>. QED BY <2>2, <2>3, <2>5, <2>6
<1>. QED BY <1>1, <1>2

(* What a client is shown of a list: as many records as it has. *)
Shows(S) == {[id |-> r.id, ver |-> r.ver, active |-> r.active, events |-> r.events] : r \in S}
LEMMA ShowsAll ==
  ASSUME NEW S, IsFiniteSet(S), OnePerId(S)
  PROVE  Cardinality(Shows(S)) = Cardinality(S)
<1> DEFINE Show(r) == [id |-> r.id, ver |-> r.ver, active |-> r.active, events |-> r.events]
           f == [r \in S |-> Show(r)]
<1>1. f \in Surjection(S, Shows(S)) BY DEF Surjection, Shows
<1>2. \A r, s \in S : f[r] = f[s] => r = s
  <2>1. ASSUME NEW r \in S, NEW s \in S, f[r] = f[s] PROVE r = s
    <3>1. Show(r) = Show(s) BY <2>1
    <3>2. Show(r).id = r.id /\ Show(s).id = s.id OBVIOUS
    <3>. QED BY <3>1, <3>2 DEF OnePerId
  <2>. QED BY <2>1
<1>3. f \in Injection(S, Shows(S)) 
  <2>1. f \in [S -> Shows(S)] BY <1>1 DEF Surjection
  <2>. HIDE DEF f
  <2>. QED BY <1>2, <2>1 DEF Injection, IsInjective
<1>. HIDE DEF f
<1>. QED BY <1>1, <1>3, FS_Surjection

LEMMA ShowsEach ==
  ASSUME NEW S, NEW u \in S
  PROVE  \E s \in Shows(S) : s.id = u.id /\ s.ver = u.ver /\ s.active = u.active /\ s.events = u.events
<1> DEFINE v == [id |-> u.id, ver |-> u.ver, active |-> u.active, events |-> u.events]
<1>1. v \in Shows(S) BY DEF Shows
<1>2. v.id = u.id /\ v.ver = u.ver /\ v.active = u.active /\ v.events = u.events OBVIOUS
<1>. HIDE DEF v
<1>. QED BY <1>1, <1>2

LEMMA OverriddenHolds ==
  ASSUME NEW own, NEW found, IsFiniteSet(own), IsFiniteSet(found),
         OnePerId(own), OnePerId(found)
  PROVE  /\ IsFiniteSet(Overridden(own, found)) /\ OnePerId(Overridden(own, found))
         /\ Cardinality(own) <= Cardinality(Overridden(own, found))
         /\ Cardinality(found) <= Cardinality(Overridden(own, found))
<1> DEFINE U == Overridden(own, found)
           g == [q \in found |-> IF Has(own, q.id) THEN CHOOSE s \in own : s.id = q.id ELSE q]
<1>1. IsFiniteSet(U)
  <2>1. IsFiniteSet(own \cup found) BY FS_Union
  <2>2. U \in SUBSET (own \cup found) BY DEF Overridden
  <2>. HIDE DEF U
  <2>. QED BY <2>1, <2>2, FS_Subset
<1>2. OnePerId(U) BY DEF OnePerId, Overridden
<1>3. Cardinality(own) <= Cardinality(U)
  <2>1. own \in SUBSET U BY DEF Overridden
  <2>. HIDE DEF U
  <2>. QED BY <1>1, <2>1, FS_Subset
<1>4. \A q \in found : g[q] \in U /\ g[q].id = q.id BY DEF Overridden, Has
<1>5. g \in Injection(found, U)
  <2>1. g \in [found -> U] BY <1>4
  <2>2. \A p, q \in found : g[p] = g[q] => p = q BY <1>4 DEF OnePerId
  <2>. HIDE DEF g, U
  <2>. QED BY <2>1, <2>2 DEF Injection, IsInjective
<1>6. Cardinality(found) <= Cardinality(U)
  <2>. HIDE DEF g, U
  <2>. QED BY <1>1, <1>5, FS_Injection
<1>. QED BY <1>1, <1>2, <1>3, <1>6

--------------------------------------------------------------------------------
(* The write of a record and its place in the queue. *)
LEMMA QueueMoves ==
  ASSUME RecordTypes, NEW S, S \subseteq Rec, Queue(S)
  PROVE  /\ waiting' \in [Ids -> Rec \cup {NoRec}] /\ inflight' \in [Ids -> Rec \cup {NoRec}]
         /\ \A i \in Ids :
              \/ inflight'[i] = inflight[i] /\ waiting'[i] = waiting[i]
              \/ \E r \in S : /\ r.id = i /\ r # NoRec
                              /\ inflight[i] = NoRec => inflight'[i] = r /\ waiting'[i] = waiting[i]
                              /\ inflight[i] # NoRec => inflight'[i] = inflight[i] /\ waiting'[i] = r
<1> DEFINE Of(i) == CHOOSE r \in S : r.id = i
           Queued == {r.id : r \in S}
<1>1. ASSUME NEW i \in Queued PROVE Of(i) \in S /\ Of(i).id = i /\ Of(i) # NoRec
  <2>1. \E r \in S : r.id = i BY <1>1
  <2>2. Of(i) \in S /\ Of(i).id = i BY <2>1
  <2>. HIDE DEF Of
  <2>. QED BY <2>2, NoRecAssumption
<1>2. /\ inflight' = [i \in Ids |-> IF i \in Queued /\ inflight[i] = NoRec THEN Of(i) ELSE inflight[i]]
      /\ waiting' = [i \in Ids |-> IF i \in Queued /\ inflight[i] # NoRec THEN Of(i) ELSE waiting[i]]
  BY DEF Queue
<1>3. waiting \in [Ids -> Rec \cup {NoRec}] /\ inflight \in [Ids -> Rec \cup {NoRec}]
  BY DEF RecordTypes
<1>. HIDE DEF Of, Queued
<1>. QED BY <1>1, <1>2, <1>3

(* What a call writes: new versions of what there is, or a record of its own,  *)
(* and no list loses a record unless it is full.                              *)
Newer(s) == Behind(rows[s.id], s) /\ Behind(inflight[s.id], s) /\ Behind(waiting[s.id], s)
Succeeds(l) ==
  l.id > made \/ \E k \in local : k.id = l.id /\ k.ver <= l.ver /\ (kind \in CardKinds => k.key = l.key)
Writes(S) ==
  /\ S \cup local' \subseteq Rec /\ IsFiniteSet(local') /\ OnePerId(S \cup local')
  /\ made' \in Nat /\ made <= made' /\ made' <= MaxIds /\ (kind \in Single => made' <= 1)
  /\ ticks' \in Nat
  /\ \A s \in S \cup local' : Sound(s, made') /\ Newer(s) /\ Succeeds(s)
  /\ kind \in Merging => \A k \in local : Has(local', k.id) \/ Full'
  /\ kind \notin {"activity"} /\ kind \in Merging => \A k \in local : Has(local', k.id)
  /\ Full => Full'
  /\ kind = "approvals" => Cardinality(local) <= Cardinality(local')
  /\ UNCHANGED <<kind, rows, asked, reading, told>>

LEMMA WriteKeeps ==
  ASSUME RecordsInv, NEW S, Writes(S), Queue(S)
  PROVE  RecordsInv'
<1> USE DEF RecordsInv
<1>0. kind' = kind /\ rows' = rows /\ asked' = asked /\ reading' = reading /\ told' = told
  BY DEF Writes
<1>1. RecordTypes'
  <2>1. S \subseteq Rec BY DEF Writes
  <2>2. waiting' \in [Ids -> Rec \cup {NoRec}] /\ inflight' \in [Ids -> Rec \cup {NoRec}]
    BY <2>1, QueueMoves
  <2>3. OnePerId(local') BY DEF Writes, OnePerId
  <2>. QED BY <1>0, <2>2, <2>3 DEF RecordTypes, Writes
<1>2. \A i \in Ids :
        \/ inflight'[i] = inflight[i] /\ waiting'[i] = waiting[i]
        \/ \E r \in S : /\ r.id = i /\ r # NoRec
                        /\ inflight[i] = NoRec => inflight'[i] = r /\ waiting'[i] = waiting[i]
                        /\ inflight[i] # NoRec => inflight'[i] = inflight[i] /\ waiting'[i] = r
  <2>1. S \subseteq Rec BY DEF Writes
  <2>. QED BY <2>1, QueueMoves
<1>3. made \in Nat /\ made' \in Nat /\ made <= made' BY DEF Writes, RecordTypes
<1>4. \A r : r.id \in Nat => (Sound(r, made) => Sound(r, made')) /\ (SoundRow(r, made) => SoundRow(r, made'))
  BY <1>0, <1>3 DEF Sound, SoundRow
<1>5. RecordsSound'
  <2>1. \A r \in local' \cup asked' : Sound(r, made')
    <3>1. ASSUME NEW r \in asked PROVE Sound(r, made')
      <4>1. r.id \in Nat BY DEF RecordTypes, Rec, Ids
      <4>2. Sound(r, made) BY DEF RecordsSound
      <4>. QED BY <1>4, <4>1, <4>2
    <3>. QED BY <1>0, <3>1 DEF Writes
  <2>2. ASSUME NEW i \in Ids
        PROVE  /\ inflight'[i] # NoRec => Sound(inflight'[i], made') /\ inflight'[i].id = i
               /\ waiting'[i] # NoRec => Sound(waiting'[i], made') /\ waiting'[i].id = i
               /\ rows'[i] # NoRec => SoundRow(rows'[i], made') /\ rows'[i].id = i
    <3>1. i \in Nat BY DEF Ids
    <3>2. /\ inflight[i] # NoRec => Sound(inflight[i], made') /\ inflight[i].id = i
          /\ waiting[i] # NoRec => Sound(waiting[i], made') /\ waiting[i].id = i
          /\ rows[i] # NoRec => SoundRow(rows[i], made') /\ rows[i].id = i
      BY <1>4, <3>1 DEF RecordsSound
    <3>3. \A r \in S : Sound(r, made') BY DEF Writes
    <3>. QED BY <1>0, <1>2, <3>2, <3>3
  <2>. QED BY <1>0, <2>1, <2>2 DEF RecordsSound, Sound, SoundRow
<1>6. VersionsGrow'
  <2>1. ASSUME NEW i \in Ids
        PROVE  /\ waiting'[i] # NoRec => inflight'[i] # NoRec /\ inflight'[i].ver <= waiting'[i].ver
               /\ rows'[i] # NoRec /\ inflight'[i] # NoRec => rows'[i].ver <= inflight'[i].ver
    <3>1. \A r \in S : r.id = i => Behind(rows[i], r) /\ Behind(inflight[i], r)
      BY DEF Writes, Newer
    <3>2. /\ waiting[i] # NoRec => inflight[i] # NoRec /\ inflight[i].ver <= waiting[i].ver
          /\ rows[i] # NoRec /\ inflight[i] # NoRec => rows[i].ver <= inflight[i].ver
      BY DEF VersionsGrow
    <3>. QED BY <1>0, <1>2, <3>1, <3>2 DEF Behind
  <2>2. ASSUME NEW l \in local'
        PROVE  Behind(rows'[l.id], l) /\ Behind(inflight'[l.id], l) /\ Behind(waiting'[l.id], l)
    <3>1. l.id \in Ids /\ l.ver \in Nat BY DEF Writes, Rec
    <3>2. Behind(rows[l.id], l) /\ Behind(inflight[l.id], l) /\ Behind(waiting[l.id], l)
      BY DEF Writes, Newer
    <3>3. \A r \in S : r.id = l.id => r = l BY DEF Writes, OnePerId
    <3>4. inflight'[l.id] \in {inflight[l.id], l} /\ waiting'[l.id] \in {waiting[l.id], l}
      BY <1>2, <3>1, <3>3
    <3>5. Behind(l, l) BY <3>1 DEF Behind
    <3>. QED BY <1>0, <3>2, <3>4, <3>5
  <2>. QED BY <1>0, <2>1, <2>2 DEF VersionsGrow, Behind
<1>7. ASSUME NEW l \in local', NEW v \in Nat, l.id <= made,
             \A k \in local : k.id = l.id => v <= k.ver
      PROVE  v <= l.ver
  <2>1. l.id \in Nat /\ l.ver \in Nat BY DEF Writes, Rec, Ids
  <2>2. PICK k \in local : k.id = l.id /\ k.ver <= l.ver
    BY <1>3, <1>7, <2>1 DEF Writes, Succeeds
  <2>3. k.ver \in Nat BY DEF RecordTypes, Rec
  <2>. QED BY <1>7, <2>1, <2>2, <2>3
<1>8. \A i : kind \in Merging /\ Has(local, i) => Has(local', i) \/ Full'
  BY DEF Writes, Has
<1>9. AskedOld'
  <2>1. ASSUME NEW s \in asked
        PROVE  /\ \A l \in local' : l.id = s.id => s.ver <= l.ver
               /\ kind \in Merging => Has(local', s.id) \/ Full'
    <3>1. Sound(s, made) /\ s.ver \in Nat BY DEF RecordsSound, RecordTypes, Rec
    <3>2. s.id <= made BY <3>1 DEF Sound
    <3>3. \A k \in local : k.id = s.id => s.ver <= k.ver BY DEF AskedOld
    <3>4. \A l \in local' : l.id = s.id => s.ver <= l.ver BY <1>7, <3>1, <3>2, <3>3
    <3>5. kind \in Merging => Has(local, s.id) \/ Full BY DEF AskedOld
    <3>. QED BY <1>8, <3>4, <3>5 DEF Writes
  <2>. QED BY <1>0, <2>1 DEF AskedOld
<1>10. ToldRows' BY <1>0 DEF ToldRows, RowHas
<1>11. ToldMerged'
  <2>. SUFFICES ASSUME told.source = "merged"
                PROVE  /\ kind \in Merging
                       /\ \A r \in told.recs :
                            /\ r.id <= made' /\ r.events = r.ver /\ (kind = "activity" => r.ver = 1)
                            /\ \A l \in local' : l.id = r.id => r.ver <= l.ver
                            /\ Has(local', r.id) \/ RowHas(r)' \/ Full'
    BY <1>0 DEF ToldMerged
  <2>1. kind \in Merging BY DEF ToldMerged
  <2>2. ASSUME NEW r \in told.recs
        PROVE  /\ r.id <= made' /\ r.events = r.ver /\ (kind = "activity" => r.ver = 1)
               /\ \A l \in local' : l.id = r.id => r.ver <= l.ver
               /\ Has(local', r.id) \/ RowHas(r)' \/ Full'
    <3>1. r.id \in Nat /\ r.ver \in Nat BY DEF RecordTypes, Shown, Ids
    <3>2. /\ r.id <= made /\ r.events = r.ver /\ (kind = "activity" => r.ver = 1)
          /\ \A l \in local : l.id = r.id => r.ver <= l.ver
          /\ Has(local, r.id) \/ RowHas(r) \/ Full
      BY DEF ToldMerged
    <3>3. \A l \in local' : l.id = r.id => r.ver <= l.ver BY <1>7, <3>1, <3>2
    <3>4. RowHas(r) => RowHas(r)' BY <1>0 DEF RowHas
    <3>. QED BY <1>3, <1>8, <2>1, <3>1, <3>2, <3>3, <3>4 DEF Writes
  <2>. QED BY <2>1, <2>2
<1>12. ToldAsked'
  <2>1. ASSUME NEW r \in told.recs, CutOut(r), kind \in Merging PROVE CutOut(r)'
    <3>1. CASE kind = "activity" /\ Cardinality(asked) >= ReadLimit BY <1>0, <3>1 DEF CutOut
    <3>2. ASSUME kind \in CardKinds,
                 NEW l \in local, l.id = r.id,
                 Cardinality({s \in asked : s.key > l.key}) >= ReadLimit
          PROVE  CutOut(r)'
      <4>1. PICK k \in local' : k.id = l.id BY <3>2, <2>1 DEF Writes, Has, CardKinds
      <4>2. Sound(l, made) /\ l.id \in Nat BY DEF RecordsSound, RecordTypes, Rec, Ids
      <4>3. l.id <= made BY <4>2 DEF Sound
      <4>4. PICK j \in local : j.id = k.id /\ j.key = k.key
        BY <1>3, <3>2, <4>1, <4>2, <4>3 DEF Writes, Succeeds
      <4>5. j = l BY <4>1, <4>4 DEF RecordTypes, OnePerId
      <4>. QED BY <1>0, <3>2, <4>1, <4>4, <4>5 DEF CutOut
    <3>3. CASE kind = "approvals" /\ Cardinality(local) > ReadLimit
      <4>1. Cardinality(local) \in Nat /\ Cardinality(local') \in Nat
        BY FS_CardinalityType DEF RecordTypes, Writes
      <4>2. Cardinality(local) <= Cardinality(local') BY <3>3 DEF Writes
      <4>3. ReadLimit \in Nat BY RecordReadsAssumption DEF RecordReadsAssumption
      <4>. QED BY <1>0, <3>3, <4>1, <4>2, <4>3 DEF CutOut
    <3>. QED BY <2>1, <3>1, <3>2, <3>3 DEF CutOut
  <2>2. \A r : RowHas(r) => RowHas(r)' BY <1>0 DEF RowHas
  <2>. QED BY <1>0, <2>1, <2>2 DEF ToldAsked, ToldMerged
<1>. QED BY <1>1, <1>5, <1>6, <1>9, <1>10, <1>11, <1>12

(* Which of the stores drop their oldest records. *)
LEMMA MergingKept ==
  ASSUME NEW S, kind \in Merging
  PROVE  Kept(S) = IF kind = "activity" THEN Newest(S, LocalCap) ELSE S
<1>1. kind # "activity" => kind \notin {"history", "usage", "activity", "audit"}
  BY Zenon DEF Merging
<1>. QED BY <1>1 DEF Kept

LEMMA KeptKeeps ==
  ASSUME NEW S, Keyed(S)
  PROVE  /\ Kept(S) \subseteq S /\ IsFiniteSet(Kept(S))
         /\ kind \in Merging /\ kind # "activity" => Kept(S) = S
         /\ kind = "activity" /\ (Kept(S) # S \/ Cardinality(S) >= LocalCap) =>
              Cardinality(Kept(S)) >= LocalCap
<1>1. Kept(S) \in {S, Newest(S, LocalCap)} BY DEF Kept
<1>2. Newest(S, LocalCap) \subseteq S /\ IsFiniteSet(Newest(S, LocalCap))
  BY NewestFinite DEF Keyed
<1>3. ASSUME kind = "activity", Kept(S) # S \/ Cardinality(S) >= LocalCap
      PROVE  Cardinality(Kept(S)) >= LocalCap
  <2>1. Kept(S) = Newest(S, LocalCap) BY <1>3 DEF Kept
  <2>2. LocalCap \in Nat BY RecordReadsAssumption DEF RecordReadsAssumption
  <2>. QED BY <1>3, <2>1, <2>2, CutIsFull
<1>4. kind \in Merging /\ kind # "activity" => Kept(S) = S BY MergingKept
<1>. QED BY <1>1, <1>2, <1>3, <1>4 DEF Keyed

LEMMA NothingBeyond ==
  ASSUME RecordsInv, made + 1 \in Ids
  PROVE  rows[made + 1] = NoRec /\ inflight[made + 1] = NoRec /\ waiting[made + 1] = NoRec
<1>1. made \in Nat BY DEF RecordsInv, RecordTypes
<1>2. \A i \in Ids : /\ inflight[i] # NoRec => inflight[i].id = i /\ inflight[i].id <= made
                     /\ waiting[i] # NoRec => waiting[i].id = i /\ waiting[i].id <= made
                     /\ rows[i] # NoRec => rows[i].id = i /\ rows[i].id <= made
  BY DEF RecordsInv, RecordsSound, Sound, SoundRow
<1>. QED BY <1>1, <1>2

LEMMA MakeKeeps == ASSUME RecordsInv, Make PROVE RecordsInv'
<1> DEFINE r == [id |-> made + 1, ver |-> 1, key |-> ticks, active |-> FALSE, events |-> 1]
           S == IF SavesAll THEN local' ELSE {r}
           all == local \cup {r}
<1>0. /\ local' = Kept(all) /\ Queue(S) /\ made' = made + 1 /\ ticks' = ticks + 1
      /\ UNCHANGED <<kind, rows, asked, reading, told>>
  BY DEF Make
<1>1. /\ made \in Nat /\ ticks \in Nat /\ MaxIds \in Nat \ {0}
      /\ made + 1 <= MaxIds /\ (kind \in Single => made + 1 <= 1)
  BY RecordReadsAssumption DEF Make, RecordsInv, RecordTypes, RecordReadsAssumption
<1>2. made + 1 \in Ids /\ r \in Rec /\ r.id = made + 1 BY <1>1 DEF Ids, Rec
<1>3. all \subseteq Rec /\ IsFiniteSet(all) /\ Keyed(all)
  <2>1. IsFiniteSet(local) /\ local \subseteq Rec BY DEF RecordsInv, RecordTypes
  <2>2. all \subseteq Rec BY <1>2, <2>1
  <2>3. IsFiniteSet(all) BY <2>1, FS_AddElement
  <2>. HIDE DEF all
  <2>. QED BY <2>2, <2>3 DEF Keyed, Rec
<1>4. \A k \in local : k.id <= made /\ k.id \in Nat /\ Sound(k, made)
  <2>1. local \subseteq Rec BY DEF RecordsInv, RecordTypes
  <2>. QED BY <2>1 DEF RecordsInv, RecordsSound, Sound, Rec, Ids
<1>5. OnePerId(all)
  <2>1. OnePerId(local) BY DEF RecordsInv, RecordTypes
  <2>2. \A k \in local : k.id # r.id BY <1>1, <1>2, <1>4
  <2>. HIDE DEF r
  <2>. QED BY <2>1, <2>2 DEF OnePerId
<1>6. ASSUME NEW s \in all PROVE Sound(s, made') /\ Newer(s) /\ Succeeds(s)
  <2>1. CASE s \in local
    <3>1. Sound(s, made') BY <1>0, <1>1, <1>4, <2>1 DEF Sound
    <3>2. Newer(s) BY <2>1 DEF Newer, RecordsInv, VersionsGrow
    <3>3. s.ver \in Nat BY <2>1 DEF RecordsInv, RecordTypes, Rec
    <3>. QED BY <2>1, <3>1, <3>2, <3>3 DEF Succeeds
  <2>2. CASE s = r
    <3>1. Sound(r, made') BY <1>0, <1>1 DEF Sound
    <3>2. Newer(r) BY <1>2, NothingBeyond DEF Newer, Behind
    <3>3. r.id > made BY <1>1, <1>2
    <3>. QED BY <2>2, <3>1, <3>2, <3>3 DEF Succeeds
  <2>. QED BY <2>1, <2>2
<1>. HIDE DEF r
<1>7. /\ local' \subseteq all /\ IsFiniteSet(local')
      /\ kind \in Merging /\ kind # "activity" => local' = all
      /\ kind = "activity" /\ (local' # all \/ Cardinality(all) >= LocalCap) =>
           Cardinality(local') >= LocalCap
  BY <1>0, <1>3, KeptKeeps
<1>8. S \subseteq all BY <1>7
<1>9. Cardinality(local) <= Cardinality(all) /\ Cardinality(local) \in Nat
      /\ Cardinality(all) \in Nat /\ Cardinality(local') \in Nat
  <2>1. local \in SUBSET all OBVIOUS
  <2>. HIDE DEF all
  <2>. QED BY <1>3, <1>7, <2>1, FS_Subset, FS_CardinalityType
<1>10. kind \in Merging => \A k \in local : Has(local', k.id) \/ Full'
  <2>1. CASE local' = all BY <2>1 DEF Has
  <2>2. CASE local' # all BY <1>0, <1>7, <2>2 DEF Full
  <2>. QED BY <2>1, <2>2
<1>11. kind \notin {"activity"} /\ kind \in Merging => \A k \in local : Has(local', k.id)
  BY <1>7 DEF Has
<1>12. Full => Full'
  <2>1. LocalCap \in Nat BY RecordReadsAssumption DEF RecordReadsAssumption
  <2>. QED BY <1>0, <1>7, <1>9, <2>1 DEF Full
<1>13. kind = "approvals" => Cardinality(local) <= Cardinality(local')
  <2>1. kind = "approvals" => kind \in Merging BY Zenon DEF Merging
  <2>. QED BY <1>7, <1>9, <2>1
<1>14. Writes(S)
  <2>1. S \cup local' \subseteq all BY <1>7, <1>8
  <2>2. OnePerId(S \cup local') BY <1>5, <2>1 DEF OnePerId
  <2>3. S \cup local' \subseteq Rec BY <1>3, <2>1
  <2>4. \A s \in S \cup local' : Sound(s, made') /\ Newer(s) /\ Succeeds(s) BY <1>6, <2>1
  <2>. HIDE DEF S, all
  <2>. QED BY <1>0, <1>1, <1>7, <1>10, <1>11, <1>12, <1>13, <2>2, <2>3, <2>4 DEF Writes
<1>. QED BY <1>0, <1>14, WriteKeeps

LEMMA AlterKeeps == ASSUME RecordsInv, NEW r \in local, Alter(r) PROVE RecordsInv'
<1>1. PICK key \in (IF kind = "approvals" THEN {r.key, ticks} ELSE {r.key}),
           active \in (IF kind = "session" THEN BOOLEAN ELSE {r.active}) :
        /\ local' = (local \ {r}) \cup {Edited(r, key, active)}
        /\ Queue(IF SavesAll THEN local' ELSE {Edited(r, key, active)})
        /\ ticks' = IF key = ticks THEN ticks + 1 ELSE ticks
  BY DEF Alter
<1> DEFINE c == Edited(r, key, active)
           S == IF SavesAll THEN local' ELSE {c}
<1>0. /\ local' = (local \ {r}) \cup {c} /\ Queue(S) /\ made' = made
      /\ ticks' = IF key = ticks THEN ticks + 1 ELSE ticks
      /\ UNCHANGED <<kind, rows, asked, reading, told>>
  BY <1>1 DEF Alter
<1>2. kind # "activity" BY Zenon DEF Alter, Altered
<1>3. /\ r \in Rec /\ local \subseteq Rec /\ IsFiniteSet(local) /\ OnePerId(local)
      /\ made \in Nat /\ made <= MaxIds /\ (kind \in Single => made <= 1) /\ ticks \in Nat
  BY DEF RecordsInv, RecordTypes
<1>4. kind \in CardKinds => kind # "approvals" BY Zenon DEF CardKinds
<1>5. /\ c \in Rec /\ c.id = r.id /\ c.ver = r.ver + 1 /\ c.events = r.events + 1
      /\ (kind \in CardKinds => c.key = r.key)
  <2>1. key \in Nat /\ active \in BOOLEAN BY <1>3 DEF Rec
  <2>2. kind \in CardKinds => key = r.key BY <1>4
  <2>. QED BY <1>3, <2>1, <2>2 DEF Rec, Edited
<1>6. Sound(r, made) /\ Newer(r) BY DEF RecordsInv, RecordsSound, VersionsGrow, Newer
<1>. HIDE DEF c
<1>7. \A s \in local' : Sound(s, made') /\ Newer(s) /\ Succeeds(s)
  <2> TAKE s \in local'
  <2>1. CASE s \in local
    <3>1. Sound(s, made') /\ Newer(s)
      BY <1>0, <2>1 DEF RecordsInv, RecordsSound, VersionsGrow, Newer
    <3>2. s.ver \in Nat BY <1>3, <2>1 DEF Rec
    <3>. QED BY <2>1, <3>1, <3>2 DEF Succeeds
  <2>2. CASE s = c
    <3>1. r.ver \in Nat /\ r.events \in Nat BY <1>3 DEF Rec
    <3>2. Sound(c, made') BY <1>0, <1>2, <1>5, <1>6, <3>1 DEF Sound
    <3>3. /\ rows[r.id] \in Rec \cup {NoRec} /\ inflight[r.id] \in Rec \cup {NoRec}
          /\ waiting[r.id] \in Rec \cup {NoRec}
      BY <1>3 DEF RecordsInv, RecordTypes, Rec
    <3>4. \A q \in Rec \cup {NoRec} : Behind(q, r) => Behind(q, c)
      BY <1>5, <3>1 DEF Behind, Rec
    <3>5. Newer(c) BY <1>5, <1>6, <3>3, <3>4 DEF Newer
    <3>6. Succeeds(c) BY <1>5, <3>1 DEF Succeeds
    <3>. QED BY <2>2, <3>2, <3>5, <3>6
  <2>. QED BY <1>0, <2>1, <2>2
<1>8. OnePerId(local') BY <1>0, <1>3, <1>5 DEF OnePerId
<1>9. IsFiniteSet(local') /\ Cardinality(local') = Cardinality(local)
  <2>1. IsFiniteSet(local \ {r}) /\ Cardinality(local \ {r}) = Cardinality(local) - 1
    BY <1>3, FS_RemoveElement
  <2>2. c \notin local \ {r} BY <1>3, <1>5 DEF OnePerId
  <2>3. IsFiniteSet(local') /\ Cardinality(local') = Cardinality(local \ {r}) + 1
    BY <1>0, <2>1, <2>2, FS_AddElement
  <2>4. Cardinality(local) \in Nat BY <1>3, FS_CardinalityType
  <2>. QED BY <2>1, <2>3, <2>4
<1>10. \A k \in local : Has(local', k.id) BY <1>0, <1>5 DEF Has
<1>11. Full => Full' BY <1>0, <1>9 DEF Full
<1>12. S \subseteq local' BY <1>0
<1>13. Writes(S)
  <2>1. S \cup local' = local' BY <1>12
  <2>2. local' \subseteq Rec BY <1>0, <1>3, <1>5
  <2>3. ticks' \in Nat BY <1>0, <1>3
  <2>4. Cardinality(local) <= Cardinality(local')
    <3>1. Cardinality(local) \in Nat BY <1>3, FS_CardinalityType
    <3>. QED BY <1>9, <3>1
  <2>. HIDE DEF S
  <2>5. OnePerId(S \cup local') BY <1>8, <2>1
  <2>6. S \cup local' \subseteq Rec BY <2>1, <2>2
  <2>7. \A s \in S \cup local' : Sound(s, made') /\ Newer(s) /\ Succeeds(s) BY <1>7, <2>1
  <2>8. made' \in Nat /\ made <= made' /\ made' <= MaxIds /\ (kind \in Single => made' <= 1)
    BY <1>0, <1>3
  <2>. QED BY <1>0, <1>9, <1>10, <1>11, <2>3, <2>4, <2>5, <2>6, <2>7, <2>8 DEF Writes
<1>. QED BY <1>0, <1>13, WriteKeeps

--------------------------------------------------------------------------------
(* An upsert that landed or failed: the row stays or takes over what was under  *)
(* way, and the next version follows.                                         *)
TakesOver(q, i) ==
  /\ q \in Rec /\ q.id = i /\ q.ver = inflight[i].ver /\ SoundRow(q, made)
  /\ kind \in CardKinds => q.key = inflight[i].key
  /\ rows[i] # NoRec => rows[i].events <= q.events

LEMMA DrainKeeps ==
  ASSUME RecordsInv, NEW i \in Ids, inflight[i] # NoRec, Drained(i),
         NEW q, rows' = [rows EXCEPT ![i] = q], q = rows[i] \/ TakesOver(q, i),
         ticks' \in Nat, UNCHANGED <<kind, local, made, asked, reading, told>>
  PROVE  RecordsInv'
<1> USE DEF RecordsInv
<1>1. /\ rows \in [Ids -> Rec \cup {NoRec}] /\ waiting \in [Ids -> Rec \cup {NoRec}]
      /\ inflight \in [Ids -> Rec \cup {NoRec}]
  BY DEF RecordTypes
<1>2. q \in Rec \cup {NoRec} BY <1>1 DEF TakesOver
<1>3. /\ rows'[i] = q /\ inflight'[i] = waiting[i] /\ waiting'[i] = NoRec
      /\ \A j \in Ids \ {i} : rows'[j] = rows[j] /\ inflight'[j] = inflight[j] /\ waiting'[j] = waiting[j]
      /\ rows' \in [Ids -> Rec \cup {NoRec}] /\ inflight' \in [Ids -> Rec \cup {NoRec}]
      /\ waiting' \in [Ids -> Rec \cup {NoRec}]
  BY <1>1, <1>2 DEF Drained
<1>4. RecordTypes' BY <1>3 DEF RecordTypes
<1>5. RecordsSound'
  <2>1. ASSUME NEW j \in Ids
        PROVE  /\ inflight'[j] # NoRec => Sound(inflight'[j], made) /\ inflight'[j].id = j
               /\ waiting'[j] # NoRec => Sound(waiting'[j], made) /\ waiting'[j].id = j
               /\ rows'[j] # NoRec => SoundRow(rows'[j], made) /\ rows'[j].id = j
    <3>1. CASE j = i BY <1>3, <3>1 DEF RecordsSound, TakesOver
    <3>2. CASE j # i BY <1>3, <3>2 DEF RecordsSound
    <3>. QED BY <3>1, <3>2
  <2>2. \A r \in local \cup asked : Sound(r, made) BY DEF RecordsSound
  <2>. QED BY <2>1, <2>2 DEF RecordsSound, Sound, SoundRow
<1>6. /\ inflight[i] \in Rec /\ (rows[i] # NoRec => rows[i] \in Rec /\ rows[i].ver <= inflight[i].ver)
      /\ (waiting[i] # NoRec => waiting[i] \in Rec /\ inflight[i].ver <= waiting[i].ver)
  BY <1>1 DEF VersionsGrow
<1>7. VersionsGrow'
  <2>1. ASSUME NEW j \in Ids
        PROVE  /\ waiting'[j] # NoRec => inflight'[j] # NoRec /\ inflight'[j].ver <= waiting'[j].ver
               /\ rows'[j] # NoRec /\ inflight'[j] # NoRec => rows'[j].ver <= inflight'[j].ver
    <3>1. CASE j = i BY <1>3, <1>6, <3>1 DEF TakesOver, Rec
    <3>2. CASE j # i BY <1>3, <3>2 DEF VersionsGrow
    <3>. QED BY <3>1, <3>2
  <2>2. ASSUME NEW l \in local
        PROVE  Behind(rows'[l.id], l) /\ Behind(inflight'[l.id], l) /\ Behind(waiting'[l.id], l)
    <3>1. l.id \in Ids BY DEF RecordTypes, Rec
    <3>2. Behind(rows[l.id], l) /\ Behind(inflight[l.id], l) /\ Behind(waiting[l.id], l)
      BY DEF VersionsGrow
    <3>3. CASE l.id = i BY <1>3, <1>6, <3>2, <3>3 DEF Behind, TakesOver
    <3>4. CASE l.id # i BY <1>3, <3>1, <3>2, <3>4
    <3>. QED BY <3>3, <3>4
  <2>. QED BY <2>1, <2>2 DEF VersionsGrow, Behind
<1>8. ASSUME NEW r, r.id \in Ids, r.ver \in Nat, RowHas(r)
      PROVE  rows'[r.id] # NoRec /\ r.ver <= rows'[r.id].ver /\ rows[r.id].events <= rows'[r.id].events
  <2>1. rows[r.id] # NoRec /\ rows[r.id] \in Rec /\ r.ver <= rows[r.id].ver
    BY <1>1, <1>8 DEF RowHas
  <2>2. CASE r.id = i /\ q # rows[i]
    <3>1. q # NoRec /\ q.ver = inflight[i].ver /\ rows[i].events <= q.events
      BY <2>1, <2>2, NoRecAssumption DEF TakesOver
    <3>. QED BY <1>3, <1>6, <1>8, <2>1, <2>2, <3>1 DEF Rec
  <2>3. CASE ~(r.id = i /\ q # rows[i]) BY <1>3, <1>8, <2>1, <2>3 DEF Rec
  <2>. QED BY <2>2, <2>3
<1>9. \A r \in told.recs : r.id \in Ids /\ r.ver \in Nat /\ r.events \in Nat BY DEF RecordTypes, Shown
<1>10. ToldRows'
  <2>1. ASSUME told.source = "rows", NEW r \in told.recs
        PROVE  rows'[r.id] # NoRec /\ r.ver <= rows'[r.id].ver /\ r.events <= rows'[r.id].events
    <3>1. RowHas(r) /\ r.events <= rows[r.id].events BY <2>1 DEF ToldRows
    <3>2. rows'[r.id] # NoRec /\ r.ver <= rows'[r.id].ver /\ rows[r.id].events <= rows'[r.id].events
      BY <1>8, <1>9, <3>1
    <3>3. rows[r.id] \in Rec /\ rows'[r.id] \in Rec BY <1>1, <1>3, <1>9, <3>1, <3>2 DEF RowHas
    <3>. QED BY <1>9, <3>1, <3>2, <3>3 DEF Rec
  <2>. QED BY <2>1 DEF ToldRows, RowHas
<1>11. ASSUME NEW r \in told.recs, RowHas(r) PROVE RowHas(r)' BY <1>8, <1>9, <1>11 DEF RowHas
<1>12. ToldMerged' BY <1>11 DEF ToldMerged, Full
<1>13. ToldAsked' BY <1>11 DEF ToldAsked, CutOut
<1>14. AskedOld' BY DEF AskedOld, Full
<1>. QED BY <1>4, <1>5, <1>7, <1>10, <1>12, <1>13, <1>14

LEMMA RowTakesOver ==
  ASSUME RecordsInv, NEW i \in Ids, inflight[i] # NoRec, NEW whole \in BOOLEAN,
         kind = "invoice" \/ whole
  PROVE  TakesOver(RowOf(inflight[i], rows[i], whole), i)
<1> DEFINE r == inflight[i]
           old == rows[i]
<1>1. /\ r \in Rec /\ r.id = i /\ Sound(r, made) /\ ticks \in Nat
      /\ old # NoRec => old \in Rec /\ old.id = i /\ SoundRow(old, made) /\ old.ver <= r.ver
  BY DEF RecordsInv, RecordTypes, RecordsSound, VersionsGrow
<1>2. old # NoRec => old.events <= r.events
  BY <1>1 DEF Sound, SoundRow, Rec
<1>. HIDE DEF r, old
<1>3. CASE kind = "invoice"
  <2>1. RowOf(r, old, whole) = InvoiceRow(r, old, whole) BY <1>3 DEF RowOf
  <2>2. kind \notin CardKinds BY <1>3, Zenon DEF CardKinds, Merging
  <2>3. kind # "activity" BY <1>3
  <2>. DEFINE e == IF whole THEN r.events ELSE IF old = NoRec THEN 0 ELSE old.events
  <2>4. e \in Nat /\ e <= r.ver /\ (old # NoRec => old.events <= e)
    BY <1>1, <1>2 DEF Sound, Rec
  <2>5. InvoiceRow(r, old, whole) = [r EXCEPT !.events = e] BY DEF InvoiceRow
  <2>. HIDE DEF e
  <2>6. [r EXCEPT !.events = e] \in Rec /\ [r EXCEPT !.events = e].id = i
        /\ [r EXCEPT !.events = e].ver = r.ver /\ [r EXCEPT !.events = e].events = e
    BY <1>1, <2>4 DEF Rec
  <2>. QED BY <1>1, <1>3, <2>1, <2>2, <2>4, <2>5, <2>6 DEF TakesOver, SoundRow, Sound, r, old
<1>4. CASE kind \in {"usage", "approvals"}
  <2>1. kind \notin CardKinds BY <1>4, Zenon DEF CardKinds, Merging
  <2>2. PICK k \in Nat : RowOf(r, old, whole) = [r EXCEPT !.key = k]
    <3>1. CASE kind = "usage"
      BY <1>1, <3>1 DEF RowOf, UsageRow, Rec
    <3>2. CASE kind = "approvals"
      <4>1. RowOf(r, old, whole) = ApprovalRow(r, old) BY <3>2 DEF RowOf
      <4>2. r = [r EXCEPT !.key = r.key] /\ r.key \in Nat BY <1>1 DEF Rec
      <4>. QED BY <1>1, <4>1, <4>2 DEF ApprovalRow
    <3>. QED BY <1>4, <3>1, <3>2
  <2>3. [r EXCEPT !.key = k] \in Rec /\ [r EXCEPT !.key = k].id = i
        /\ [r EXCEPT !.key = k].ver = r.ver /\ [r EXCEPT !.key = k].events = r.events
    BY <1>1, <2>2 DEF Rec
  <2>. QED BY <1>1, <1>2, <1>4, <2>1, <2>2, <2>3 DEF TakesOver, SoundRow, Sound, Rec, r, old
<1>5. CASE kind \notin {"invoice", "usage", "approvals"}
  <2>1. RowOf(r, old, whole) = r BY <1>5 DEF RowOf, PlainRow
  <2>. QED BY <1>1, <1>2, <1>5, <2>1 DEF TakesOver, SoundRow, Sound, Rec, r, old
<1>. QED BY <1>3, <1>4, <1>5

LEMMA RowLandsKeeps == ASSUME RecordsInv, NEW i \in Ids, RowLands(i) PROVE RecordsInv'
<1>1. PICK whole \in BOOLEAN : /\ kind = "invoice" \/ whole
                               /\ rows' = [rows EXCEPT ![i] = RowOf(inflight[i], rows[i], whole)]
  BY DEF RowLands
<1>2. inflight[i] # NoRec /\ Drained(i) /\ UNCHANGED <<kind, local, made, asked, reading, told>>
  BY DEF RowLands
<1>3. ticks' \in Nat BY DEF RowLands, RecordsInv, RecordTypes
<1>4. TakesOver(RowOf(inflight[i], rows[i], whole), i) BY <1>1, <1>2, RowTakesOver
<1>. QED BY <1>1, <1>2, <1>3, <1>4, DrainKeeps

LEMMA RowFailsKeeps == ASSUME RecordsInv, NEW i \in Ids, RowFails(i) PROVE RecordsInv'
<1>1. inflight[i] # NoRec /\ Drained(i) /\ UNCHANGED <<kind, local, made, asked, reading, told, rows, ticks>>
  BY DEF RowFails
<1>2. rows \in [Ids -> Rec \cup {NoRec}] /\ ticks \in Nat BY DEF RecordsInv, RecordTypes
<1>3. rows' = [rows EXCEPT ![i] = rows[i]] /\ ticks' \in Nat BY <1>1, <1>2
<1>. QED BY <1>1, <1>3, DrainKeeps

--------------------------------------------------------------------------------
(* A read that begins: what its list does not show was cut out by newer ones.  *)
LEMMA Limits == ReadLimit \in Nat \ {0} /\ LocalCap \in Nat \ {0} /\ ReadLimit <= LocalCap
  BY RecordReadsAssumption, CapAssumption DEF RecordReadsAssumption, CapAssumption

LEMMA LocalKeyed == ASSUME RecordsInv PROVE Keyed(local) /\ Keyed(asked)
  BY DEF RecordsInv, RecordTypes, Keyed, Rec

(* There is one session. *)
LEMMA OneSession ==
  ASSUME RecordsInv, kind = "session"
  PROVE  /\ \A r \in local \cup asked : r.id = 1
         /\ \A i \in Ids : rows[i] # NoRec => i = 1
         /\ told.source = "merged" => \A r \in told.recs : r.id = 1
<1>1. made \in Nat /\ made <= 1 BY DEF RecordsInv, RecordTypes, Single
<1>2. \A r \in local \cup asked : r.id \in Ids /\ r.id <= made
  BY DEF RecordsInv, RecordTypes, RecordsSound, Sound, Rec
<1>3. \A i \in Ids : rows[i] # NoRec => i <= made
  BY DEF RecordsInv, RecordsSound, SoundRow
<1>4. told.source = "merged" => \A r \in told.recs : r.id \in Ids /\ r.id <= made
  BY DEF RecordsInv, RecordTypes, ToldMerged, Shown
<1>. QED BY <1>1, <1>2, <1>3, <1>4 DEF Ids

LEMMA ListCut ==
  ASSUME RecordsInv, NEW l \in local, l \notin LocalList
  PROVE  /\ kind # "session"
         /\ kind = "activity" => Cardinality(LocalList) >= ReadLimit
         /\ kind \in CardKinds => Cardinality({s \in LocalList : s.key > l.key}) >= ReadLimit
         /\ kind = "approvals" => Cardinality(local) > ReadLimit
<1>0. IsFiniteSet(local) /\ Cardinality(local) \in Nat /\ Keyed(local)
  BY LocalKeyed, FS_CardinalityType DEF RecordsInv, RecordTypes
<1>1. ASSUME kind # "approvals"
      PROVE  /\ kind # "session" /\ Cardinality(LocalList) >= ReadLimit
             /\ Cardinality({s \in LocalList : s.key > l.key}) >= ReadLimit
  <2>1. LocalList = Newest(local, ReadLimit) BY <1>1 DEF LocalList
  <2>2. Cardinality(LocalList) >= ReadLimit BY <1>0, <2>1, Limits, CutIsFull
  <2>3. Cardinality(Above(Newest(local, ReadLimit), l)) >= ReadLimit
    BY <1>0, <2>1, Limits, CutOutByNewer
  <2>4. kind # "session"
    <3>. SUFFICES ASSUME kind = "session" PROVE FALSE OBVIOUS
    <3>1. \A s \in local : s = l BY OneSession DEF RecordsInv, RecordTypes, OnePerId
    <3>2. LocalList = {} BY <2>1, <3>1 DEF Newest
    <3>. QED BY <2>2, <3>2, Limits, FS_EmptySet
  <2>. QED BY <2>1, <2>2, <2>3, <2>4 DEF Above
<1>2. ASSUME kind = "approvals" PROVE Cardinality(local) > ReadLimit
  <2>. DEFINE below == {s \in local : s.key < l.key}
  <2>1. below \in SUBSET local OBVIOUS
  <2>2. IsFiniteSet(below) /\ Cardinality(below) <= Cardinality(local) /\ Cardinality(below) \in Nat
        /\ (Cardinality(local) = Cardinality(below) => local = below)
    <3>. HIDE DEF below
    <3>. QED BY <1>0, <2>1, FS_Subset, FS_CardinalityType
  <2>3. ~(Cardinality(below) < ReadLimit) BY <1>2 DEF LocalList, Oldest
  <2>4. local # below BY <1>0 DEF Keyed
  <2>. HIDE DEF below
  <2>. QED BY <1>0, <2>2, <2>3, <2>4, Limits
<1>3. kind \in CardKinds => kind # "approvals" BY DEF CardKinds
<1>. QED BY <1>1, <1>2, <1>3

LEMMA ReadAsksKeeps == ASSUME RecordsInv, ReadAsks PROVE RecordsInv'
<1>0. /\ reading' = TRUE /\ asked' = LocalList
      /\ UNCHANGED <<kind, local, made, rows, waiting, inflight, told, ticks>>
  BY DEF ReadAsks
<1>1. LocalList \subseteq local BY DEF LocalList, Newest, Oldest
<1>2. RecordTypes'
  <2>1. asked' \in SUBSET local BY <1>0, <1>1
  <2>2. IsFiniteSet(local) BY DEF RecordsInv, RecordTypes
  <2>3. IsFiniteSet(asked') BY <2>1, <2>2, FS_Subset
  <2>4. OnePerId(asked') BY <2>1 DEF RecordsInv, RecordTypes, OnePerId
  <2>. QED BY <1>0, <2>1, <2>3, <2>4 DEF RecordsInv, RecordTypes
<1>3. RecordsSound' BY <1>0, <1>1 DEF RecordsInv, RecordsSound, Sound, SoundRow
<1>4. VersionsGrow' BY <1>0 DEF RecordsInv, VersionsGrow, Behind
<1>5. AskedOld'
  <2>1. ASSUME NEW s \in asked' PROVE (\A l \in local : l.id = s.id => s.ver <= l.ver) /\ Has(local, s.id)
    <3>1. s \in local /\ s.ver \in Nat BY <1>0, <1>1 DEF RecordsInv, RecordTypes, Rec
    <3>. QED BY <3>1 DEF RecordsInv, RecordTypes, OnePerId, Has
  <2>. QED BY <1>0, <2>1 DEF AskedOld, Has
<1>6. ToldRows' /\ ToldMerged' BY <1>0 DEF RecordsInv, ToldRows, ToldMerged, RowHas, Full
<1>7. ToldAsked'
  <2>1. ASSUME told.source = "merged", NEW r \in told.recs
        PROVE  /\ \A s \in LocalList : s.id = r.id => r.ver <= s.ver
               /\ Has(LocalList, r.id) \/ RowHas(r) \/ CutOut(r)'
    <3>1. /\ \A l \in local : l.id = r.id => r.ver <= l.ver
          /\ Has(local, r.id) \/ RowHas(r) \/ Full
      BY <2>1 DEF RecordsInv, ToldMerged
    <3>2. ASSUME Has(local, r.id), ~Has(LocalList, r.id) PROVE CutOut(r)'
      <4>1. PICK l \in local : l.id = r.id /\ l \notin LocalList BY <3>2 DEF Has
      <4>2. kind \in Merging BY <2>1 DEF RecordsInv, ToldMerged
      <4>3. kind \in {"session", "activity", "approvals"} \/ kind \in CardKinds
        BY <4>2 DEF CardKinds
      <4>4. CASE kind = "activity" BY <1>0, <4>1, <4>4, ListCut DEF CutOut
      <4>5. CASE kind \in CardKinds BY <1>0, <4>1, <4>5, ListCut DEF CutOut
      <4>6. CASE kind = "approvals" BY <1>0, <4>1, <4>6, ListCut DEF CutOut
      <4>. QED BY <4>1, <4>3, <4>4, <4>5, <4>6, ListCut
    <3>3. ASSUME Full PROVE CutOut(r)'
      <4>1. kind = "activity" /\ Cardinality(local) >= ReadLimit
        <5>1. Cardinality(local) \in Nat BY FS_CardinalityType DEF RecordsInv, RecordTypes
        <5>. QED BY <3>3, <5>1, Limits DEF Full
      <4>2. LocalList = Newest(local, ReadLimit) BY <4>1 DEF LocalList
      <4>3. Cardinality(LocalList) >= ReadLimit BY <4>1, <4>2, Limits, LocalKeyed, CutIsFull
      <4>. QED BY <1>0, <4>1, <4>3 DEF CutOut
    <3>. QED BY <1>1, <3>1, <3>2, <3>3
  <2>. QED BY <1>0, <2>1 DEF ToldAsked, Has, RowHas
<1>. QED BY <1>2, <1>3, <1>4, <1>5, <1>6, <1>7 DEF RecordsInv

--------------------------------------------------------------------------------
(* What a query finds: records of the rows, one for each id. *)
LEMMA QueriedFinite ==
  ASSUME RecordsInv
  PROVE  /\ \A q \in Stored : q \in Rec /\ rows[q.id] = q /\ q # NoRec /\ SoundRow(q, made)
         /\ Keyed(Stored) /\ OnePerId(Stored)
         /\ Queried \subseteq Stored /\ Keyed(Queried) /\ OnePerId(Queried)
<1>1. rows \in [Ids -> Rec \cup {NoRec}] BY DEF RecordsInv, RecordTypes
<1>2. \A q \in Stored : q \in Rec /\ rows[q.id] = q /\ q # NoRec /\ SoundRow(q, made)
  BY <1>1 DEF Stored, RecordsInv, RecordsSound
<1>3. IsFiniteSet(Stored)
  <2>. DEFINE I == {i \in Ids : rows[i] # NoRec}
              f == [i \in I |-> rows[i]]
  <2>1. IsFiniteSet(Ids)
    <3>1. MaxIds \in Int BY RecordReadsAssumption DEF RecordReadsAssumption
    <3>. QED BY <3>1, FS_Interval DEF Ids
  <2>2. I \in SUBSET Ids OBVIOUS
  <2>3. f \in Surjection(I, Stored) BY DEF Surjection, Stored
  <2>. HIDE DEF I, f
  <2>4. IsFiniteSet(I) BY <2>1, <2>2, FS_Subset
  <2>. QED BY <2>3, <2>4, FS_Surjection
<1>4. Keyed(Stored) /\ OnePerId(Stored) BY <1>2, <1>3 DEF Keyed, OnePerId, Rec
<1>5. Queried \subseteq Stored /\ IsFiniteSet(Queried) BY <1>3, NewestFinite DEF Queried
<1>. QED BY <1>2, <1>4, <1>5 DEF Keyed, OnePerId

(* The answers of a read, by the kind of the records. *)
Listing == {"activity", "approvals", "cards", "transactions"}
LEMMA AnswerKinds ==
  ASSUME kind \in AllKinds, NEW own, NEW found
  PROVE  /\ AnswerFrom(own, found).source \in {"local", "rows", "merged"}
         /\ AnswerFrom(own, found).source = "rows" => AnswerFrom(own, found).recs = found
         /\ AnswerFrom(own, found).source = "local" => AnswerFrom(own, found).recs = own
         /\ AnswerFrom(own, found).source = "merged" =>
              \/ kind \in Listing
                 /\ AnswerFrom(own, found).recs = Newest(Overridden(own, found), ReadLimit)
              \/ kind = "session"
                 /\ AnswerFrom(own, found).recs =
                      IF own = {} THEN RecoveryView(found) ELSE Overridden(own, found)
         /\ kind = "session" /\ found # {} => AnswerFrom(own, found).source = "merged"
<1> USE DEF FromRows, Unread, Merged, Listing
<1>1. CASE kind = "history" BY <1>1 DEF AnswerFrom, HistoryAnswer
<1>2. CASE kind = "invoice" BY <1>2 DEF AnswerFrom, InvoiceAnswer
<1>3. CASE kind = "usage" BY <1>3 DEF AnswerFrom, UsageAnswer
<1>4. CASE kind = "audit" BY <1>4 DEF AnswerFrom, AuditAnswer
<1>5. CASE kind = "activity" BY <1>5 DEF AnswerFrom, ActivityAnswer
<1>6. CASE kind = "approvals" BY <1>6 DEF AnswerFrom, ApprovalsAnswer
<1>7. CASE kind = "cards" BY <1>7 DEF AnswerFrom, CardsAnswer
<1>8. CASE kind = "transactions" BY <1>8 DEF AnswerFrom, CardTransactionsAnswer
<1>9. CASE kind = "session" BY <1>9 DEF AnswerFrom, SessionAnswer
<1>10. CASE kind = "webhook" BY <1>10 DEF AnswerFrom, WebhookAnswer
<1>. QED BY <1>1, <1>2, <1>3, <1>4, <1>5, <1>6, <1>7, <1>8, <1>9, <1>10 DEF AllKinds

LEMMA Answers ==
  ASSUME RecordsInv, ReadAnswers
  PROVE  /\ UNCHANGED <<kind, local, made, rows, waiting, inflight, ticks>>
         /\ reading' = FALSE /\ asked' = {}
         /\ told'.had = IF kind = "session" THEN asked ELSE {}
         /\ \/ told'.source = "local" /\ told'.recs = Shows(asked)
            \/ told'.source = "rows" /\ told'.recs = Shows(Queried)
            \/ /\ told'.source = "merged" /\ kind \in Listing
               /\ told'.recs = Shows(Newest(Overridden(asked, Queried), ReadLimit))
            \/ /\ told'.source = "merged" /\ kind = "session"
               /\ told'.recs = Shows(IF asked = {} THEN RecoveryView(Queried)
                                     ELSE Overridden(asked, Queried))
<1>1. PICK answer \in {AnswerFrom(asked, Queried), Unread(asked)} :
        told' = [source |-> answer.source, recs |-> Shows(answer.recs),
                 had |-> IF kind = "session" THEN asked ELSE {}]
  BY DEF ReadAnswers, Tells, Shows
<1>2. kind \in AllKinds BY DEF RecordsInv, RecordTypes
<1>3. CASE answer = Unread(asked) BY <1>1, <1>3 DEF ReadAnswers, Unread
<1>4. CASE answer = AnswerFrom(asked, Queried) BY <1>1, <1>2, <1>4, AnswerKinds DEF ReadAnswers
<1>. QED BY <1>3, <1>4

(* What a merged answer may be of: the list of the read, or the rows. *)
LEMMA AnswerOf ==
  ASSUME RecordsInv, NEW s \in asked \cup Queried, kind \in Merging
  PROVE  /\ s.id <= made /\ s.events = s.ver /\ (kind = "activity" => s.ver = 1)
         /\ \A l \in local : l.id = s.id => s.ver <= l.ver
         /\ Has(local, s.id) \/ RowHas(s) \/ Full
<1>1. CASE s \in asked
  BY <1>1 DEF RecordsInv, RecordsSound, Sound, AskedOld
<1>2. CASE s \in Queried
  <2>1. s \in Rec /\ rows[s.id] = s /\ s # NoRec /\ SoundRow(s, made) BY <1>2, QueriedFinite
  <2>2. kind # "invoice" BY DEF Merging
  <2>3. \A l \in local : l.id = s.id => s.ver <= l.ver
    BY <2>1 DEF RecordsInv, VersionsGrow, Behind
  <2>4. RowHas(s) BY <2>1 DEF RowHas, Rec
  <2>. QED BY <2>1, <2>2, <2>3, <2>4 DEF SoundRow
<1>. QED BY <1>1, <1>2

LEMMA ReadAnswersKeeps == ASSUME RecordsInv, ReadAnswers PROVE RecordsInv'
<1>0. /\ UNCHANGED <<kind, local, made, rows, waiting, inflight, ticks>>
      /\ reading' = FALSE /\ asked' = {}
  BY Answers
<1>1. asked \subseteq Rec /\ Queried \subseteq Rec
  BY QueriedFinite DEF RecordsInv, RecordTypes
<1>2. ASSUME NEW T, T \subseteq Rec PROVE Shows(T) \subseteq Shown
  BY <1>2 DEF Shows, Rec, Shown
<1>3. RecoveryView(Queried) \subseteq Rec
  <2>1. \A r \in Rec : [r EXCEPT !.active = FALSE] \in Rec BY DEF Rec
  <2>. QED BY <1>1, <2>1 DEF RecoveryView
<1>4. /\ Overridden(asked, Queried) \subseteq asked \cup Queried
      /\ Newest(Overridden(asked, Queried), ReadLimit) \subseteq asked \cup Queried
  BY DEF Overridden, Newest
<1>5. told'.source \in Sources /\ told'.recs \subseteq Shown
  <2>1. Shows(asked) \subseteq Shown /\ Shows(Queried) \subseteq Shown BY <1>1, <1>2
  <2>2. /\ Shows(Newest(Overridden(asked, Queried), ReadLimit)) \subseteq Shown
        /\ Shows(Overridden(asked, Queried)) \subseteq Shown
    BY <1>1, <1>2, <1>4
  <2>3. Shows(RecoveryView(Queried)) \subseteq Shown BY <1>2, <1>3
  <2>. QED BY <2>1, <2>2, <2>3, Answers DEF Sources
<1>6. RecordTypes' BY <1>0, <1>5, FS_EmptySet DEF RecordsInv, RecordTypes, OnePerId
<1>7. RecordsSound' BY <1>0 DEF RecordsInv, RecordsSound, Sound, SoundRow
<1>8. VersionsGrow' BY <1>0 DEF RecordsInv, VersionsGrow, Behind
<1>9. AskedOld' BY <1>0 DEF AskedOld
<1>10. ToldAsked' BY <1>0 DEF ToldAsked
<1>11. ToldRows'
  <2>1. ASSUME told'.source = "rows", NEW r \in told'.recs
        PROVE  RowHas(r) /\ r.events <= rows[r.id].events
    <3>1. told'.recs = Shows(Queried) BY <2>1, Answers
    <3>2. PICK q \in Queried : r.id = q.id /\ r.ver = q.ver /\ r.events = q.events
      BY <2>1, <3>1 DEF Shows
    <3>3. rows[q.id] = q /\ q # NoRec /\ q \in Rec BY <3>2, QueriedFinite
    <3>. QED BY <3>2, <3>3 DEF RowHas, Rec
  <2>. QED BY <1>0, <2>1 DEF ToldRows, RowHas
<1>12. ToldMerged'
  <2>. SUFFICES ASSUME told'.source = "merged"
                PROVE  /\ kind \in Merging
                       /\ \A r \in told'.recs :
                            /\ r.id <= made /\ r.events = r.ver /\ (kind = "activity" => r.ver = 1)
                            /\ \A l \in local : l.id = r.id => r.ver <= l.ver
                            /\ Has(local, r.id) \/ RowHas(r) \/ Full
    BY <1>0 DEF ToldMerged, Has, RowHas, Full
  <2>1. kind \in Merging BY Answers DEF Listing, Merging
  <2>2. ASSUME NEW r \in told'.recs
        PROVE  \E s \in asked \cup Queried : r.id = s.id /\ r.ver = s.ver /\ r.events = s.events
    <3>1. ASSUME NEW T, T \subseteq asked \cup Queried, told'.recs = Shows(T)
          PROVE  \E s \in asked \cup Queried : r.id = s.id /\ r.ver = s.ver /\ r.events = s.events
      BY <2>2, <3>1 DEF Shows
    <3>2. ASSUME told'.recs = Shows(RecoveryView(Queried))
          PROVE  \E s \in asked \cup Queried : r.id = s.id /\ r.ver = s.ver /\ r.events = s.events
      <4>1. PICK v \in RecoveryView(Queried) : r.id = v.id /\ r.ver = v.ver /\ r.events = v.events
        BY <2>2, <3>2 DEF Shows
      <4>2. PICK q \in Queried : v = [q EXCEPT !.active = FALSE] BY <4>1 DEF RecoveryView
      <4>3. q \in Rec BY <1>1, <4>2
      <4>4. v.id = q.id /\ v.ver = q.ver /\ v.events = q.events BY <4>2, <4>3 DEF Rec
      <4>. QED BY <4>1, <4>2, <4>4
    <3>3. \/ told'.recs = Shows(Newest(Overridden(asked, Queried), ReadLimit))
          \/ told'.recs = Shows(Overridden(asked, Queried))
          \/ told'.recs = Shows(RecoveryView(Queried))
      BY Answers
    <3>. QED BY <1>4, <3>1, <3>2, <3>3
  <2>3. ASSUME NEW r \in told'.recs
        PROVE  /\ r.id <= made /\ r.events = r.ver /\ (kind = "activity" => r.ver = 1)
               /\ \A l \in local : l.id = r.id => r.ver <= l.ver
               /\ Has(local, r.id) \/ RowHas(r) \/ Full
    <3>1. PICK s \in asked \cup Queried : r.id = s.id /\ r.ver = s.ver /\ r.events = s.events
      BY <2>2
    <3>2. /\ s.id <= made /\ s.events = s.ver /\ (kind = "activity" => s.ver = 1)
          /\ \A l \in local : l.id = s.id => s.ver <= l.ver
          /\ Has(local, s.id) \/ RowHas(s) \/ Full
      BY <2>1, AnswerOf
    <3>. QED BY <3>1, <3>2 DEF RowHas
  <2>. QED BY <2>1, <2>3
<1>. QED BY <1>6, <1>7, <1>8, <1>9, <1>10, <1>11, <1>12 DEF RecordsInv

LEMMA EndsKeep == ASSUME RecordsInv, ServerRestarts \/ FilesLost PROVE RecordsInv'
<1>0. /\ waiting' = [i \in Ids |-> NoRec] /\ inflight' = [i \in Ids |-> NoRec]
      /\ reading' = FALSE /\ asked' = {}
      /\ UNCHANGED <<kind, made, rows, ticks>>
  BY DEF ServerRestarts, FilesLost
<1>1. local' = local \/ local' = {} BY DEF ServerRestarts, FilesLost
<1>2. \A i \in Ids : waiting'[i] = NoRec /\ inflight'[i] = NoRec BY <1>0
<1>3. RecordTypes'
  <2>1. /\ waiting' \in [Ids -> Rec \cup {NoRec}] /\ inflight' \in [Ids -> Rec \cup {NoRec}] BY <1>0
  <2>2. told'.source \in Sources /\ told'.recs \subseteq Shown
    BY DEF ServerRestarts, FilesLost, Untold, Sources, RecordsInv, RecordTypes
  <2>. QED BY <1>0, <1>1, <2>1, <2>2, FS_EmptySet DEF RecordsInv, RecordTypes, OnePerId
<1>4. RecordsSound' BY <1>0, <1>1, <1>2 DEF RecordsInv, RecordsSound, Sound, SoundRow
<1>5. VersionsGrow'
  <2>1. \A l \in local' : l.id \in Ids BY <1>1 DEF RecordsInv, RecordTypes, Rec
  <2>. QED BY <1>0, <1>1, <1>2, <2>1 DEF RecordsInv, VersionsGrow, Behind
<1>6. AskedOld' /\ ToldAsked' BY <1>0 DEF AskedOld, ToldAsked
<1>7. ToldRows' /\ ToldMerged'
  <2>1. CASE FilesLost BY <2>1 DEF FilesLost, Untold, ToldRows, ToldMerged
  <2>2. CASE ServerRestarts
    <3>1. told' = told /\ (kind # "audit" => local' = local) BY <2>2 DEF ServerRestarts
    <3>2. kind = "audit" => kind \notin Merging BY DEF Merging
    <3>. QED BY <1>0, <3>1, <3>2 DEF RecordsInv, ToldRows, ToldMerged, RowHas, Has, Full
  <2>. QED BY <2>1, <2>2
<1>. QED BY <1>3, <1>4, <1>5, <1>6, <1>7 DEF RecordsInv

LEMMA RecordsInvInit == RecordReadsInit => RecordsInv
<1>. SUFFICES ASSUME RecordReadsInit PROVE RecordsInv OBVIOUS
<1>1. RecordTypes
  <2>1. kind \in AllKinds /\ MaxIds \in Nat /\ MaxIds >= 0
    BY RecordReadsAssumption DEF RecordReadsAssumption, RecordReadsInit
  <2>2. IsFiniteSet(local) /\ IsFiniteSet(asked) BY FS_EmptySet DEF RecordReadsInit
  <2>3. OnePerId(local) /\ OnePerId(asked) BY DEF RecordReadsInit, OnePerId
  <2>4. told.source \in Sources /\ told.recs \subseteq Shown
    BY DEF RecordReadsInit, Untold, Sources
  <2>5. /\ rows \in [Ids -> Rec \cup {NoRec}] /\ waiting \in [Ids -> Rec \cup {NoRec}]
        /\ inflight \in [Ids -> Rec \cup {NoRec}]
        /\ local \subseteq Rec /\ asked \subseteq Rec /\ reading \in BOOLEAN
    BY DEF RecordReadsInit
  <2>6. made = 0 /\ ticks = 1 BY DEF RecordReadsInit
  <2>. QED BY <2>1, <2>2, <2>3, <2>4, <2>5, <2>6 DEF RecordTypes
<1>. QED BY <1>1
     DEF RecordReadsInit, RecordsInv, RecordsSound, VersionsGrow, AskedOld, ToldRows, ToldMerged,
         ToldAsked, Untold

LEMMA RecordsInvStep == RecordsInv /\ [RecordReadsNext]_recordVars => RecordsInv'
<1>. SUFFICES ASSUME RecordsInv, [RecordReadsNext]_recordVars PROVE RecordsInv' OBVIOUS
<1>1. CASE Make BY <1>1, MakeKeeps
<1>2. ASSUME NEW r \in local, Alter(r) PROVE RecordsInv' BY <1>2, AlterKeeps
<1>3. ASSUME NEW i \in Ids, RowLands(i) PROVE RecordsInv' BY <1>3, RowLandsKeeps DEF RowLands
<1>4. ASSUME NEW i \in Ids, RowFails(i) PROVE RecordsInv' BY <1>4, RowFailsKeeps DEF RowFails
<1>5. CASE ReadAsks BY <1>5, ReadAsksKeeps
<1>6. CASE ReadAnswers BY <1>6, ReadAnswersKeeps
<1>7. CASE ServerRestarts \/ FilesLost BY <1>7, EndsKeep
<1>8. CASE UNCHANGED recordVars
  <2>. USE <1>8 DEF recordVars, RecordsInv
  <2>1. RecordTypes' BY DEF RecordTypes
  <2>2. RecordsSound' BY DEF RecordsSound, Sound, SoundRow
  <2>3. VersionsGrow' BY DEF VersionsGrow, Behind
  <2>4. AskedOld' BY DEF AskedOld, Full
  <2>5. ToldRows' /\ ToldMerged' BY DEF ToldRows, ToldMerged, RowHas, Full
  <2>6. ToldAsked' BY DEF ToldAsked, RowHas, CutOut
  <2>. QED BY <2>1, <2>2, <2>3, <2>4, <2>5, <2>6
<1>. QED BY <1>1, <1>2, <1>3, <1>4, <1>5, <1>6, <1>7, <1>8 DEF RecordReadsNext

--------------------------------------------------------------------------------
(* A row is found by the query, or enough newer ones are. *)
LEMMA RowsKeepUp ==
  ASSUME RecordsInv, NEW r \in told.recs, told.source = "rows"
  PROVE  \/ Cardinality(Shows(Queried)) >= ReadLimit /\ \A s \in Shows(Queried) : s.id # r.id
         \/ \E s \in Shows(Queried) : s.id = r.id /\ s.ver >= r.ver /\ s.events >= r.events
<1>1. RowHas(r) /\ r.events <= rows[r.id].events BY DEF RecordsInv, ToldRows
<1>2. r.id \in Ids /\ r.ver \in Nat /\ r.events \in Nat BY DEF RecordsInv, RecordTypes, Shown
<1> DEFINE q == rows[r.id]
<1>3. q \in Stored /\ q \in Rec /\ q.id = r.id /\ q.ver >= r.ver /\ q.events >= r.events
  <2>1. q \in Stored BY <1>1, <1>2 DEF RowHas, Stored
  <2>2. q \in Rec BY <2>1, QueriedFinite
  <2>3. q.id = r.id BY <1>1, <1>2 DEF RowHas, RecordsInv, RecordsSound
  <2>. QED BY <1>1, <1>2, <2>1, <2>2, <2>3 DEF RowHas, Rec
<1>. HIDE DEF q
<1>4. CASE q \in Queried
  <2>1. PICK s \in Shows(Queried) : s.id = q.id /\ s.ver = q.ver /\ s.events = q.events
    BY <1>4, ShowsEach
  <2>. QED BY <1>3, <2>1
<1>5. CASE q \notin Queried
  <2>1. Cardinality(Queried) >= ReadLimit
    BY <1>3, <1>5, QueriedFinite, CutIsFull, Limits DEF Queried
  <2>2. Cardinality(Shows(Queried)) = Cardinality(Queried)
    BY QueriedFinite, ShowsAll DEF Keyed
  <2>3. \A s \in Queried : s.id # r.id BY <1>3, <1>5, QueriedFinite DEF OnePerId
  <2>. QED BY <2>1, <2>2, <2>3 DEF Shows
<1>. QED BY <1>4, <1>5

(* And in a list that merges both, a record of the earlier answer is of the    *)
(* list of the read, or of the rows, or cut out by newer ones.               *)
LEMMA ListingKeepsUp ==
  ASSUME RecordsInv, reading, NEW r \in told.recs, told.source = "merged", kind \in Listing,
         kind = "approvals" => Cardinality(local) <= ReadLimit,
         NEW U, U = Overridden(asked, Queried), NEW X, X = Newest(U, ReadLimit)
  PROVE  \/ Cardinality(Shows(X)) >= ReadLimit /\ \A s \in Shows(X) : s.id # r.id
         \/ \E s \in Shows(X) : s.id = r.id /\ s.ver >= r.ver /\ s.events >= r.events
<1>1. /\ r.id \in Ids /\ r.ver \in Nat /\ r.events = r.ver /\ (kind = "activity" => r.ver = 1)
      /\ \A s \in asked : s.id = r.id => r.ver <= s.ver
      /\ Has(asked, r.id) \/ RowHas(r) \/ CutOut(r)
  BY DEF RecordsInv, RecordTypes, Shown, ToldMerged, ToldAsked
<1>2. /\ IsFiniteSet(asked) /\ OnePerId(asked) /\ IsFiniteSet(Queried) /\ OnePerId(Queried)
      /\ asked \subseteq Rec /\ Queried \subseteq Rec
  BY QueriedFinite DEF RecordsInv, RecordTypes, Keyed
<1>3. /\ IsFiniteSet(U) /\ OnePerId(U) /\ U \subseteq asked \cup Queried
      /\ Cardinality(asked) <= Cardinality(U) /\ Cardinality(Queried) <= Cardinality(U)
      /\ Cardinality(asked) \in Nat /\ Cardinality(Queried) \in Nat /\ Cardinality(U) \in Nat
  <2>1. /\ IsFiniteSet(U) /\ OnePerId(U)
        /\ Cardinality(asked) <= Cardinality(U) /\ Cardinality(Queried) <= Cardinality(U)
    BY <1>2, OverriddenHolds
  <2>2. U \subseteq asked \cup Queried BY DEF Overridden
  <2>. QED BY <1>2, <2>1, <2>2, FS_CardinalityType
<1>4. Keyed(U) BY <1>2, <1>3 DEF Keyed, Rec
<1>5. X \subseteq U /\ IsFiniteSet(X) /\ OnePerId(X) /\ Cardinality(Shows(X)) = Cardinality(X)
  <2>1. X \subseteq U /\ IsFiniteSet(X) BY <1>3, NewestFinite
  <2>2. OnePerId(X) BY <1>3, <2>1 DEF OnePerId
  <2>. QED BY <2>1, <2>2, ShowsAll
<1>6. kind \in Merging /\ kind # "session" /\ kind # "invoice" BY DEF Listing, Merging
<1>7. ASSUME NEW u \in U, u.id = r.id 
      PROVE  \/ r.ver <= u.ver /\ u.events = u.ver /\ u.ver \in Nat
             \/ CutOut(r) /\ kind # "activity" /\ ~Has(asked, r.id) /\ u = rows[r.id]
  <2>1. u \in asked \cup Queried /\ u.ver \in Nat BY <1>2, <1>3 DEF Rec
  <2>2. u.events = u.ver /\ (kind = "activity" => u.ver = 1) BY <1>6, <2>1, AnswerOf
  <2>3. CASE u \in asked BY <1>1, <1>7, <2>1, <2>2, <2>3
  <2>4. CASE u \notin asked
    <3>1. u \in Queried /\ rows[u.id] = u BY <2>1, <2>4, QueriedFinite
    <3>2. ~Has(asked, r.id) BY <1>7, <2>4 DEF Overridden, Has
    <3>. QED BY <1>1, <1>7, <2>1, <2>2, <3>1, <3>2 DEF RowHas
  <2>. QED BY <2>3, <2>4
<1>8. ASSUME NEW u \in U, u.id = r.id, r.ver <= u.ver, u.events = u.ver, u.ver \in Nat
      PROVE  \/ Cardinality(Shows(X)) >= ReadLimit /\ \A s \in Shows(X) : s.id # r.id
             \/ \E s \in Shows(X) : s.id = r.id /\ s.ver >= r.ver /\ s.events >= r.events
  <2>1. CASE u \in X
    <3>1. PICK s \in Shows(X) : s.id = u.id /\ s.ver = u.ver /\ s.events = u.events
      BY <2>1, ShowsEach
    <3>. QED BY <1>1, <1>8, <3>1
  <2>2. CASE u \notin X
    <3>1. Cardinality(X) >= ReadLimit BY <1>4, <2>2, CutIsFull, Limits
    <3>2. \A s \in X : s.id # r.id BY <1>3, <1>5, <1>8, <2>2 DEF OnePerId
    <3>. QED BY <1>5, <3>1, <3>2 DEF Shows
  <2>. QED BY <2>1, <2>2
<1>9. ASSUME \A s \in X : s.id # r.id, Cardinality(U) >= ReadLimit
      PROVE  Cardinality(Shows(X)) >= ReadLimit /\ \A s \in Shows(X) : s.id # r.id
  <2>1. Cardinality(X) >= ReadLimit BY <1>4, <1>9, CutIsFull, Limits
  <2>. QED BY <1>5, <1>9, <2>1 DEF Shows
<1>10. CASE \E u \in U : u.id = r.id /\ r.ver <= u.ver /\ u.events = u.ver /\ u.ver \in Nat
  BY <1>8, <1>10
<1>11. CASE ~\E u \in U : u.id = r.id /\ r.ver <= u.ver /\ u.events = u.ver /\ u.ver \in Nat
  <2>1. ~Has(asked, r.id) BY <1>7, <1>11 DEF Has, Overridden
  <2>2. ASSUME RowHas(r) PROVE Cardinality(U) >= ReadLimit /\ \A s \in X : s.id # r.id
    <3>1. rows[r.id] \in Stored /\ rows[r.id] \in Rec /\ rows[r.id].id = r.id
      <4>1. rows[r.id] \in Stored BY <1>1, <2>2 DEF RowHas, Stored
      <4>2. rows[r.id].id = r.id BY <1>1, <2>2 DEF RowHas, RecordsInv, RecordsSound
      <4>. QED BY <4>1, <4>2, QueriedFinite
    <3>2. \A u \in U : u.id # r.id
      <4>. SUFFICES ASSUME NEW u \in U, u.id = r.id PROVE FALSE OBVIOUS
      <4>1. u = rows[r.id] BY <1>7, <1>11
      <4>2. u.ver \in Nat /\ r.ver <= u.ver BY <2>2, <3>1, <4>1 DEF RowHas, Rec
      <4>3. u.events = u.ver BY <1>3, <1>6, AnswerOf
      <4>. QED BY <1>11, <4>2, <4>3
    <3>3. rows[r.id] \notin Queried
      BY <2>1, <3>1, <3>2 DEF Overridden, Has
    <3>4. Cardinality(Queried) >= ReadLimit
      BY <3>1, <3>3, QueriedFinite, CutIsFull, Limits DEF Queried
    <3>. QED BY <1>3, <1>5, <3>2, <3>4, Limits
  <2>3. ASSUME CutOut(r) PROVE Cardinality(U) >= ReadLimit /\ \A s \in X : s.id # r.id
    <3>1. CASE kind = "activity" /\ Cardinality(asked) >= ReadLimit
      BY <1>3, <1>5, <1>7, <1>11, <3>1, Limits
    <3>2. ASSUME kind \in CardKinds, NEW l \in local, l.id = r.id,
                 Cardinality({s \in asked : s.key > l.key}) >= ReadLimit
          PROVE  Cardinality(U) >= ReadLimit /\ \A s \in X : s.id # r.id
      <4>. DEFINE newer == {s \in asked : s.key > l.key}
      <4>1. newer \in SUBSET asked OBVIOUS
      <4>2. newer \in SUBSET Above(U, l) BY DEF Above, Overridden
      <4>3. IsFiniteSet(Above(U, l)) /\ Cardinality(Above(U, l)) \in Nat BY <1>3, AboveFinite
      <4>4. Cardinality(newer) >= ReadLimit BY <3>2
      <4>. HIDE DEF newer
      <4>5. /\ IsFiniteSet(newer) /\ Cardinality(newer) <= Cardinality(asked)
            /\ Cardinality(newer) <= Cardinality(Above(U, l)) /\ Cardinality(newer) \in Nat
        BY <1>2, <4>1, <4>2, <4>3, FS_Subset, FS_CardinalityType
      <4>6. Cardinality(U) >= ReadLimit BY <1>3, <4>4, <4>5, Limits
      <4>7. ASSUME NEW s \in X, s.id = r.id PROVE FALSE
        <5>1. s \in U /\ s = rows[r.id] BY <1>5, <1>7, <1>11, <4>7
        <5>2. s # NoRec
          <6>1. s \in Rec BY <1>2, <1>3, <5>1
          <6>. QED BY <6>1, NoRecAssumption
        <5>3. s.key = l.key BY <3>2, <5>1, <5>2 DEF RecordsInv, VersionsGrow, Behind
        <5>4. Above(U, s) = Above(U, l) BY <5>3 DEF Above
        <5>5. Cardinality(Above(U, s)) < ReadLimit BY <4>7 DEF Newest, Above
        <5>. QED BY <4>3, <4>4, <4>5, <5>4, <5>5, Limits
      <4>. QED BY <4>6, <4>7
    <3>3. ~(kind = "approvals" /\ Cardinality(local) > ReadLimit)
      <4>1. Cardinality(local) \in Nat BY FS_CardinalityType DEF RecordsInv, RecordTypes
      <4>. QED BY <4>1, Limits
    <3>. QED BY <2>3, <3>1, <3>2, <3>3 DEF CutOut
  <2>. QED BY <1>1, <1>9, <2>1, <2>2, <2>3
<1>. QED BY <1>10, <1>11

LEMMA SessionKeepsUp ==
  ASSUME RecordsInv, reading, NEW r \in told.recs, told.source = "merged", kind = "session",
         NEW X, X = IF asked = {} THEN RecoveryView(Queried) ELSE Overridden(asked, Queried)
  PROVE  \E s \in Shows(X) : s.id = r.id /\ s.ver >= r.ver /\ s.events >= r.events
<1>1. /\ r.id \in Ids /\ r.id = 1 /\ r.ver \in Nat /\ r.events = r.ver
      /\ \A s \in asked : s.id = r.id => r.ver <= s.ver
      /\ Has(asked, r.id) \/ RowHas(r)
  <2>1. /\ r.id \in Ids /\ r.ver \in Nat /\ r.events = r.ver
        /\ \A s \in asked : s.id = r.id => r.ver <= s.ver
        /\ Has(asked, r.id) \/ RowHas(r) \/ CutOut(r)
    BY DEF RecordsInv, RecordTypes, Shown, ToldMerged, ToldAsked
  <2>2. ~CutOut(r) BY DEF CutOut, CardKinds
  <2>. QED BY <2>1, <2>2, OneSession
<1>2. ASSUME NEW u \in X, u.id = r.id, r.ver <= u.ver, u.events = u.ver, u.ver \in Nat
      PROVE  \E s \in Shows(X) : s.id = r.id /\ s.ver >= r.ver /\ s.events >= r.events
  <2>1. PICK s \in Shows(X) : s.id = u.id /\ s.ver = u.ver /\ s.events = u.events
    BY <1>2, ShowsEach
  <2>. QED BY <1>1, <1>2, <2>1
<1>3. CASE asked # {}
  <2>1. PICK s \in asked : TRUE BY <1>3
  <2>2. s \in X BY <1>3, <2>1 DEF Overridden
  <2>3. s.id = r.id /\ s.ver \in Nat /\ s.events = s.ver
    BY <1>1, <2>1, OneSession DEF RecordsInv, RecordTypes, RecordsSound, Sound, Rec
  <2>. QED BY <1>1, <1>2, <2>1, <2>2, <2>3
<1>4. CASE asked = {}
  <2>. DEFINE q == rows[r.id]
  <2>1. RowHas(r) BY <1>1, <1>4 DEF Has
  <2>2. q \in Stored /\ q \in Rec /\ SoundRow(q, made)
    <3>1. q \in Stored BY <1>1, <2>1 DEF RowHas, Stored
    <3>. QED BY <3>1, QueriedFinite
  <2>3. q.id = r.id /\ r.ver <= q.ver BY <1>1, <2>1 DEF RowHas, RecordsInv, RecordsSound
  <2>4. \A s \in Stored : s = q BY <1>1, OneSession DEF Stored
  <2>. HIDE DEF q
  <2>5. q \in Queried
    <3>1. {s \in Stored : s.key > q.key} = {} BY <2>2, <2>4 DEF Rec
    <3>2. Cardinality({s \in Stored : s.key > q.key}) = 0 BY <3>1, FS_EmptySet
    <3>. QED BY <2>2, <3>2, Limits DEF Queried, Newest
  <2>6. PICK v \in X : v = [q EXCEPT !.active = FALSE] BY <1>4, <2>5 DEF RecoveryView
  <2>7. v.id = q.id /\ v.ver = q.ver /\ v.events = q.events /\ q.ver \in Nat /\ q.events = q.ver
    BY <2>2, <2>6 DEF Rec, SoundRow
  <2>. QED BY <1>2, <2>3, <2>6, <2>7
<1>. QED BY <1>3, <1>4

LEMMA SessionActive ==
  ASSUME RecordsInv, ReadAnswers, kind = "session", NEW r \in told'.recs, r.active
  PROVE  \E s \in told'.had : s.active
<1>1. told'.had = asked BY Answers
<1>2. ASSUME NEW u \in Overridden(asked, Queried), asked # {} PROVE u \in asked
  <2>1. PICK s \in asked : TRUE BY <1>2
  <2>2. s.id = 1 BY OneSession
  <2>3. ASSUME u \in Queried PROVE u.id = 1
    <3>1. u \in Rec /\ rows[u.id] = u /\ u # NoRec BY <2>3, QueriedFinite
    <3>2. u.id \in Ids BY <3>1 DEF Rec
    <3>. QED BY <3>1, <3>2, OneSession
  <2>. QED BY <1>2, <2>2, <2>3 DEF Overridden
<1>3. ASSUME NEW T, told'.recs = Shows(T) PROVE \E u \in T : u.active
  <2>1. PICK u \in T :
          r = [id |-> u.id, ver |-> u.ver, active |-> u.active, events |-> u.events]
    BY <1>3 DEF Shows
  <2>2. r.active = u.active BY <2>1
  <2>. QED BY <2>2
<1>4. ASSUME NEW v \in RecoveryView(Queried) PROVE ~v.active
  <2>1. PICK q \in Queried : v = [q EXCEPT !.active = FALSE] BY <1>4 DEF RecoveryView
  <2>2. q \in Rec BY <2>1, QueriedFinite
  <2>. QED BY <2>1, <2>2 DEF Rec
<1>5. CASE told'.recs = Shows(asked) BY <1>1, <1>3, <1>5
<1>6. CASE told'.recs = Shows(IF asked = {} THEN RecoveryView(Queried)
                              ELSE Overridden(asked, Queried))
  <2>1. PICK u \in IF asked = {} THEN RecoveryView(Queried) ELSE Overridden(asked, Queried) :
          u.active
    BY <1>3, <1>6
  <2>. QED BY <1>1, <1>2, <1>4, <2>1
<1>7. told'.source # "rows"
  <2>1. kind \in AllKinds BY DEF RecordsInv, RecordTypes
  <2>2. SessionAnswer(asked, Queried).source # "rows" BY DEF SessionAnswer, Unread, Merged
  <2>3. AnswerFrom(asked, Queried) = SessionAnswer(asked, Queried) BY DEF AnswerFrom
  <2>. QED BY <2>2, <2>3 DEF ReadAnswers, Tells, Unread
<1>. QED BY <1>5, <1>6, <1>7, Answers DEF Listing

(* AnswersKeepUp for any number of records, changes, reads, failures and       *)
(* restarts (supabasePersistence.mjs:1061 and the readers beside it).         *)
THEOREM SpecAnswersKeepUp == RecordReadsSpec => AnswersKeepUp
<1>1. ASSUME RecordsInv, [RecordReadsNext]_recordVars, told' # told
      PROVE  /\ (told'.source = told.source /\ told.source \in {"rows", "merged"}
                 /\ (kind = "approvals" => Cardinality(local) <= ReadLimit)) =>
                   NotBehind(told.recs, told'.recs)
             /\ kind = "session" =>
                   \A r \in told'.recs : r.active => \E s \in told'.had : s.active
  <2>1. ReadAnswers \/ FilesLost
    BY <1>1 DEF RecordReadsNext, recordVars, Make, Alter, RowLands, RowFails, ReadAsks, ServerRestarts
  <2>2. CASE FilesLost BY <2>2 DEF FilesLost, Untold
  <2>3. CASE ReadAnswers
    <3>1. reading BY <2>3 DEF ReadAnswers
    <3>2. ASSUME told'.source = "rows", told.source = "rows" PROVE NotBehind(told.recs, told'.recs)
      <4>1. told'.recs = Shows(Queried) BY <1>1, <2>3, <3>2, Answers
      <4>. QED BY <1>1, <3>2, <4>1, RowsKeepUp DEF NotBehind
    <3>3. ASSUME told'.source = "merged", told.source = "merged",
                 kind = "approvals" => Cardinality(local) <= ReadLimit
          PROVE  NotBehind(told.recs, told'.recs)
      <4>1. CASE kind = "session"
        <5>1. told'.recs = Shows(IF asked = {} THEN RecoveryView(Queried)
                                 ELSE Overridden(asked, Queried))
          BY <1>1, <2>3, <3>3, <4>1, Answers DEF Listing
        <5>. QED BY <1>1, <3>1, <3>3, <4>1, <5>1, SessionKeepsUp DEF NotBehind
      <4>2. CASE kind # "session"
        <5>1. kind \in Listing
              /\ told'.recs = Shows(Newest(Overridden(asked, Queried), ReadLimit))
          BY <1>1, <2>3, <3>3, <4>2, Answers
        <5>. QED BY <1>1, <3>1, <3>3, <5>1, ListingKeepsUp DEF NotBehind
      <4>. QED BY <4>1, <4>2
    <3>4. kind = "session" =>
            \A r \in told'.recs : r.active => \E s \in told'.had : s.active
      BY <1>1, <2>3, SessionActive
    <3>. QED BY <3>2, <3>3, <3>4
  <2>. QED BY <2>1, <2>2, <2>3
<1>. QED BY <1>1, RecordsInvInit, RecordsInvStep, PTL DEF RecordReadsSpec, AnswersKeepUp
================================================================================
