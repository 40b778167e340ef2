---------------------------- MODULE AccountProofs ----------------------------
(***************************************************************************)
(* Theorems about what acts on an owner's account, for any number of calls, *)
(* keys, wallets and writers and any bounds: the locked files (FileLock),   *)
(* the session keys (SessionKeys), the grants of the MCP server (McpAccess) *)
(* and the AI Router (AiRouter).                                            *)
(***************************************************************************)
EXTENDS MCAccounts, FiniteSetTheorems, TLAPS

(* The locked files. *)

Owning == {"holds", "read", "wrote", "leaves"}
Finished == {"done", "dead"}

(* While no removal has gone wrong: one call at most is inside; it owns the    *)
(* lock, and its lock is not past the limit; whoever is about to remove a     *)
(* lock has seen that of a call that is no longer inside.                    *)
LockHeld ==
  /\ \A w \in LockedWriters :
       /\ At(w, "made") => lock.there /\ lock.owner = NoWriter
       /\ writers[w].at \in Owning => lock.there /\ lock.owner = w
       /\ writers[w].at \in Inside => ~lock.aged
       /\ lock.owner = w => writers[w].at \in Owning \cup Finished
  /\ \A v, w \in LockedWriters : At(v, "made") /\ At(w, "made") => v = w
  /\ \A v, w \in LockedWriters : At(v, "removes") /\ writers[v].saw = w => writers[w].at \in Finished
  /\ \A w \in LockedWriters : At(w, "leaves") => writers[w].saw = w

LockInv == FileLockTypeOK /\ (~excused => LockHeld) /\ LockedWritesSurvive

LEMMA LockInvInit == FileLockInit => LockInv
<1>. SUFFICES ASSUME FileLockInit PROVE LockInv OBVIOUS
<1>1. NoWriter \notin LockedWriters /\ LockCrashes \in Nat
  BY FileLockAssumption DEF FileLockAssumption
<1>2. \A w \in LockedWriters : writers[w].at = "waits" BY DEF FileLockInit, Writers
<1>3. FileLockTypeOK
  <2>1. \A w \in Writers :
          [at |-> IF w \in LockedWriters THEN "waits" ELSE "holds", snap |-> {}, saw |-> NoWriter]
            \in [at : Stages, snap : SUBSET Writers, saw : LockedWriters \cup {NoWriter}]
    BY DEF Stages
  <2>2. writers \in [Writers -> [at : Stages, snap : SUBSET Writers,
                               saw : LockedWriters \cup {NoWriter}]]
    BY <2>1 DEF FileLockInit
  <2>3. lock \in Lock /\ lock = Free BY DEF FileLockInit, Lock, Free
  <2>4. /\ byMtime \in BOOLEAN /\ excused = FALSE /\ deaths = 0
        /\ file = {} /\ covered = {}
    BY DEF FileLockInit
  <2>5. deaths \in 0 .. LockCrashes BY <1>1, <2>4
  <2>6. file \subseteq Writers /\ covered \subseteq Writers /\ byMtime \in BOOLEAN BY <2>4
  <2>7. excused \in BOOLEAN BY <2>4
  <2>. QED BY <2>2, <2>3, <2>5, <2>6, <2>7 DEF FileLockTypeOK
<1>4. LockHeld BY <1>1, <1>2 DEF FileLockInit, LockHeld, Free, At, Owning, Inside
<1>5. LockedWritesSurvive BY <1>2 DEF LockedWritesSurvive
<1>. QED BY <1>3, <1>4, <1>5 DEF LockInv

Writer == [at : Stages, snap : SUBSET Writers, saw : LockedWriters \cup {NoWriter}]

(* One call goes to another stage. *)
Moves(w, s, saw) ==
  /\ writers' \in [Writers -> Writer]
  /\ writers'[w].at = s /\ writers'[w].saw = saw
  /\ \A v \in Writers \ {w} : writers'[v] = writers[v]

LEMMA GoesMoves ==
  ASSUME FileLockTypeOK, NEW w \in Writers, NEW s \in Stages, Goes(w, s)
  PROVE  Moves(w, s, writers[w].saw)
<1> DEFINE c == [writers[w] EXCEPT !.at = s]
<1>1. writers \in [Writers -> Writer] BY DEF FileLockTypeOK, Writer
<1>2. c \in Writer /\ c.at = s /\ c.saw = writers[w].saw BY <1>1 DEF Writer
<1>3. writers' = [writers EXCEPT ![w] = c] BY DEF Goes
<1> HIDE DEF c
<1>. QED BY <1>1, <1>2, <1>3 DEF Moves

LEMMA LooksMoves ==
  ASSUME FileLockTypeOK, NEW w \in Writers, NEW s \in Stages, NEW o \in LockedWriters \cup {NoWriter},
         writers' = [writers EXCEPT ![w].at = s, ![w].saw = o]
  PROVE  Moves(w, s, o)
<1> DEFINE b == [writers[w] EXCEPT !.at = s]
           c == [b EXCEPT !.saw = o]
<1>1. writers \in [Writers -> Writer] BY DEF FileLockTypeOK, Writer
<1>2. c \in Writer /\ c.at = s /\ c.saw = o
  <2>1. b \in Writer /\ b.at = s BY <1>1 DEF Writer
  <2> HIDE DEF b
  <2>. QED BY <2>1 DEF Writer
<1>3. writers' = [writers EXCEPT ![w] = c] BY <1>1
<1> HIDE DEF c
<1>. QED BY <1>1, <1>2, <1>3 DEF Moves

LEMMA ReadsMoves ==
  ASSUME FileLockTypeOK, NEW w \in Writers, Reads(w)
  PROVE  Moves(w, "read", writers[w].saw)
<1> DEFINE b == [writers[w] EXCEPT !.at = "read"]
           c == [b EXCEPT !.snap = file]
<1>1. writers \in [Writers -> Writer] /\ file \in SUBSET Writers BY DEF FileLockTypeOK, Writer
<1>2. c \in Writer /\ c.at = "read" /\ c.saw = writers[w].saw
  <2>1. b \in Writer /\ b.at = "read" /\ b.saw = writers[w].saw BY <1>1 DEF Writer, Stages
  <2> HIDE DEF b
  <2>. QED BY <1>1, <2>1 DEF Writer
<1>3. writers' = [writers EXCEPT ![w] = c] BY <1>1 DEF Reads
<1> HIDE DEF c
<1>. QED BY <1>1, <1>2, <1>3 DEF Moves

(* What each step does to the stages. *)
LEMMA StepMoves ==
  ASSUME FileLockTypeOK, NEW w \in Writers
  PROVE  /\ Mkdir(w) => Moves(w, "made", writers[w].saw)
         /\ WriteOwner(w) => \/ Moves(w, "holds", writers[w].saw)
                             \/ ~lock.there /\ Moves(w, "done", writers[w].saw)
         /\ SeesStale(w) => Moves(w, "removes", lock.owner)
         /\ RemovesStale(w) => Moves(w, "waits", writers[w].saw)
         /\ GivesUp(w) => Moves(w, "done", writers[w].saw)
         /\ Leaves(w) => \/ lock.owner = w /\ Moves(w, "leaves", w)
                         \/ Moves(w, "done", writers[w].saw)
         /\ RemovesOwn(w) => Moves(w, "done", writers[w].saw)
         /\ Reads(w) => Moves(w, "read", writers[w].saw)
         /\ Writes(w) => Moves(w, IF w \in PlainWriters THEN "done" ELSE "wrote", writers[w].saw)
         /\ Dies(w) => Moves(w, "dead", writers[w].saw)
<1>1. lock.owner \in LockedWriters \cup {NoWriter} BY DEF FileLockTypeOK, Lock
<1>2. Mkdir(w) => Moves(w, "made", writers[w].saw) BY GoesMoves DEF Mkdir, Stages
<1>3. WriteOwner(w) => \/ Moves(w, "holds", writers[w].saw)
                       \/ ~lock.there /\ Moves(w, "done", writers[w].saw)
  BY GoesMoves DEF WriteOwner, Stages
<1>4. SeesStale(w) => Moves(w, "removes", lock.owner) BY <1>1, LooksMoves DEF SeesStale, Stages
<1>5. RemovesStale(w) => Moves(w, "waits", writers[w].saw) BY GoesMoves DEF RemovesStale, Stages
<1>6. GivesUp(w) => Moves(w, "done", writers[w].saw) BY GoesMoves DEF GivesUp, Stages
<1>7. Leaves(w) => \/ lock.owner = w /\ Moves(w, "leaves", w)
                   \/ Moves(w, "done", writers[w].saw)
  BY <1>1, GoesMoves, LooksMoves DEF Leaves, Releases, Stages
<1>8. RemovesOwn(w) => Moves(w, "done", writers[w].saw) BY GoesMoves DEF RemovesOwn, Stages
<1>9. Reads(w) => Moves(w, "read", writers[w].saw) BY ReadsMoves
<1>10. Writes(w) => Moves(w, IF w \in PlainWriters THEN "done" ELSE "wrote", writers[w].saw)
  BY GoesMoves DEF Writes, Stages
<1>11. Dies(w) => Moves(w, "dead", writers[w].saw) BY GoesMoves DEF Dies, Stages
<1>. QED BY <1>2, <1>3, <1>4, <1>5, <1>6, <1>7, <1>8, <1>9, <1>10, <1>11

(* The type invariant. *)
LEMMA LockTypeStep ==
  ASSUME FileLockTypeOK, FileLockNext
  PROVE  FileLockTypeOK'
<1>1. ASSUME FileLockNext PROVE writers' \in [Writers -> Writer]
  <2>1. CASE LockAges BY <2>1 DEF LockAges, FileLockTypeOK, Writer
  <2>. QED BY <1>1, <2>1, StepMoves DEF FileLockNext, Moves, Writers
<1>2. writers \in [Writers -> Writer] BY DEF FileLockTypeOK, Writer
<1>3. \A w \in Writers : writers[w].snap \subseteq Writers BY <1>2 DEF Writer
<1>4. byMtime' \in BOOLEAN /\ excused' \in BOOLEAN
  BY DEF FileLockNext, FileLockTypeOK, LockAges, Mkdir, WriteOwner, SeesStale, RemovesStale, GivesUp,
      Leaves, RemovesOwn, RemovesLock, Reads, Writes, Dies
<1>5. deaths' \in 0 .. LockCrashes
  <2>1. deaths \in 0 .. LockCrashes /\ LockCrashes \in Nat
    BY FileLockAssumption DEF FileLockTypeOK, FileLockAssumption
  <2>2. deaths' = deaths \/ (deaths < LockCrashes /\ deaths' = deaths + 1)
    BY DEF FileLockNext, LockAges, Mkdir, WriteOwner, SeesStale, RemovesStale, GivesUp,
       Leaves, RemovesOwn, Reads, Writes, Dies
  <2>. QED BY <2>1, <2>2
<1>6. lock' \in Lock /\ (~lock'.there => lock' = Free)
  <2>1. ASSUME NEW w \in LockedWriters \cup {NoWriter}, NEW b \in BOOLEAN,
               lock' = [there |-> TRUE, owner |-> w, aged |-> b]
        PROVE  lock' \in Lock /\ (~lock'.there => lock' = Free)
    BY <2>1 DEF Lock
  <2>2. lock' = Free => lock' \in Lock BY DEF Lock, Free
  <2>3. LockAges => lock' = [there |-> TRUE, owner |-> lock.owner, aged |-> TRUE]
                    /\ lock.owner \in LockedWriters \cup {NoWriter}
    BY DEF LockAges, FileLockTypeOK, Lock
  <2>4. \/ lock' = lock \/ lock' = Free \/ LockAges
        \/ \E w \in LockedWriters \cup {NoWriter} : lock' = [there |-> TRUE, owner |-> w, aged |-> FALSE]
    BY DEF FileLockNext, Mkdir, WriteOwner, SeesStale, RemovesStale, GivesUp, Leaves, RemovesOwn,
       RemovesLock, Reads, Writes, Dies
  <2>5. CASE lock' = lock BY <2>5 DEF FileLockTypeOK
  <2>. QED BY <2>1, <2>2, <2>3, <2>4, <2>5
<1>7. file' \subseteq Writers /\ covered' \subseteq Writers
  BY <1>3
  DEF FileLockNext, FileLockTypeOK, LockAges, Mkdir, WriteOwner, SeesStale, RemovesStale, GivesUp,
      Leaves, RemovesOwn, Reads, Writes, Dies, Writers
<1>. QED BY <1>1, <1>4, <1>5, <1>6, <1>7 DEF FileLockTypeOK, Writer

(* While it is excused nothing is claimed of the lock, and an excuse stays.   *)
LEMMA LockHeldStep ==
  ASSUME FileLockTypeOK, LockHeld, FileLockNext, ~excused, ~excused'
  PROVE  LockHeld'
<1>. USE FileLockAssumption DEF FileLockAssumption
<1>1. CASE LockAges
  BY <1>1 DEF LockAges, LockHeld, At, FileLockTypeOK, Lock, Inside, Owning
<1> USE DEF LockHeld, Moves, At, Inside, Owning, Finished, Writers
<1>2. ASSUME NEW w \in LockedWriters, Mkdir(w) PROVE LockHeld'
  <2>1. Moves(w, "made", writers[w].saw) BY <1>2, StepMoves
  <2>2. /\ ~lock.there /\ lock = Free
        /\ lock' = [there |-> TRUE, owner |-> NoWriter, aged |-> FALSE] /\ writers[w].at = "waits"
    BY <1>2 DEF Mkdir, FileLockTypeOK
  <2>. QED BY <2>1, <2>2 DEF Free
<1>3. ASSUME NEW w \in LockedWriters, WriteOwner(w) PROVE LockHeld'
  <2>1. writers[w].at = "made" /\ lock.there /\ lock.owner = NoWriter
        /\ lock' = [there |-> TRUE, owner |-> w, aged |-> FALSE]
    BY <1>3 DEF WriteOwner
  <2>2. Moves(w, "holds", writers[w].saw) BY <1>3, <2>1, StepMoves
  <2>. QED BY <2>1, <2>2
<1>4. ASSUME NEW w \in LockedWriters, SeesStale(w) PROVE LockHeld'
  <2>1. Moves(w, "removes", lock.owner) BY <1>4, StepMoves
  <2>2. writers[w].at = "waits" /\ lock.aged /\ lock' = lock
    BY <1>4 DEF SeesStale, Stale
  <2>. QED BY <2>1, <2>2
<1>5. ASSUME NEW w \in LockedWriters, GivesUp(w) \/ Leaves(w) PROVE LockHeld'
  <2>1. Moves(w, "done", writers[w].saw) \/ (Leaves(w) /\ Moves(w, "leaves", w))
    BY <1>5, StepMoves
  <2>2. writers[w].at \in {"waits", "wrote"} /\ (Leaves(w) => writers[w].at = "wrote") /\ lock' = lock
    BY <1>5 DEF GivesUp, Leaves
  <2>. QED BY <2>1, <2>2
<1>6. ASSUME NEW w \in LockedWriters, RemovesStale(w) \/ RemovesOwn(w) PROVE LockHeld'
  <2>1. Moves(w, "waits", writers[w].saw) \/ Moves(w, "done", writers[w].saw)
    BY <1>6, StepMoves
  <2>2. /\ writers[w].at \in {"removes", "leaves"} /\ StillAsSeen(w) /\ lock' = Free
        /\ RemovesOwn(w) => writers[w].at = "leaves" /\ Moves(w, "done", writers[w].saw)
        /\ RemovesStale(w) => writers[w].at = "removes"
    BY <1>6, StepMoves DEF RemovesStale, RemovesOwn, RemovesLock
  <2>3. \A v \in LockedWriters \ {w} : writers[v].at \notin Inside
    BY <2>2 DEF StillAsSeen
  <2>. QED BY <1>6, <2>1, <2>2, <2>3 DEF Free
<1>7. ASSUME NEW w \in Writers, Reads(w) \/ Writes(w) \/ Dies(w) PROVE LockHeld'
  <2>1. lock' = lock BY <1>7 DEF Reads, Writes, Dies
  <2>2. \/ writers[w].at = "holds" /\ Moves(w, "read", writers[w].saw)
        \/ /\ writers[w].at = "read"
           /\ Moves(w, IF w \in PlainWriters THEN "done" ELSE "wrote", writers[w].saw)
        \/ writers[w].at \in Inside /\ Moves(w, "dead", writers[w].saw)
    BY <1>7, StepMoves DEF Reads, Writes, Dies
  <2>. QED BY <2>1, <2>2
<1>. QED BY <1>1, <1>2, <1>3, <1>4, <1>5, <1>6, <1>7 DEF FileLockNext

(* Only a call inside writes under the lock, and there is one.                *)
LEMMA LockedWritesStep ==
  ASSUME FileLockTypeOK, LockHeld, LockedWritesSurvive, FileLockNext, ~excused, ~excused'
  PROVE  LockedWritesSurvive'
<1>1. ASSUME file' = file, covered' = covered,
             \A w \in LockedWriters : writers'[w].at \in {"wrote", "leaves"} =>
               writers[w].at \in {"wrote", "leaves"}
      PROVE  LockedWritesSurvive'
  BY <1>1 DEF LockedWritesSurvive
<1>2. ASSUME NEW w \in LockedWriters, Mkdir(w) \/ WriteOwner(w) \/ SeesStale(w) \/ RemovesStale(w)
                                      \/ GivesUp(w) \/ Leaves(w) \/ RemovesOwn(w)
      PROVE  LockedWritesSurvive'
  <2>1. file' = file /\ covered' = covered
    BY <1>2 DEF Mkdir, WriteOwner, SeesStale, RemovesStale, GivesUp, Leaves, RemovesOwn
  <2>2. /\ writers'[w].at \in {"wrote", "leaves"} => writers[w].at \in {"wrote", "leaves"}
        /\ \A v \in Writers \ {w} : writers'[v] = writers[v]
    BY <1>2, StepMoves DEF Moves, Writers, Leaves, At
  <2>. QED BY <1>1, <2>1, <2>2 DEF Writers
<1>3. CASE LockAges BY <1>1, <1>3 DEF LockAges
<1>4. ASSUME NEW w \in Writers, Reads(w) \/ Dies(w) PROVE LockedWritesSurvive'
  <2>1. file' = file /\ covered' = covered BY <1>4 DEF Reads, Dies
  <2>2. /\ writers'[w].at \notin {"wrote", "leaves"}
        /\ \A v \in Writers \ {w} : writers'[v] = writers[v]
    BY <1>4, StepMoves DEF Moves
  <2>. QED BY <1>1, <2>1, <2>2 DEF Writers
<1>5. ASSUME NEW w \in PlainWriters, Writes(w) PROVE LockedWritesSurvive'
  <2>1. w \in Writers /\ w \notin LockedWriters
    BY <1>5, FileLockAssumption DEF Writers, FileLockAssumption
  <2>2. \A v \in LockedWriters : writers'[v] = writers[v]
    BY <1>5, <2>1, StepMoves DEF Moves, Writers
  <2>3. file \cup covered \subseteq file' \cup covered' BY <1>5 DEF Writes
  <2>. QED BY <2>2, <2>3 DEF LockedWritesSurvive
<1>6. ASSUME NEW w \in LockedWriters, Writes(w) PROVE LockedWritesSurvive'
  <2>1. \A v \in LockedWriters : writers[v].at \in {"wrote", "leaves"} => v = w
    BY <1>6 DEF LockHeld, Writes, At, Owning
  <2>2. file' = writers[w].snap \cup {w} BY <1>6 DEF Writes
  <2>3. \A v \in LockedWriters : writers'[v].at \in {"wrote", "leaves"} => v = w
    BY <1>6, <2>1, StepMoves DEF Moves, Writers
  <2>. QED BY <2>2, <2>3 DEF LockedWritesSurvive
<1>. QED BY <1>2, <1>3, <1>4, <1>5, <1>6 DEF FileLockNext, Writers

LEMMA ExcuseStays ==
  ASSUME FileLockNext, excused
  PROVE  excused'
  BY DEF FileLockNext, LockAges, Mkdir, WriteOwner, SeesStale, RemovesStale, GivesUp, Leaves,
     RemovesOwn, RemovesLock, Reads, Writes, Dies

THEOREM LockInvHolds == FileLockSpec => []LockInv
<1>1. LockInv /\ [FileLockNext]_lockVars => LockInv'
  <2>. SUFFICES ASSUME LockInv, [FileLockNext]_lockVars PROVE LockInv' OBVIOUS
  <2>1. CASE FileLockNext
    <3>1. FileLockTypeOK' BY <2>1, LockTypeStep DEF LockInv
    <3>2. CASE excused' BY <3>1, <3>2 DEF LockInv, LockedWritesSurvive
    <3>3. CASE ~excused'
      <4>1. ~excused BY <2>1, <3>3, ExcuseStays
      <4>2. LockHeld' BY <2>1, <3>3, <4>1, LockHeldStep DEF LockInv
      <4>3. LockedWritesSurvive' BY <2>1, <3>3, <4>1, LockedWritesStep DEF LockInv
      <4>. QED BY <3>1, <4>2, <4>3 DEF LockInv
    <3>. QED BY <3>2, <3>3
  <2>2. CASE UNCHANGED lockVars
    BY <2>2 DEF lockVars, LockInv, FileLockTypeOK, LockHeld, LockedWritesSurvive, At
  <2>. QED BY <2>1, <2>2
<1>. QED BY LockInvInit, <1>1, PTL DEF FileLockSpec

(* LockedWritesSurvive for any number of writers and crashes: what was        *)
(* written under the lock of a file stays until a call that takes no lock     *)
(* writes over it (withVaultLock, withSessionStoreLock, withWebhookDbLock).   *)
THEOREM SpecLockedWritesSurvive == FileLockSpec => []LockedWritesSurvive
<1>1. LockInv => LockedWritesSurvive BY DEF LockInv
<1>. QED BY <1>1, LockInvHolds, PTL

--------------------------------------------------------------------------------
(* The session keys. *)

(* Keys are numbered as they are generated; every one but the record's own has *)
(* been revoked by the owner, and the record's own too once it is revoked.     *)
DelegatesInv ==
  /\ IsFiniteSet(generated) /\ generated = 1 .. Cardinality(generated)
  /\ generated \subseteq banned \cup {entry.delegate} /\ banned \subseteq generated
  /\ entry.reserved <=> generated # {}
  /\ entry.reserved => entry.delegate \in generated
  /\ entry.delegate \in banned => entry.revoked /\ ~entry.active
  /\ entry.reserved /\ entry.revoked => entry.delegate \in banned
  /\ (entry.reserved /\ ~entry.revoked) => entry.pending \/ entry.hash["arc"] # NoOp
  /\ entry.pending \/ entry.active => entry.reserved

(* A recorded hash is that of an operation for the record's own delegate on    *)
(* its chain, and a route holds an operation that was sent.                   *)
SentTo(o, c) == o \in Ops /\ ops[o].state # "unsent" /\ ops[o].net = c
RouteOK(r) ==
  /\ routes[r].step \in {"setup", "reconcile"} => SentTo(routes[r].op, "arc")
  /\ routes[r].step = "chain" => SentTo(routes[r].op, "base")
  /\ routes[r].step = "attempt" =>
       /\ routes[r].op \in Ops /\ ops[routes[r].op].state # "unsent"
       /\ ops[routes[r].op].delegate = routes[r].delegate
  /\ routes[r].step = "reconcile" => ops[routes[r].op].delegate = routes[r].delegate
HashesInv ==
  /\ \A o \in Ops : ops[o].state # "unsent" => ops[o].delegate \in generated
  /\ entry.hash["arc"] # NoOp =>
       SentTo(entry.hash["arc"], "arc") /\ ops[entry.hash["arc"]].delegate = entry.delegate
  /\ \A r \in SessionRoutes : RouteOK(r)

KeysInv ==
  /\ SessionKeysTypeOK /\ DelegatesInv /\ HashesInv
  /\ entry.active => entry.delegate \in Owners("arc")
  /\ proof = "verified" => entry.delegate \in Owners("base")

LEMMA KeysInvInit == SessionKeysInit => KeysInv
<1>. SUFFICES ASSUME SessionKeysInit PROVE KeysInv OBVIOUS
<1>1. 1 \in Delegates /\ 0 \in 0 .. SessionTurns
  BY SessionKeysAssumption DEF SessionKeysAssumption, Delegates
<1>2. SessionKeysTypeOK
  BY <1>1 DEF SessionKeysInit, SessionKeysTypeOK, Entry, Op, Unproved, Nets, NoOp
<1>3. DelegatesInv
  <2>1. IsFiniteSet({}) /\ Cardinality({}) = 0 BY FS_EmptySet
  <2>. QED BY <2>1 DEF SessionKeysInit, DelegatesInv
<1>4. HashesInv BY DEF SessionKeysInit, HashesInv, RouteOK, NoOp, Nets
<1>. QED BY <1>2, <1>3, <1>4 DEF KeysInv, SessionKeysInit

(* What the steps leave alone.                                                *)
ChainStep ==
  \/ \E o \in Ops, d \in Delegates, c \in Nets : Authorize(o, d, c)
  \/ \E o \in Ops : Mined(o) \/ Fails(o) \/ Forgotten(o)
StartStep ==
  \/ \E r \in SessionRoutes, o \in Ops :
       AttemptReplaces(r, o) \/ SetupStarts(r, o) \/ ChainStarts(r, o)
  \/ \E r \in SessionRoutes : ReconcileStarts(r)
WriteStep ==
  \/ \E o \in Ops : AttemptFirst(o)
  \/ \E r \in SessionRoutes : AttemptEnds(r) \/ SetupEnds(r) \/ ChainEnds(r) \/ ReconcileEnds(r)

LEMMA StepKinds ==
  ASSUME SessionKeysNext
  PROVE  /\ ChainStep \/ StartStep \/ WriteStep \/ Revoke \/ \E d \in Delegates : Reserve(d)
         /\ ChainStep => UNCHANGED <<entry, info, generated, routes, banned, proof>>
         /\ StartStep => UNCHANGED <<entry, info, generated, ops, banned, proof, turns>>
         /\ WriteStep => /\ UNCHANGED <<generated, ops, banned, turns>>
                         /\ routes' = routes \/ \E r \in SessionRoutes : RouteEnds(r)
         /\ Revoke => UNCHANGED <<generated, ops, routes, proof>>
         /\ (\E d \in Delegates : Reserve(d)) => UNCHANGED <<info, ops, routes, banned, turns>>
<1>1. ChainStep => UNCHANGED <<entry, info, generated, routes, banned, proof>>
  BY DEF ChainStep, Authorize, Mined, Fails, Forgotten
<1>2. \A r \in SessionRoutes, o \in Ops :
        /\ AttemptReplaces(r, o) => UNCHANGED <<entry, info, generated, ops, banned, proof, turns>>
        /\ SetupStarts(r, o) => UNCHANGED <<entry, info, generated, ops, banned, proof, turns>>
        /\ ChainStarts(r, o) => UNCHANGED <<entry, info, generated, ops, banned, proof, turns>>
        /\ ReconcileStarts(r) => UNCHANGED <<entry, info, generated, ops, banned, proof, turns>>
  BY DEF AttemptReplaces, SetupStarts, ChainStarts, ReconcileStarts
<1>3. StartStep => UNCHANGED <<entry, info, generated, ops, banned, proof, turns>>
  <2>1. ASSUME NEW r \in SessionRoutes, ReconcileStarts(r)
        PROVE  UNCHANGED <<entry, info, generated, ops, banned, proof, turns>>
    BY <2>1 DEF ReconcileStarts
  <2>. QED BY <1>2, <2>1 DEF StartStep
<1>4. ASSUME NEW o \in Ops, AttemptFirst(o)
      PROVE  UNCHANGED <<generated, ops, banned, turns>> /\ routes' = routes
  BY <1>4 DEF AttemptFirst
<1>5. ASSUME NEW r \in SessionRoutes, AttemptEnds(r)
      PROVE  UNCHANGED <<generated, ops, banned, turns>> /\ RouteEnds(r)
  BY <1>5 DEF AttemptEnds
<1>6. ASSUME NEW r \in SessionRoutes, SetupEnds(r)
      PROVE  UNCHANGED <<generated, ops, banned, turns>> /\ RouteEnds(r)
  BY <1>6 DEF SetupEnds
<1>7. ASSUME NEW r \in SessionRoutes, ChainEnds(r)
      PROVE  UNCHANGED <<generated, ops, banned, turns>> /\ RouteEnds(r)
  BY <1>7 DEF ChainEnds
<1>8. ASSUME NEW r \in SessionRoutes, ReconcileEnds(r)
      PROVE  UNCHANGED <<generated, ops, banned, turns>> /\ RouteEnds(r)
  BY <1>8 DEF ReconcileEnds
<1>9. WriteStep => /\ UNCHANGED <<generated, ops, banned, turns>>
                   /\ routes' = routes \/ \E r \in SessionRoutes : RouteEnds(r)
  BY <1>4, <1>5, <1>6, <1>7, <1>8 DEF WriteStep
<1>10. Revoke => UNCHANGED <<generated, ops, routes, proof>> BY DEF Revoke
<1>11. (\E d \in Delegates : Reserve(d)) => UNCHANGED <<info, ops, routes, banned, turns>>
  BY DEF Reserve
<1>12. ChainStep \/ StartStep \/ WriteStep \/ Revoke \/ \E d \in Delegates : Reserve(d)
  BY DEF SessionKeysNext, ChainStep, StartStep, WriteStep
<1>. QED BY <1>1, <1>3, <1>9, <1>10, <1>11, <1>12

(* What was sent keeps its chain, its delegate and its success.               *)
OpsKept ==
  /\ ops' \in [Ops -> Op]
  /\ \A o \in Ops : ops[o].state # "unsent" =>
       /\ ops'[o].state # "unsent" /\ ops'[o].net = ops[o].net
       /\ ops'[o].delegate = ops[o].delegate
       /\ ops[o].state = "success" => ops'[o].state = "success"
  /\ \A o \in Ops : ops'[o].state # "unsent" => ops'[o].delegate \in generated'
  /\ \A c \in Nets : Owners(c) \subseteq Owners(c)'

LEMMA OpsStep ==
  ASSUME KeysInv, SessionKeysNext
  PROVE  OpsKept
<1>1. ops \in [Ops -> Op] /\ (\A o \in Ops : ops[o].state # "unsent" => ops[o].delegate \in generated)
      /\ generated \subseteq Delegates
  BY DEF KeysInv, SessionKeysTypeOK, HashesInv
<1>2. generated \subseteq generated'
  BY StepKinds DEF Reserve, Fresh
<1>3. ASSUME ops' \in [Ops -> Op],
             \A o \in Ops : ops[o].state # "unsent" =>
                /\ ops'[o].state # "unsent" /\ ops'[o].net = ops[o].net
                /\ ops'[o].delegate = ops[o].delegate
                /\ ops[o].state = "success" => ops'[o].state = "success",
             \A o \in Ops : ops'[o].state # "unsent" =>
                ops[o].state # "unsent" \/ ops'[o].delegate \in generated'
      PROVE  OpsKept
  BY <1>1, <1>2, <1>3 DEF OpsKept, Owners
<1>4. ASSUME NEW o \in Ops, NEW n \in Op, ops' = [ops EXCEPT ![o] = n],
             \/ ops[o].state = "unsent" /\ n.delegate \in generated'
             \/ /\ ops[o].state # "unsent" /\ n.state # "unsent"
                /\ n.net = ops[o].net /\ n.delegate = ops[o].delegate
                /\ ops[o].state = "success" => n.state = "success"
      PROVE  OpsKept
  BY <1>1, <1>3, <1>4
<1>5. ASSUME NEW o \in Ops, NEW d \in Delegates, NEW c \in Nets, Authorize(o, d, c) PROVE OpsKept
  <2> DEFINE n == [state |-> "pending", net |-> c, delegate |-> d, indexed |-> TRUE]
  <2>1. n \in Op /\ n.delegate = d /\ ops[o].state = "unsent" /\ d \in generated'
    BY <1>5 DEF Op, Authorize
  <2>2. ops' = [ops EXCEPT ![o] = n] BY <1>5 DEF Authorize
  <2> HIDE DEF n
  <2>. QED BY <1>4, <2>1, <2>2
<1>6. ASSUME NEW o \in Ops, Mined(o) PROVE OpsKept
  <2> DEFINE n == [ops[o] EXCEPT !.state = "success"]
  <2>1. n \in Op /\ n.delegate = ops[o].delegate /\ n.net = ops[o].net /\ n.state = "success"
        /\ ops[o].state = "pending"
    BY <1>1, <1>6 DEF Op, Mined
  <2>2. ops' = [ops EXCEPT ![o] = n] BY <1>6 DEF Mined
  <2> HIDE DEF n
  <2>. QED BY <1>4, <2>1, <2>2
<1>7. ASSUME NEW o \in Ops, Fails(o) PROVE OpsKept
  <2>1. PICK s \in {"reverted", "dropped"} :
          ops' = [ops EXCEPT ![o].state = s, ![o].indexed = s # "dropped"]
    BY <1>7 DEF Fails
  <2> DEFINE m == [ops[o] EXCEPT !.state = s]
             n == [m EXCEPT !.indexed = (s # "dropped")]
  <2>2. n \in Op /\ n.delegate = ops[o].delegate /\ n.net = ops[o].net /\ n.state = s
    <3>1. m \in Op /\ m.delegate = ops[o].delegate /\ m.net = ops[o].net /\ m.state = s
      BY <1>1 DEF Op
    <3> HIDE DEF m
    <3>. QED BY <3>1 DEF Op
  <2>3. ops' = [ops EXCEPT ![o] = n] BY <1>1, <2>1
  <2>4. ops[o].state = "pending" BY <1>7 DEF Fails
  <2> HIDE DEF n
  <2>. QED BY <1>4, <2>2, <2>3, <2>4
<1>8. ASSUME NEW o \in Ops, Forgotten(o) PROVE OpsKept
  <2> DEFINE n == [ops[o] EXCEPT !.indexed = FALSE]
  <2>1. n \in Op /\ n.delegate = ops[o].delegate /\ n.net = ops[o].net /\ n.state = ops[o].state
    BY <1>1 DEF Op
  <2>2. ops' = [ops EXCEPT ![o] = n] /\ ops[o].state \in {"success", "reverted"}
    BY <1>8 DEF Forgotten
  <2> HIDE DEF n
  <2>. QED BY <1>4, <2>1, <2>2
<1>9. CASE ops' = ops BY <1>1, <1>3, <1>9
<1>. QED BY <1>5, <1>6, <1>7, <1>8, <1>9, StepKinds DEF ChainStep

(* A route starts with an operation that was sent, and ends with nothing.     *)
LEMMA RoutesStep ==
  ASSUME KeysInv, SessionKeysNext
  PROVE  /\ routes' \in [SessionRoutes -> Route \cup {[step |-> "idle"], [step |-> "done"]}]
         /\ \A r \in SessionRoutes : RouteOK(r)'
<1>1. /\ routes \in [SessionRoutes -> Route \cup {[step |-> "idle"], [step |-> "done"]}]
      /\ ops \in [Ops -> Op] /\ entry \in Entry
      /\ \A r \in SessionRoutes : RouteOK(r)
      /\ entry.hash["arc"] # NoOp =>
           SentTo(entry.hash["arc"], "arc") /\ ops[entry.hash["arc"]].delegate = entry.delegate
  BY DEF KeysInv, SessionKeysTypeOK, HashesInv
<1>2. \A o \in Ops : ops[o].state # "unsent" =>
        ops'[o].state # "unsent" /\ ops'[o].net = ops[o].net /\ ops'[o].delegate = ops[o].delegate
  BY OpsStep DEF OpsKept
<1>3. \A r \in SessionRoutes : routes'[r] = routes[r] => RouteOK(r)'
  BY <1>1, <1>2 DEF RouteOK, SentTo
<1>4. CASE routes' = routes BY <1>1, <1>3, <1>4
<1>5. ASSUME NEW r \in SessionRoutes, RouteEnds(r)
      PROVE  /\ routes' \in [SessionRoutes -> Route \cup {[step |-> "idle"], [step |-> "done"]}]
             /\ \A q \in SessionRoutes : RouteOK(q)'
  <2>1. routes'[r] = [step |-> "done"] /\ \A q \in SessionRoutes \ {r} : routes'[q] = routes[q]
    BY <1>1, <1>5 DEF RouteEnds
  <2>2. RouteOK(r)' BY <2>1 DEF RouteOK
  <2>. QED BY <1>1, <1>3, <1>5, <2>1, <2>2 DEF RouteEnds
<1>6. ASSUME NEW r \in SessionRoutes, NEW v \in Route, RouteWaits(r, v), SentTo(v.op, ops[v.op].net),
             v.step \in {"setup", "reconcile"} => ops[v.op].net = "arc",
             v.step = "chain" => ops[v.op].net = "base",
             v.step \in {"attempt", "reconcile"} => ops[v.op].delegate = v.delegate
      PROVE  /\ routes' \in [SessionRoutes -> Route \cup {[step |-> "idle"], [step |-> "done"]}]
             /\ \A q \in SessionRoutes : RouteOK(q)'
  <2>1. routes'[r] = v /\ \A q \in SessionRoutes \ {r} : routes'[q] = routes[q]
    BY <1>1, <1>6 DEF RouteWaits
  <2>2. RouteOK(r)' BY <1>2, <1>6, <2>1 DEF RouteOK, SentTo
  <2>. QED BY <1>1, <1>3, <1>6, <2>1, <2>2 DEF RouteWaits
<1>7. ASSUME NEW r \in SessionRoutes, NEW o \in Ops, AttemptReplaces(r, o)
      PROVE  /\ routes' \in [SessionRoutes -> Route \cup {[step |-> "idle"], [step |-> "done"]}]
             /\ \A q \in SessionRoutes : RouteOK(q)'
  <2> DEFINE v == [step |-> "attempt", delegate |-> ops[o].delegate, op |-> o,
                   previous |-> entry.hash[ops[o].net]]
  <2>1. v \in Route /\ v.op = o /\ v.step = "attempt" /\ v.delegate = ops[o].delegate
    BY <1>1 DEF Route, Op, Entry
  <2>2. RouteWaits(r, v) /\ SentTo(o, ops[o].net) BY <1>7 DEF AttemptReplaces, Sent, SentTo
  <2> HIDE DEF v
  <2>. QED BY <1>6, <2>1, <2>2
<1>8. ASSUME NEW r \in SessionRoutes, NEW o \in Ops, NEW s \in {"setup", "chain"},
             RouteWaits(r, [step |-> s, delegate |-> entry.delegate, op |-> o, previous |-> NoOp]),
             Sent(o), ops[o].net = IF s = "setup" THEN "arc" ELSE "base"
      PROVE  /\ routes' \in [SessionRoutes -> Route \cup {[step |-> "idle"], [step |-> "done"]}]
             /\ \A q \in SessionRoutes : RouteOK(q)'
  <2> DEFINE v == [step |-> s, delegate |-> entry.delegate, op |-> o, previous |-> NoOp]
  <2>1. v \in Route /\ v.op = o /\ v.step = s BY <1>1 DEF Route, Entry
  <2>2. RouteWaits(r, v) /\ SentTo(o, ops[o].net) BY <1>8 DEF Sent, SentTo
  <2> HIDE DEF v
  <2>. QED BY <1>6, <1>8, <2>1, <2>2
<1>9. ASSUME NEW r \in SessionRoutes, ReconcileStarts(r)
      PROVE  /\ routes' \in [SessionRoutes -> Route \cup {[step |-> "idle"], [step |-> "done"]}]
             /\ \A q \in SessionRoutes : RouteOK(q)'
  <2> DEFINE v == [step |-> "reconcile", delegate |-> entry.delegate, op |-> entry.hash["arc"],
                   previous |-> NoOp]
  <2>1. SentTo(entry.hash["arc"], "arc") /\ ops[entry.hash["arc"]].delegate = entry.delegate
    BY <1>1, <1>9 DEF ReconcileStarts
  <2>2. v \in Route /\ v.op = entry.hash["arc"] /\ v.step = "reconcile" /\ v.delegate = entry.delegate
    BY <1>1, <2>1 DEF Route, Entry, SentTo
  <2>3. RouteWaits(r, v) BY <1>9 DEF ReconcileStarts
  <2> HIDE DEF v
  <2>. QED BY <1>6, <2>1, <2>2, <2>3 DEF SentTo
<1>10. \A r \in SessionRoutes, o \in Ops :
         /\ SetupStarts(r, o) =>
              /\ RouteWaits(r, [step |-> "setup", delegate |-> entry.delegate, op |-> o,
                                previous |-> NoOp])
              /\ Sent(o) /\ ops[o].net = "arc"
         /\ ChainStarts(r, o) =>
              /\ RouteWaits(r, [step |-> "chain", delegate |-> entry.delegate, op |-> o,
                                previous |-> NoOp])
              /\ Sent(o) /\ ops[o].net = "base"
  BY DEF SetupStarts, ChainStarts
<1>11. \/ routes' = routes
       \/ \E r \in SessionRoutes : RouteEnds(r) \/ ReconcileStarts(r)
       \/ \E r \in SessionRoutes, o \in Ops :
            AttemptReplaces(r, o) \/ SetupStarts(r, o) \/ ChainStarts(r, o)
  BY StepKinds DEF ChainStep, StartStep
<1>. QED BY <1>4, <1>5, <1>7, <1>8, <1>9, <1>10, <1>11

(* A write of the record for the delegate it has.                             *)
RecordInv ==
  /\ DelegatesInv
  /\ entry.hash["arc"] # NoOp =>
       SentTo(entry.hash["arc"], "arc") /\ ops[entry.hash["arc"]].delegate = entry.delegate
  /\ entry.active => entry.delegate \in Owners("arc")
  /\ proof = "verified" => entry.delegate \in Owners("base")

LEMMA RecordWritten ==
  ASSUME KeysInv, ops' = ops, generated' = generated, banned' = banned, entry' \in Entry,
         entry.reserved, entry'.reserved, entry'.delegate = entry.delegate,
         entry'.revoked = entry.revoked,
         \/ entry'.hash["arc"] = entry.hash["arc"] /\ entry'.pending = entry.pending
         \/ /\ SentTo(entry'.hash["arc"], "arc")
            /\ ops[entry'.hash["arc"]].delegate = entry.delegate,
         entry'.active => entry.active \/ (~entry.revoked /\ entry.delegate \in Owners("arc")),
         proof' = "verified" => entry.delegate \in Owners("base")
  PROVE  RecordInv'
<1>1. Owners("arc")' = Owners("arc") /\ Owners("base")' = Owners("base") BY DEF Owners
<1>2. entry.active => entry.delegate \in Owners("arc") BY DEF KeysInv
<1>3. entry'.hash["arc"] # NoOp =>
        SentTo(entry'.hash["arc"], "arc") /\ ops[entry'.hash["arc"]].delegate = entry.delegate
  BY DEF KeysInv, HashesInv
<1>4. SentTo(entry'.hash["arc"], "arc") => entry'.hash["arc"] # NoOp
  BY SessionKeysAssumption DEF SentTo, Ops, NoOp, SessionKeysAssumption
<1>5. DelegatesInv' BY <1>4 DEF KeysInv, DelegatesInv
<1>. QED BY <1>1, <1>2, <1>3, <1>5 DEF RecordInv, SentTo

(* What the bundler says, or the wallet's owners, says the delegate is one.   *)
LEMMA ValidatedOwner ==
  ASSUME KeysInv, NEW c \in Nets, NEW o, SentTo(o, c), ops[o].state = "success"
  PROVE  ops[o].delegate \in Owners(c)
  BY DEF SentTo, Owners

LEMMA HashStored ==
  ASSUME KeysInv, NEW c \in Nets, NEW o, NEW by, StoreHash(c, o, by), SentTo(o, c),
         by \in Unproved \cup {"verified"},
         by = "verified" => entry.delegate \in Owners("base"),
         c = "arc" => ops[o].delegate = entry.delegate, entry.pending \/ entry.active,
         ops' = ops, generated' = generated, banned' = banned
  PROVE  RecordInv' /\ entry' \in Entry /\ proof' \in Unproved \cup {"verified"}
<1>1. entry \in Entry /\ o \in Ops /\ entry.reserved /\ proof \in Unproved \cup {"verified"}
      /\ (proof = "verified" => entry.delegate \in Owners("base"))
  BY DEF KeysInv, SessionKeysTypeOK, SentTo, DelegatesInv
<1>2. /\ entry' \in Entry /\ entry'.active = entry.active /\ entry'.pending = entry.pending
      /\ entry'.revoked = entry.revoked /\ entry'.reserved = entry.reserved
      /\ entry'.delegate = entry.delegate
      /\ \A n \in Nets : entry'.hash[n] = IF n = c THEN o ELSE entry.hash[n]
  BY <1>1 DEF Entry, StoreHash
<1>3. proof' = proof \/ proof' = by BY DEF StoreHash
<1>4. entry'.hash["arc"] = entry.hash["arc"]
      \/ (SentTo(entry'.hash["arc"], "arc") /\ ops[entry'.hash["arc"]].delegate = entry.delegate)
  BY <1>2 DEF Nets, SentTo
<1>5. RecordInv' BY <1>1, <1>2, <1>3, <1>4, RecordWritten
<1>. QED BY <1>1, <1>2, <1>3, <1>5

LEMMA AttemptStored ==
  ASSUME KeysInv, NEW o \in Ops, Sent(o), AcceptsAttempt(ops[o].delegate),
         StoreHash(ops[o].net, o, "attempt"), ops' = ops, generated' = generated, banned' = banned
  PROVE  RecordInv' /\ entry' \in Entry /\ proof' \in Unproved \cup {"verified"}
<1>1. ops[o].net \in Nets /\ SentTo(o, ops[o].net)
  BY DEF KeysInv, SessionKeysTypeOK, Op, Sent, SentTo
<1>2. ops[o].delegate = entry.delegate /\ (entry.pending \/ entry.active) BY DEF AcceptsAttempt
<1>. QED BY <1>1, <1>2, HashStored DEF Unproved

(* A write that is not made, and the writes of the routes.                    *)
LEMMA NotWritten ==
  ASSUME KeysInv, UNCHANGED <<entry, generated, banned, proof>>,
         OpsKept
  PROVE  RecordInv' /\ entry' \in Entry /\ proof' \in Unproved \cup {"verified"}
<1>1. DelegatesInv' BY DEF KeysInv, DelegatesInv
<1>2. Owners("arc") \subseteq Owners("arc")' /\ Owners("base") \subseteq Owners("base")'
  BY DEF OpsKept, Nets
<1>. QED BY <1>1, <1>2 DEF RecordInv, OpsKept, KeysInv, HashesInv, SentTo, SessionKeysTypeOK

LEMMA WritesStep ==
  ASSUME KeysInv, WriteStep, OpsKept, UNCHANGED <<generated, ops, banned>>
  PROVE  RecordInv' /\ entry' \in Entry /\ proof' \in Unproved \cup {"verified"} /\ info' \in BOOLEAN
<1>1. /\ entry \in Entry /\ ops \in [Ops -> Op] /\ info \in BOOLEAN
      /\ \A r \in SessionRoutes : RouteOK(r)
      /\ proof = "verified" => entry.delegate \in Owners("base")
      /\ entry.active \/ entry.pending => entry.reserved
  BY DEF KeysInv, SessionKeysTypeOK, HashesInv, DelegatesInv
<1>2. ASSUME NEW o \in Ops, AttemptFirst(o)
      PROVE  RecordInv' /\ entry' \in Entry /\ proof' \in Unproved \cup {"verified"} /\ info' \in BOOLEAN
  BY <1>1, <1>2, AttemptStored DEF AttemptFirst
<1>3. ASSUME NEW r \in SessionRoutes, AttemptEnds(r)
      PROVE  RecordInv' /\ entry' \in Entry /\ proof' \in Unproved \cup {"verified"} /\ info' \in BOOLEAN
  <2>1. routes[r].op \in Ops /\ Sent(routes[r].op) /\ ops[routes[r].op].delegate = routes[r].delegate
    BY <1>1, <1>3 DEF AttemptEnds, RouteOK, Sent
  <2>2. \/ /\ AcceptsAttempt(routes[r].delegate)
           /\ StoreHash(ops[routes[r].op].net, routes[r].op, "attempt")
        \/ UNCHANGED <<entry, proof>>
    BY <1>3 DEF AttemptEnds
  <2>3. info' = info BY <1>3 DEF AttemptEnds
  <2>. QED BY <1>1, <2>1, <2>2, <2>3, AttemptStored, NotWritten
<1>4. ASSUME NEW r \in SessionRoutes, SetupEnds(r)
      PROVE  RecordInv' /\ entry' \in Entry /\ proof' \in Unproved \cup {"verified"} /\ info' \in BOOLEAN
  <2> DEFINE o == routes[r].op
  <2>1. SentTo(o, "arc") /\ proof' = proof /\ info' \in BOOLEAN
    BY <1>1, <1>4 DEF SetupEnds, RouteOK
  <2>2. CASE Validates(o, routes[r].delegate) /\ MayActivate(routes[r].delegate)
    <3>1. /\ entry' = Activated(o) /\ ~entry.revoked /\ entry.delegate = routes[r].delegate
          /\ entry.pending \/ entry.hash["arc"] # NoOp
      BY <1>4, <2>2 DEF SetupEnds, MayActivate, MayActivateRevoked
    <3>2. ops[o].delegate = entry.delegate /\ entry.delegate \in Owners("arc")
      BY <2>1, <2>2, <3>1, ValidatedOwner DEF Validates, Receipt, Nets
    <3>3. entry.reserved
      <4>1. entry.delegate \in generated
        BY <2>1, <3>2 DEF KeysInv, HashesInv, SentTo
      <4>. QED BY <4>1 DEF KeysInv, DelegatesInv
    <3> DEFINE a == [entry EXCEPT !.active = TRUE]
               b == [a EXCEPT !.pending = FALSE]
               c == [b EXCEPT !.revoked = FALSE]
               d == [c EXCEPT !.hash["arc"] = o]
    <3>4. /\ a \in Entry /\ a.active = TRUE /\ a.reserved = entry.reserved /\ a.delegate = entry.delegate
          /\ a.hash = entry.hash
      BY <1>1 DEF Entry
    <3>5. /\ b \in Entry /\ b.active = TRUE /\ b.reserved = entry.reserved /\ b.delegate = entry.delegate
          /\ b.hash = entry.hash
      <4> HIDE DEF a
      <4>. QED BY <3>4 DEF Entry
    <3>6. /\ c \in Entry /\ c.active = TRUE /\ c.reserved = entry.reserved /\ c.delegate = entry.delegate
          /\ c.revoked = FALSE /\ c.hash = entry.hash
      <4> HIDE DEF b
      <4>. QED BY <3>5 DEF Entry
    <3>7. /\ d \in Entry /\ d.active = TRUE /\ d.reserved = entry.reserved /\ d.delegate = entry.delegate
          /\ d.revoked = FALSE /\ d.hash["arc"] = o
      <4>1. o \in Ops /\ "arc" \in Nets BY <2>1 DEF SentTo, Nets
      <4> HIDE DEF c, o
      <4>. QED BY <3>6, <4>1 DEF Entry
    <3>8. entry' = d BY <3>1 DEF Activated
    <3>9. entry.revoked = FALSE BY <1>1, <3>1 DEF Entry
    <3> HIDE DEF d, o
    <3>10. RecordInv' BY <1>1, <2>1, <3>1, <3>2, <3>3, <3>7, <3>8, <3>9, RecordWritten
    <3>. QED BY <2>1, <3>7, <3>8, <3>10 DEF KeysInv, SessionKeysTypeOK
  <2>3. CASE ~(Validates(o, routes[r].delegate) /\ MayActivate(routes[r].delegate))
    <3>1. entry' = entry BY <1>4, <2>3 DEF SetupEnds
    <3>. QED BY <2>1, <3>1, NotWritten
  <2>. QED BY <2>2, <2>3
<1>5. ASSUME NEW r \in SessionRoutes, ChainEnds(r)
      PROVE  RecordInv' /\ entry' \in Entry /\ proof' \in Unproved \cup {"verified"} /\ info' \in BOOLEAN
  <2> DEFINE by == IF routes[r].delegate = entry.delegate THEN "verified" ELSE "late"
  <2>1. SentTo(routes[r].op, "base") /\ info' = info BY <1>1, <1>5 DEF ChainEnds, RouteOK
  <2>2. \/ /\ Validates(routes[r].op, routes[r].delegate) /\ entry.active
           /\ StoreHash("base", routes[r].op, by)
        \/ UNCHANGED <<entry, proof>>
    BY <1>5 DEF ChainEnds
  <2>3. CASE Validates(routes[r].op, routes[r].delegate) /\ entry.active
             /\ StoreHash("base", routes[r].op, by)
    <3>1. routes[r].delegate \in Owners("base")
      BY <2>1, <2>3, ValidatedOwner DEF Validates, Receipt, Nets
    <3>2. by \in Unproved \cup {"verified"} /\ (by = "verified" => entry.delegate \in Owners("base"))
      BY <3>1 DEF Unproved
    <3> HIDE DEF by
    <3>. QED BY <1>1, <2>1, <2>3, <3>2, HashStored DEF Nets
  <2>. QED BY <1>1, <2>1, <2>2, <2>3, NotWritten
<1>6. ASSUME NEW r \in SessionRoutes, ReconcileEnds(r)
      PROVE  RecordInv' /\ entry' \in Entry /\ proof' \in Unproved \cup {"verified"} /\ info' \in BOOLEAN
  <2> DEFINE o == routes[r].op
  <2>1. SentTo(o, "arc") /\ ops[o].delegate = routes[r].delegate /\ UNCHANGED <<info, proof>>
    BY <1>1, <1>6 DEF ReconcileEnds, RouteOK
  <2>2. CASE /\ Restores(r) /\ StillReconciles(r)
             /\ entry' = [entry EXCEPT !.active = TRUE, !.pending = FALSE]
    <3>1. ~entry.revoked /\ entry.hash["arc"] = o BY <2>2 DEF StillReconciles
    <3>2. o # NoOp BY <2>1, SessionKeysAssumption DEF SentTo, Ops, NoOp, SessionKeysAssumption
    <3>3. ops[o].delegate = entry.delegate BY <3>1, <3>2 DEF KeysInv, HashesInv
    <3>4. entry.delegate \in Owners("arc")
      BY <2>1, <2>2, <3>3, ValidatedOwner DEF Restores, Validates, Receipt, Nets
    <3>5. entry.reserved
      <4>1. entry.delegate \in generated
        BY <2>1, <3>3 DEF KeysInv, HashesInv, SentTo
      <4>. QED BY <4>1 DEF KeysInv, DelegatesInv
    <3> DEFINE a == [entry EXCEPT !.active = TRUE]
               b == [a EXCEPT !.pending = FALSE]
    <3>6. /\ a \in Entry /\ a.active = TRUE /\ a.reserved = entry.reserved /\ a.delegate = entry.delegate
          /\ a.revoked = entry.revoked /\ a.hash = entry.hash
      BY <1>1 DEF Entry
    <3>7. /\ b \in Entry /\ b.active = TRUE /\ b.reserved = entry.reserved /\ b.delegate = entry.delegate
          /\ b.revoked = entry.revoked /\ b.hash = entry.hash
      <4> HIDE DEF a
      <4>. QED BY <3>6 DEF Entry
    <3>8. entry' = b BY <2>2
    <3> HIDE DEF b, o
    <3>9. RecordInv' BY <1>1, <2>1, <3>1, <3>3, <3>4, <3>5, <3>7, <3>8, RecordWritten
    <3>. QED BY <1>1, <2>1, <3>7, <3>8, <3>9 DEF KeysInv, SessionKeysTypeOK
  <2>3. entry' = entry \/ /\ Restores(r) /\ StillReconciles(r)
                          /\ entry' = [entry EXCEPT !.active = TRUE, !.pending = FALSE]
    BY <1>6 DEF ReconcileEnds
  <2>. QED BY <1>1, <2>1, <2>2, <2>3, NotWritten
<1>. QED BY <1>2, <1>3, <1>4, <1>5, <1>6 DEF WriteStep

(* A revoke, and a new key for a wallet without one or with a revoked one.    *)
LEMMA RevokeStep ==
  ASSUME KeysInv, Revoke
  PROVE  /\ RecordInv' /\ entry' \in Entry /\ proof' \in Unproved \cup {"verified"}
         /\ info' \in BOOLEAN /\ banned' \subseteq generated'
<1> DEFINE a == [entry EXCEPT !.active = FALSE]
           b == [a EXCEPT !.revoked = TRUE]
           c == [b EXCEPT !.pending = FALSE]
<1>1. entry \in Entry /\ entry.reserved /\ proof \in Unproved \cup {"verified"}
      /\ (proof = "verified" => entry.delegate \in Owners("base"))
  BY DEF KeysInv, SessionKeysTypeOK, Revoke
<1>2. a \in Entry /\ a.active = FALSE /\ a.reserved /\ a.delegate = entry.delegate /\ a.hash = entry.hash
  BY <1>1 DEF Entry
<1>3. b \in Entry /\ b.active = FALSE /\ b.reserved /\ b.delegate = entry.delegate /\ b.hash = entry.hash
      /\ b.revoked = TRUE
  <2> HIDE DEF a
  <2>. QED BY <1>2 DEF Entry
<1>4. c \in Entry /\ c.active = FALSE /\ c.reserved /\ c.delegate = entry.delegate /\ c.hash = entry.hash
      /\ c.revoked = TRUE /\ c.pending = FALSE
  <2> HIDE DEF b
  <2>. QED BY <1>3 DEF Entry
<1>5. /\ entry' = c /\ ops' = ops /\ generated' = generated /\ proof' = proof /\ info' = FALSE
      /\ banned' = banned \cup {entry.delegate}
  BY DEF Revoke
<1> HIDE DEF c
<1>6. DelegatesInv' BY <1>1, <1>4, <1>5 DEF KeysInv, DelegatesInv
<1>7. Owners("base")' = Owners("base") BY <1>5 DEF Owners
<1>8. RecordInv'
  BY <1>1, <1>4, <1>5, <1>6, <1>7 DEF RecordInv, SentTo, KeysInv, HashesInv
<1>. QED BY <1>1, <1>4, <1>5, <1>8 DEF KeysInv, SessionKeysTypeOK, DelegatesInv

LEMMA ReserveStep ==
  ASSUME KeysInv, NEW d \in Delegates, Reserve(d)
  PROVE  /\ RecordInv' /\ entry' \in Entry /\ proof' \in Unproved \cup {"verified"}
         /\ info' \in BOOLEAN /\ banned' \subseteq generated' /\ generated' \subseteq Delegates
<1>1. /\ d = Cardinality(generated) + 1 /\ generated' = generated \cup {d}
      /\ entry' = [reserved |-> TRUE, delegate |-> d, active |-> FALSE, pending |-> TRUE,
                   revoked |-> FALSE, hash |-> [c \in Nets |-> NoOp]]
      /\ proof' = "none" /\ UNCHANGED <<info, ops, banned>>
  BY DEF Reserve, Fresh
<1>2. /\ entry' \in Entry /\ entry'.delegate = d /\ entry'.hash["arc"] = NoOp /\ entry'.active = FALSE
      /\ entry'.pending = TRUE /\ entry'.revoked = FALSE /\ entry'.reserved = TRUE
  BY <1>1 DEF Entry, Nets
<1>3. generated \subseteq banned
  <2>1. generated = {} \/ (entry.reserved /\ entry.revoked)
    BY DEF Reserve, KeepsDelegate, KeysInv, DelegatesInv
  <2>. QED BY <2>1 DEF KeysInv, DelegatesInv
<1>4. d \notin generated /\ IsFiniteSet(generated') /\ generated' = 1 .. Cardinality(generated')
  <2>1. Cardinality(generated) \in Nat /\ IsFiniteSet(generated)
        /\ generated = 1 .. Cardinality(generated)
    BY FS_CardinalityType DEF KeysInv, DelegatesInv
  <2>2. d \notin generated BY <1>1, <2>1
  <2>3. IsFiniteSet(generated') /\ Cardinality(generated') = Cardinality(generated) + 1
    BY <1>1, <2>1, <2>2, FS_AddElement
  <2>4. \A n \in Nat : 1 .. (n + 1) = (1 .. n) \cup {n + 1} OBVIOUS
  <2>5. generated' = 1 .. (Cardinality(generated) + 1) BY <1>1, <2>1, <2>4
  <2>. QED BY <2>2, <2>3, <2>5
<1>5. DelegatesInv' BY <1>1, <1>2, <1>3, <1>4 DEF KeysInv, DelegatesInv
<1>. QED
  BY <1>1, <1>2, <1>5 DEF RecordInv, Unproved, KeysInv, SessionKeysTypeOK

LEMMA KeysInvStep ==
  ASSUME KeysInv, SessionKeysNext
  PROVE  KeysInv'
<1>1. OpsKept BY OpsStep
<1>2. /\ RecordInv' /\ entry' \in Entry /\ proof' \in Unproved \cup {"verified"}
      /\ info' \in BOOLEAN /\ banned' \subseteq generated' /\ generated' \subseteq Delegates
  <2>1. info \in BOOLEAN /\ banned \subseteq generated /\ generated \subseteq Delegates
    BY DEF KeysInv, SessionKeysTypeOK
  <2>2. CASE ChainStep \/ StartStep BY <1>1, <2>1, <2>2, StepKinds, NotWritten
  <2>3. CASE WriteStep BY <1>1, <2>1, <2>3, StepKinds, WritesStep
  <2>4. CASE Revoke BY <2>1, <2>4, StepKinds, RevokeStep
  <2>5. CASE \E d \in Delegates : Reserve(d) BY <2>1, <2>5, StepKinds, ReserveStep
  <2>. QED BY <2>2, <2>3, <2>4, <2>5, StepKinds
<1>3. turns' \in 0 .. SessionTurns
  <2>1. turns \in 0 .. SessionTurns /\ SessionTurns \in Nat
    BY SessionKeysAssumption DEF KeysInv, SessionKeysTypeOK, SessionKeysAssumption
  <2>2. ChainStep => turns' = turns \/ Turn
    BY DEF ChainStep, Authorize, Mined, Fails, Forgotten
  <2>3. Revoke => Turn BY DEF Revoke
  <2>4. turns' = turns \/ Turn BY <2>2, <2>3, StepKinds
  <2>. QED BY <2>1, <2>4 DEF Turn
<1>4. SessionKeysTypeOK'
  BY <1>1, <1>2, <1>3, RoutesStep DEF SessionKeysTypeOK, OpsKept
<1>5. HashesInv' BY <1>1, <1>2, RoutesStep DEF HashesInv, OpsKept, RecordInv
<1>. QED BY <1>2, <1>4, <1>5 DEF KeysInv, RecordInv

THEOREM KeysInvHolds == SessionKeysSpec => []KeysInv
<1>1. KeysInv /\ UNCHANGED skVars => KeysInv'
  BY DEF skVars, KeysInv, SessionKeysTypeOK, DelegatesInv, HashesInv, RouteOK, SentTo, Owners
<1>2. KeysInv /\ [SessionKeysNext]_skVars => KeysInv' BY <1>1, KeysInvStep
<1>. QED BY <1>2, KeysInvInit, PTL DEF SessionKeysSpec

(* ActiveSignerIsOwners for any number of routes, keys and operations: what   *)
(* is revoked while a route waits for the bundler stays revoked               *)
(* (activateReservedSessionKey, reconcileSessionKeyActivation).               *)
THEOREM SpecActiveSignerIsOwners == SessionKeysSpec => []ActiveSignerIsOwners
<1>1. KeysInv => ActiveSignerIsOwners BY DEF KeysInv, DelegatesInv, ActiveSignerIsOwners
<1>. QED BY <1>1, KeysInvHolds, PTL

(* NoStrayOwner: the owners a wallet has from its operations are delegates    *)
(* that were generated, of which one at most is not revoked                   *)
(* (reserveSessionKey).                                                       *)
THEOREM SpecNoStrayOwner == SessionKeysSpec => []NoStrayOwner
<1>1. KeysInv => NoStrayOwner BY DEF KeysInv, DelegatesInv, HashesInv, NoStrayOwner, Owners
<1>. QED BY <1>1, KeysInvHolds, PTL

(* DestinationProof: a destination hash that authorize-chain verified proves  *)
(* the delegate of the record (recordSessionChainAuthorization).              *)
THEOREM SpecDestinationProof == SessionKeysSpec => []DestinationProof
<1>1. KeysInv => DestinationProof BY DEF KeysInv, SessionKeysTypeOK, DestinationProof
<1>. QED BY <1>1, KeysInvHolds, PTL

--------------------------------------------------------------------------------
(* The MCP server. *)

(* A wallet named once is kept: by a code that is given out, by a token for   *)
(* the calls it serves, and by a call.                                        *)
NamedInv ==
  /\ \A r \in answered : codes[r.code].state # "free" /\ codes[r.code].wallet = r.wallet
  /\ \A x \in Calls :
       /\ calls[x].step # "idle" => families[calls[x].token].issued
       /\ calls[x].step = "served" => families[calls[x].token].wallet = calls[x].bound
       /\ calls[x].step \in {"previewed", "sent"} =>
            families[calls[x].token].wallet \in {NoWallet, calls[x].wallet}

(* A signature has one live code for each wallet, and none for a wallet that   *)
(* has its tokens; no challenge is taken back.                                *)
Live(c) == codes[c].state = "live"
Loopback(f) == families[f].issued /\ families[f].origin[1] = "loopback"
ByDevice(f) == families[f].issued /\ families[f].origin[1] = "device"
SignedInv ==
  /\ \A n \in Nonces : challenges[n].consumed => challenges[n].flow # "none"
  /\ \A a \in Approvals : approving[a].step \in {"verifying", "bound"} =>
       challenges[approving[a].nonce].flow # "none"
  /\ \A c \in Codes : codes[c].state # "free" => challenges[codes[c].nonce].flow # "none"
  /\ \A c, d \in Codes :
       Live(c) /\ Live(d) /\ codes[c].nonce = codes[d].nonce /\ codes[c].wallet = codes[d].wallet
         => c = d
  /\ \A f \in Families : Loopback(f) =>
       /\ challenges[families[f].origin[2]].consumed
       /\ \A c \in Codes : ~(/\ Live(c) /\ codes[c].nonce = families[f].origin[2]
                             /\ codes[c].wallet = families[f].wallet)
  /\ \A f \in Families : ByDevice(f) => device.status # "none" /\ device.consumed
  /\ \A f, g \in Families : ByDevice(f) /\ ByDevice(g) => f = g

AccessInv == AccessTypeOK /\ NamedInv /\ SignedInv /\ OneFamilyPerSignature

LEMMA AccessInvInit == AccessInit => AccessInv
<1>. SUFFICES ASSUME AccessInit PROVE AccessInv OBVIOUS
<1>1. AccessTypeOK
  <2>1. challenges \in [Nonces -> Challenge] BY DEF AccessInit, Challenge
  <2>2. 0 \in 0 .. AccessChanges BY AccessAssumption DEF AccessAssumption
  <2>. QED BY <2>1, <2>2 DEF AccessInit, AccessTypeOK, Selections
<1>2. NamedInv BY DEF AccessInit, NamedInv
<1>3. SignedInv /\ OneFamilyPerSignature
  BY DEF AccessInit, SignedInv, OneFamilyPerSignature, Live, Loopback, ByDevice, NoTokens
<1>. QED BY <1>1, <1>2, <1>3 DEF AccessInv

(* What every step keeps of the codes and the tokens.                         *)
CodesKept ==
  /\ codes' \in [Codes -> Code \cup {[state |-> "free"]}]
  /\ \A c \in Codes :
       /\ codes[c].state # "free" => /\ codes'[c].state # "free" /\ codes'[c].nonce = codes[c].nonce
                                     /\ codes'[c].wallet = codes[c].wallet
       /\ codes[c].state # "free" /\ codes'[c].state = "live" => codes[c].state = "live"
TokensKept ==
  /\ families' \in [Families -> Family \cup {NoTokens}]
  /\ \A f \in Families : families[f].issued =>
       /\ families'[f].issued /\ families'[f].wallet = families[f].wallet
       /\ families'[f].origin = families[f].origin
NoMoreTokens == \A f \in Families : families'[f].issued => families[f].issued
NoMoreCodes == \A c \in Codes : codes'[c].state # "free" => codes[c].state # "free"
ChallengesKept ==
  /\ challenges' \in [Nonces -> Challenge]
  /\ \A n \in Nonces : challenges[n].flow # "none" =>
       /\ challenges'[n].flow # "none"
       /\ challenges[n].consumed => challenges'[n].consumed
NoneConsumed ==
  \A n \in Nonces : challenges'[n].consumed => challenges[n].consumed /\ challenges'[n].flow # "none"

LEMMA FamilyIssued ==
  ASSUME AccessTypeOK, NEW f \in Families, families[f].issued
  PROVE  /\ families[f] \in Family /\ families[f].wallet \in Selections
         /\ families[f].origin[2] \in Nonces
<1>1. families[f] \in Family \cup {NoTokens} BY DEF AccessTypeOK
<1>2. NoTokens.issued = FALSE BY DEF NoTokens
<1>3. families[f] \in Family BY <1>1, <1>2
<1>4. families[f].wallet \in Selections /\ families[f].origin \in Flows \X Nonces BY <1>3 DEF Family
<1>. QED BY <1>3, <1>4

LEMMA CodeEnds ==
  ASSUME AccessTypeOK, NEW c \in Codes, codes[c].state = "live", NEW s \in {"used", "expired"},
         codes' = [codes EXCEPT ![c].state = s]
  PROVE  CodesKept /\ NoMoreCodes /\ codes'[c].state = s
<1>1. codes \in [Codes -> Code \cup {[state |-> "free"]}] BY DEF AccessTypeOK
<1>2. codes[c] \in Code BY <1>1
<1> DEFINE n == [codes[c] EXCEPT !.state = s]
<1>3. n \in Code /\ n.state = s /\ n.wallet = codes[c].wallet /\ n.nonce = codes[c].nonce
  BY <1>2 DEF Code
<1>4. codes' = [codes EXCEPT ![c] = n] OBVIOUS
<1> HIDE DEF n
<1>. QED BY <1>1, <1>3, <1>4 DEF CodesKept, NoMoreCodes

LEMMA CodesStay ==
  ASSUME AccessTypeOK, codes' = codes
  PROVE  CodesKept /\ NoMoreCodes
  BY DEF AccessTypeOK, CodesKept, NoMoreCodes

LEMMA TokensStay ==
  ASSUME AccessTypeOK, families' = families
  PROVE  TokensKept /\ NoMoreTokens
  BY DEF AccessTypeOK, TokensKept, NoMoreTokens

LEMMA TokenChanges ==
  ASSUME AccessTypeOK, NEW f \in Families, NEW a \in BOOLEAN, NEW b \in BOOLEAN, families[f].issued,
         \/ families' = [families EXCEPT ![f].access = a]
         \/ families' = [families EXCEPT ![f].access = a, ![f].refresh = b]
  PROVE  TokensKept /\ NoMoreTokens
<1>1. families \in [Families -> Family \cup {NoTokens}] BY DEF AccessTypeOK
<1>2. families[f] \in Family BY <1>1 DEF NoTokens
<1>3. ASSUME NEW n \in Family, n.wallet = families[f].wallet, n.origin = families[f].origin,
             families' = [families EXCEPT ![f] = n]
      PROVE  TokensKept /\ NoMoreTokens
  <2>1. n.issued BY DEF Family
  <2>. QED BY <1>1, <1>2, <1>3, <2>1 DEF TokensKept, NoMoreTokens
<1> DEFINE n == [families[f] EXCEPT !.access = a]
           m == [n EXCEPT !.refresh = b]
<1>4. n \in Family /\ n.wallet = families[f].wallet /\ n.origin = families[f].origin
  BY <1>2 DEF Family
<1>5. m \in Family /\ m.wallet = families[f].wallet /\ m.origin = families[f].origin
  <2> HIDE DEF n
  <2>. QED BY <1>4 DEF Family
<1>6. families' = [families EXCEPT ![f] = n] \/ families' = [families EXCEPT ![f] = m]
  BY <1>1
<1> HIDE DEF n, m
<1>. QED BY <1>3, <1>4, <1>5, <1>6

LEMMA TokensIssued ==
  ASSUME AccessTypeOK, NEW w \in Selections, NEW flow \in Flows, NEW m \in Nonces,
         IssuesTokens(w, <<flow, m>>)
  PROVE  /\ TokensKept
         /\ \E f \in Families :
              /\ ~families[f].issued
              /\ families'[f].issued /\ families'[f].wallet = w /\ families'[f].origin = <<flow, m>>
              /\ \A g \in Families \ {f} : families'[g] = families[g]
<1>1. families \in [Families -> Family \cup {NoTokens}] BY DEF AccessTypeOK
<1> DEFINE n == [issued |-> TRUE, access |-> TRUE, refresh |-> TRUE, wallet |-> w,
                 origin |-> <<flow, m>>]
<1>2. n \in Family /\ n.issued /\ n.wallet = w /\ n.origin = <<flow, m>> BY DEF Family
<1>3. PICK f \in Families : ~families[f].issued /\ families' = [families EXCEPT ![f] = n]
  BY DEF IssuesTokens, Oldest
<1> HIDE DEF n
<1>. QED BY <1>1, <1>2, <1>3 DEF TokensKept

LEMMA ChallengesStay ==
  ASSUME AccessInv, challenges' = challenges
  PROVE  ChallengesKept /\ NoneConsumed
  BY DEF AccessInv, AccessTypeOK, SignedInv, ChallengesKept, NoneConsumed

LEMMA ChallengeAsked ==
  ASSUME AccessInv, NEW n \in Nonces, NEW flow \in Flows, AskChallenge(n, flow)
  PROVE  ChallengesKept /\ NoneConsumed
<1>1. challenges \in [Nonces -> Challenge] /\ challenges[n].flow = "none"
  BY DEF AccessInv, AccessTypeOK, AskChallenge, Oldest
<1> DEFINE v == [flow |-> flow, live |-> TRUE, consumed |-> FALSE]
<1>2. v \in Challenge /\ v.consumed = FALSE /\ v.flow # "none" BY DEF Challenge, Flows
<1>3. challenges' = [challenges EXCEPT ![n] = v] BY DEF AskChallenge
<1> HIDE DEF v
<1>. QED BY <1>1, <1>2, <1>3 DEF ChallengesKept, NoneConsumed, AccessInv, SignedInv

LEMMA ChallengeEnds ==
  ASSUME AccessInv, NEW n \in Nonces, challenges' = [challenges EXCEPT ![n].live = FALSE]
  PROVE  ChallengesKept /\ NoneConsumed
<1>1. challenges \in [Nonces -> Challenge] BY DEF AccessInv, AccessTypeOK
<1> DEFINE v == [challenges[n] EXCEPT !.live = FALSE]
<1>2. v \in Challenge /\ v.consumed = challenges[n].consumed /\ v.flow = challenges[n].flow
  BY <1>1 DEF Challenge
<1>3. challenges' = [challenges EXCEPT ![n] = v] BY <1>1
<1> HIDE DEF v
<1>. QED BY ZenonT(60), <1>1, <1>2, <1>3 DEF ChallengesKept, NoneConsumed, AccessInv, SignedInv

LEMMA ChallengeConsumed ==
  ASSUME AccessInv, NEW n \in Nonces, challenges[n].flow # "none",
         challenges' = [challenges EXCEPT ![n].consumed = TRUE]
  PROVE  /\ ChallengesKept /\ challenges'[n].consumed
         /\ \A m \in Nonces : challenges'[m].consumed => challenges'[m].flow # "none"
<1>1. challenges \in [Nonces -> Challenge] BY DEF AccessInv, AccessTypeOK
<1> DEFINE v == [challenges[n] EXCEPT !.consumed = TRUE]
<1>2. v \in Challenge /\ v.consumed = TRUE /\ v.flow = challenges[n].flow
  BY <1>1 DEF Challenge
<1>3. challenges' = [challenges EXCEPT ![n] = v] BY <1>1
<1> HIDE DEF v
<1>. QED BY <1>1, <1>2, <1>3 DEF ChallengesKept, AccessInv, SignedInv

(* An approval keeps the challenge it looked at; a device grant that has its  *)
(* tokens keeps them.                                                         *)
ApprovalsOK ==
  /\ approving \in [Approvals -> Approval \cup {[step |-> "idle"], [step |-> "done"]}]
  /\ \A a \in Approvals : approving[a].step \in {"verifying", "bound"} =>
       challenges[approving[a].nonce].flow # "none"
DeviceKept ==
  /\ device' \in DeviceGrant \cup {[status |-> "none"]}
  /\ device.status # "none" => device'.status # "none" /\ (device.consumed => device'.consumed)

LEMMA ApprovalsStay ==
  ASSUME AccessInv, ChallengesKept, approving' = approving
  PROVE  ApprovalsOK'
<1>1. \A a \in Approvals : approving[a].step \in {"verifying", "bound"} =>
        approving[a].nonce \in Nonces /\ challenges[approving[a].nonce].flow # "none"
  BY DEF AccessInv, AccessTypeOK, SignedInv, Approval
<1>. QED BY <1>1 DEF AccessInv, AccessTypeOK, ApprovalsOK, ChallengesKept

LEMMA ApprovalMoves ==
  ASSUME AccessInv, challenges' = challenges, NEW a \in Approvals,
         NEW v \in Approval \cup {[step |-> "done"]},
         approving' = [approving EXCEPT ![a] = v],
         v.step # "done" => challenges[v.nonce].flow # "none"
  PROVE  ApprovalsOK'
  BY DEF ApprovalsOK, AccessInv, AccessTypeOK, SignedInv

LEMMA ApprovalsStep ==
  ASSUME AccessInv, AccessNext, ChallengesKept
  PROVE  ApprovalsOK'
<1>1. approving \in [Approvals -> Approval \cup {[step |-> "idle"], [step |-> "done"]}]
  BY DEF AccessInv, AccessTypeOK
<1>2. ASSUME NEW a \in Approvals, ApprovalEnds(a), challenges' = challenges PROVE ApprovalsOK'
  BY <1>2, ApprovalMoves DEF ApprovalEnds
<1>3. ASSUME NEW a \in Approvals, NEW n \in Nonces, NEW w \in Selections, ApproveStarts(a, n, w)
      PROVE  ApprovalsOK'
  <2>1. PICK flow \in Flows :
          /\ ChallengeGood(n, flow)
          /\ ApprovalWaits(a, [step |-> "verifying", flow |-> flow, nonce |-> n, wallet |-> w])
    BY <1>3 DEF ApproveStarts
  <2> DEFINE v == [step |-> "verifying", flow |-> flow, nonce |-> n, wallet |-> w]
  <2>2. v \in Approval /\ v.nonce = n BY DEF Approval
  <2>3. challenges[n].flow # "none" /\ challenges' = challenges
    BY <1>3, <2>1 DEF ChallengeGood, Flows, ApproveStarts
  <2>4. approving' = [approving EXCEPT ![a] = v] BY <2>1 DEF ApprovalWaits
  <2> HIDE DEF v
  <2>. QED BY <2>2, <2>3, <2>4, ApprovalMoves
<1>4. ASSUME NEW a \in Approvals, Binds(a) PROVE ApprovalsOK'
  <2> DEFINE v == [approving[a] EXCEPT !.step = "bound"]
  <2>1. approving[a] \in Approval /\ approving[a].step = "verifying" /\ challenges' = challenges
    BY <1>1, <1>4 DEF Binds
  <2>2. v \in Approval /\ v.nonce = approving[a].nonce BY <2>1 DEF Approval
  <2>3. challenges[approving[a].nonce].flow # "none" BY <2>1 DEF AccessInv, SignedInv
  <2>4. approving' = [approving EXCEPT ![a] = v] \/ ApprovalEnds(a) BY <1>4 DEF Binds
  <2> HIDE DEF v
  <2>. QED BY <1>2, <2>1, <2>2, <2>3, <2>4, ApprovalMoves
<1>5. ASSUME NEW a \in Approvals, GrantsCode(a) \/ ApprovesDevice(a) \/ Turned(a) PROVE ApprovalsOK'
  <2>1. GrantsCode(a) => ApprovalEnds(a) /\ challenges' = challenges BY DEF GrantsCode
  <2>2. ApprovesDevice(a) => ApprovalEnds(a) /\ challenges' = challenges BY DEF ApprovesDevice
  <2>3. Turned(a) => ApprovalEnds(a) /\ challenges' = challenges BY DEF Turned
  <2>. QED BY <1>2, <1>5, <2>1, <2>2, <2>3
<1>6. approving' = approving
      \/ \E a \in Approvals : \/ Binds(a) \/ GrantsCode(a) \/ ApprovesDevice(a) \/ Turned(a)
                              \/ \E n \in Nonces, w \in Selections : ApproveStarts(a, n, w)
  <2>1. \A n \in Nonces, flow \in Flows : AskChallenge(n, flow) => approving' = approving
    BY DEF AskChallenge
  <2>2. \A c \in Codes : Redeems(c) => approving' = approving BY DEF Redeems
  <2>3. \A f \in Families :
          (TokensEnd(f) => approving' = approving) /\ (Refreshes(f) => approving' = approving)
    BY DEF TokensEnd, Refreshes
  <2>4. \A x \in Calls : /\ Connects(x) => approving' = approving
                         /\ Previews(x) => approving' = approving
                         /\ Executes(x) => approving' = approving
    BY DEF Connects, Previews, Executes
  <2>5. \A x \in Calls, f \in Families : Arrives(x, f) => approving' = approving BY DEF Arrives
  <2>6. /\ AskLoopback => approving' = approving
        /\ AskDevice => approving' = approving
        /\ RunsOut => approving' = approving
        /\ DeniesDevice => approving' = approving
        /\ RedeemsDevice => approving' = approving
        /\ SessionIdles => approving' = approving
        /\ \A w \in Wallets : SessionRevoked(w) => approving' = approving
    BY DEF AskLoopback, AskDevice, RunsOut, DeniesDevice, RedeemsDevice, SessionIdles, SessionRevoked
  <2>. QED BY <2>1, <2>2, <2>3, <2>4, <2>5, <2>6 DEF AccessNext
<1>. QED BY <1>3, <1>4, <1>5, <1>6, ApprovalsStay

LEMMA DeviceStep ==
  ASSUME AccessInv, AccessNext
  PROVE  DeviceKept
<1>1. /\ device \in DeviceGrant \cup {[status |-> "none"]}
      /\ approving \in [Approvals -> Approval \cup {[step |-> "idle"], [step |-> "done"]}]
  BY DEF AccessInv, AccessTypeOK
<1>2. CASE device' = device BY <1>1, <1>2 DEF DeviceKept
<1>3. ASSUME device.status # "none", NEW s \in {"expired", "denied"},
             device' = [device EXCEPT !.status = s]
      PROVE  DeviceKept
  BY <1>1, <1>3 DEF DeviceKept, DeviceGrant
<1>4. CASE AskDevice
  <2>1. 1 \in Nonces BY AccessAssumption DEF AccessAssumption, Nonces
  <2>. QED BY <1>1, <1>4, <2>1 DEF AskDevice, DeviceKept, DeviceGrant, Selections
<1>5. ASSUME NEW a \in Approvals, ApprovesDevice(a) PROVE DeviceKept
  <2> DEFINE b == [device EXCEPT !.status = "approved"]
             c == [b EXCEPT !.wallet = approving[a].wallet]
             d == [c EXCEPT !.nonce = approving[a].nonce]
  <2>1. approving[a] \in Approval /\ device.status = "pending" BY <1>1, <1>5 DEF ApprovesDevice
  <2>2. approving[a].wallet \in Selections /\ approving[a].nonce \in Nonces BY <2>1 DEF Approval
  <2>3. b \in DeviceGrant /\ b.status = "approved" /\ b.consumed = device.consumed
    BY <1>1, <2>1 DEF DeviceGrant
  <2>4. c \in DeviceGrant /\ c.status = "approved" /\ c.consumed = device.consumed
    <3> HIDE DEF b
    <3>. QED BY <2>2, <2>3 DEF DeviceGrant
  <2>5. d \in DeviceGrant /\ d.status = "approved" /\ d.consumed = device.consumed
    <3> HIDE DEF c
    <3>. QED BY <2>2, <2>4 DEF DeviceGrant
  <2>6. device' = d BY <1>5 DEF ApprovesDevice
  <2> HIDE DEF d
  <2>. QED BY <2>1, <2>5, <2>6 DEF DeviceKept
<1>6. CASE RedeemsDevice
  BY <1>1, <1>6 DEF RedeemsDevice, DeviceKept, DeviceGrant
<1>7. CASE RunsOut
  <2>1. device' = device \/ (device.status # "none" /\ device' = [device EXCEPT !.status = "expired"])
    BY <1>7 DEF RunsOut
  <2>. QED BY <1>2, <1>3, <2>1
<1>8. CASE DeniesDevice BY <1>3, <1>8 DEF DeniesDevice
<1>9. \/ device' = device \/ AskDevice \/ RedeemsDevice \/ RunsOut \/ DeniesDevice
      \/ \E a \in Approvals : ApprovesDevice(a)
  <2>1. \A n \in Nonces, flow \in Flows : AskChallenge(n, flow) => device' = device
    BY DEF AskChallenge
  <2>2. \A c \in Codes : Redeems(c) => device' = device BY DEF Redeems
  <2>3. \A f \in Families : (TokensEnd(f) => device' = device) /\ (Refreshes(f) => device' = device)
    BY DEF TokensEnd, Refreshes
  <2>4. \A x \in Calls : /\ Connects(x) => device' = device
                         /\ Previews(x) => device' = device
                         /\ Executes(x) => device' = device
    BY DEF Connects, Previews, Executes
  <2>5. \A x \in Calls, f \in Families : Arrives(x, f) => device' = device BY DEF Arrives
  <2>6. \A a \in Approvals, n \in Nonces, w \in Selections : ApproveStarts(a, n, w) => device' = device
    BY DEF ApproveStarts
  <2>7. \A a \in Approvals : /\ Binds(a) => device' = device
                             /\ GrantsCode(a) => device' = device
                             /\ Turned(a) => device' = device
    BY DEF Binds, GrantsCode, Turned
  <2>8. /\ AskLoopback => device' = device
        /\ SessionIdles => device' = device
        /\ \A w \in Wallets : SessionRevoked(w) => device' = device
    BY DEF AskLoopback, SessionIdles, SessionRevoked
  <2>. QED BY <2>1, <2>2, <2>3, <2>4, <2>5, <2>6, <2>7, <2>8 DEF AccessNext
<1>. QED BY <1>2, <1>4, <1>5, <1>6, <1>7, <1>8, <1>9

(* Signatures: a step that makes neither code nor tokens, and the three that  *)
(* make one.                                                                  *)
LEMMA NothingMade ==
  ASSUME AccessInv, CodesKept, TokensKept, ChallengesKept, DeviceKept, ApprovalsOK',
         NoMoreTokens, NoMoreCodes,
         \A n \in Nonces : challenges'[n].consumed => challenges'[n].flow # "none"
  PROVE  SignedInv' /\ OneFamilyPerSignature'
<1>1. codes \in [Codes -> Code \cup {[state |-> "free"]}] BY DEF AccessInv, AccessTypeOK
<1>2. \A c \in Codes : codes[c].state # "free" => codes[c].nonce \in Nonces
  BY <1>1 DEF Code
<1>3. \A f \in Families : families[f].issued => families[f].origin[2] \in Nonces
  BY FamilyIssued DEF AccessInv
<1>4. \A c \in Codes : Live(c)' => /\ Live(c) /\ codes'[c].nonce = codes[c].nonce
                                   /\ codes'[c].wallet = codes[c].wallet
  BY DEF Live, CodesKept, NoMoreCodes
<1>5. \A f \in Families : families'[f].issued =>
        /\ families[f].issued /\ families'[f].origin = families[f].origin
        /\ families'[f].wallet = families[f].wallet
  BY DEF TokensKept, NoMoreTokens
<1>6. \A c \in Codes : codes'[c].state # "free" => challenges'[codes'[c].nonce].flow # "none"
  BY <1>2 DEF AccessInv, SignedInv, CodesKept, NoMoreCodes, ChallengesKept
<1>7. \A c, d \in Codes : Live(c)' /\ Live(d)' /\ codes'[c].nonce = codes'[d].nonce
        /\ codes'[c].wallet = codes'[d].wallet => c = d
  BY <1>4 DEF AccessInv, SignedInv
<1>8. \A f \in Families : Loopback(f)' =>
       /\ challenges'[families'[f].origin[2]].consumed
       /\ \A c \in Codes : ~(/\ Live(c)' /\ codes'[c].nonce = families'[f].origin[2]
                             /\ codes'[c].wallet = families'[f].wallet)
  <2>1. \A f \in Families : Loopback(f)' => Loopback(f) BY <1>5 DEF Loopback
  <2>2. \A f \in Families : Loopback(f) =>
          /\ challenges[families[f].origin[2]].consumed
          /\ families[f].origin[2] \in Nonces
          /\ challenges[families[f].origin[2]].flow # "none"
    BY <1>3 DEF AccessInv, SignedInv, Loopback
  <2>. QED BY <1>4, <1>5, <2>1, <2>2 DEF AccessInv, SignedInv, ChallengesKept, Loopback
<1>9. \A f \in Families : ByDevice(f)' => ByDevice(f) BY <1>5 DEF ByDevice
<1>10. \A f \in Families : ByDevice(f)' => device'.status # "none" /\ device'.consumed
  BY <1>9 DEF AccessInv, SignedInv, DeviceKept
<1>11. \A f, g \in Families : ByDevice(f)' /\ ByDevice(g)' => f = g
  BY <1>9 DEF AccessInv, SignedInv
<1>12. OneFamilyPerSignature' BY <1>5 DEF AccessInv, OneFamilyPerSignature
<1>. QED BY <1>6, <1>7, <1>8, <1>10, <1>11, <1>12 DEF SignedInv, ApprovalsOK

(* A new code: the challenge is not consumed, so no token has its signature.   *)
LEMMA CodeMade ==
  ASSUME AccessInv, NEW c \in Codes, NEW w \in Selections, NEW m \in Nonces,
         codes[c].state = "free", challenges[m].flow # "none", ~challenges[m].consumed,
         {d \in Codes : SameGrant(d, w)} = {},
         codes' = [codes EXCEPT ![c] = [state |-> "live", wallet |-> w, nonce |-> m]],
         UNCHANGED <<families, challenges, device>>, ApprovalsOK'
  PROVE  CodesKept /\ SignedInv' /\ OneFamilyPerSignature'
<1>1. codes \in [Codes -> Code \cup {[state |-> "free"]}] BY DEF AccessInv, AccessTypeOK
<1> DEFINE n == [state |-> "live", wallet |-> w, nonce |-> m]
<1>2. n \in Code /\ n.state = "live" /\ n.wallet = w /\ n.nonce = m BY DEF Code
<1>3. codes' = [codes EXCEPT ![c] = n] OBVIOUS
<1> HIDE DEF n
<1>4. CodesKept BY <1>1, <1>2, <1>3 DEF CodesKept
<1>5. codes'[c] = n /\ \A d \in Codes \ {c} : codes'[d] = codes[d] BY <1>1, <1>3
<1>6. \A d \in Codes : ~(codes[d].state = "live" /\ codes[d].wallet = w) BY DEF SameGrant
<1>7. \A d \in Codes : codes'[d].state # "free" => challenges'[codes'[d].nonce].flow # "none"
  BY <1>2, <1>5 DEF AccessInv, SignedInv
<1>8. \A d, e \in Codes : Live(d)' /\ Live(e)' /\ codes'[d].nonce = codes'[e].nonce
        /\ codes'[d].wallet = codes'[e].wallet => d = e
  BY <1>2, <1>5, <1>6 DEF AccessInv, SignedInv, Live
<1>9. \A f \in Families : Loopback(f)' =>
       /\ challenges'[families'[f].origin[2]].consumed
       /\ \A d \in Codes : ~(/\ Live(d)' /\ codes'[d].nonce = families'[f].origin[2]
                             /\ codes'[d].wallet = families'[f].wallet)
  <2>1. \A f \in Families : Loopback(f)' => Loopback(f) /\ families[f].origin[2] # m
    BY DEF AccessInv, SignedInv, Loopback
  <2>. QED BY <1>2, <1>5, <2>1 DEF AccessInv, SignedInv, Live
<1>10. /\ \A f \in Families : ByDevice(f)' => device'.status # "none" /\ device'.consumed
       /\ \A f, g \in Families : ByDevice(f)' /\ ByDevice(g)' => f = g
       /\ OneFamilyPerSignature'
       /\ \A k \in Nonces : challenges'[k].consumed => challenges'[k].flow # "none"
  BY DEF AccessInv, SignedInv, ByDevice, OneFamilyPerSignature
<1>. QED BY <1>4, <1>7, <1>8, <1>9, <1>10 DEF SignedInv, ApprovalsOK

(* Tokens for a code: it was the only live one of its signature and wallet.   *)
LEMMA RedeemsStep ==
  ASSUME AccessInv, NEW c \in Codes, Redeems(c), ApprovalsOK'
  PROVE  /\ CodesKept /\ TokensKept /\ ChallengesKept
         /\ SignedInv' /\ OneFamilyPerSignature'
<1>1. codes \in [Codes -> Code \cup {[state |-> "free"]}] BY DEF AccessInv, AccessTypeOK
<1>2. /\ codes[c].state = "live" /\ codes' = [codes EXCEPT ![c].state = "used"]
      /\ IssuesTokens(codes[c].wallet, <<"loopback", codes[c].nonce>>)
      /\ challenges' = [challenges EXCEPT ![codes[c].nonce].consumed = TRUE] /\ device' = device
  BY DEF Redeems, Consumes
<1>3. codes[c].wallet \in Selections /\ codes[c].nonce \in Nonces BY <1>1, <1>2 DEF Code
<1>4. CodesKept /\ NoMoreCodes /\ codes'[c].state = "used" BY <1>2, CodeEnds DEF AccessInv
<1> DEFINE w == codes[c].wallet
           m == codes[c].nonce
<1>5. TokensKept
      /\ \E f \in Families :
              /\ ~families[f].issued
              /\ families'[f].issued /\ families'[f].wallet = w /\ families'[f].origin = <<"loopback", m>>
              /\ \A g \in Families \ {f} : families'[g] = families[g]
  <2>1. /\ AccessTypeOK /\ w \in Selections /\ m \in Nonces /\ "loopback" \in Flows
        /\ IssuesTokens(w, <<"loopback", m>>)
    BY <1>2, <1>3 DEF AccessInv, Flows
  <2> HIDE DEF w, m
  <2>. QED BY <2>1, TokensIssued
<1>6. PICK f \in Families :
        /\ ~families[f].issued
        /\ families'[f].issued /\ families'[f].wallet = w /\ families'[f].origin = <<"loopback", m>>
        /\ \A g \in Families \ {f} : families'[g] = families[g]
  BY <1>5
<1>7. challenges[m].flow # "none" BY <1>2 DEF AccessInv, SignedInv
<1>8. /\ ChallengesKept /\ challenges'[m].consumed
      /\ \A k \in Nonces : challenges'[k].consumed => challenges'[k].flow # "none"
  BY <1>2, <1>3, <1>7, ChallengeConsumed
<1>9. \A d \in Codes : Live(d)' => /\ Live(d) /\ d # c /\ codes'[d].nonce = codes[d].nonce
                                   /\ codes'[d].wallet = codes[d].wallet
  BY <1>4 DEF Live, CodesKept, NoMoreCodes
<1>10. \A d \in Codes : Live(d)' => ~(codes'[d].nonce = m /\ codes'[d].wallet = w)
  BY <1>2, <1>9 DEF AccessInv, SignedInv, Live
<1>11. \A g \in Families : ~(Loopback(g) /\ families[g].origin[2] = m /\ families[g].wallet = w)
  BY <1>2 DEF AccessInv, SignedInv, Live
<1>12. \A g \in Families : families[g].issued => families[g].origin[2] \in Nonces
  BY FamilyIssued DEF AccessInv
<1>13. \A d \in Codes : codes'[d].state # "free" => challenges'[codes'[d].nonce].flow # "none"
  <2>1. \A d \in Codes : codes[d].state # "free" => codes[d].nonce \in Nonces BY <1>1 DEF Code
  <2>. QED BY <1>4, <1>8, <2>1 DEF AccessInv, SignedInv, CodesKept, NoMoreCodes, ChallengesKept
<1>14. \A d, e \in Codes : Live(d)' /\ Live(e)' /\ codes'[d].nonce = codes'[e].nonce
        /\ codes'[d].wallet = codes'[e].wallet => d = e
  BY <1>9 DEF AccessInv, SignedInv
<1>15. \A g \in Families : Loopback(g)' =>
       /\ challenges'[families'[g].origin[2]].consumed
       /\ \A d \in Codes : ~(/\ Live(d)' /\ codes'[d].nonce = families'[g].origin[2]
                             /\ codes'[d].wallet = families'[g].wallet)
  <2>1. ASSUME NEW g \in Families \ {f}, Loopback(g)'
        PROVE  /\ challenges'[families'[g].origin[2]].consumed
               /\ \A d \in Codes : ~(/\ Live(d)' /\ codes'[d].nonce = families'[g].origin[2]
                                     /\ codes'[d].wallet = families'[g].wallet)
    <3>1. Loopback(g) /\ families'[g] = families[g] BY <1>6, <2>1 DEF Loopback
    <3>2. families[g].origin[2] \in Nonces BY <1>12, <3>1 DEF Loopback
    <3>3. challenges[families[g].origin[2]].consumed /\ challenges[families[g].origin[2]].flow # "none"
      BY <3>1, <3>2 DEF AccessInv, SignedInv
    <3>. QED BY <1>8, <1>9, <3>1, <3>2, <3>3 DEF AccessInv, SignedInv, ChallengesKept
  <2>2. /\ challenges'[families'[f].origin[2]].consumed
        /\ \A d \in Codes : ~(/\ Live(d)' /\ codes'[d].nonce = families'[f].origin[2]
                              /\ codes'[d].wallet = families'[f].wallet)
    <3> HIDE DEF w, m
    <3>. QED BY <1>6, <1>8, <1>10
  <2>. QED BY <2>1, <2>2
<1>16. \A g \in Families : ByDevice(g)' => ByDevice(g) BY <1>6 DEF ByDevice
<1>17. /\ \A g \in Families : ByDevice(g)' => device'.status # "none" /\ device'.consumed
       /\ \A g, h \in Families : ByDevice(g)' /\ ByDevice(h)' => g = h
  BY <1>2, <1>16 DEF AccessInv, SignedInv
<1>18. OneFamilyPerSignature'
  <2>1. ASSUME NEW g \in Families \ {f}, families'[g].issued
        PROVE  ~(families'[g].origin = families'[f].origin /\ families'[g].wallet = families'[f].wallet)
    <3>1. families[g].issued /\ families'[g] = families[g] BY <1>6, <2>1
    <3> HIDE DEF w, m
    <3>. QED BY <1>6, <1>11, <3>1 DEF Loopback
  <2>2. \A g, h \in Families \ {f} : families'[g].issued /\ families'[h].issued
          /\ families'[g].origin = families'[h].origin /\ families'[g].wallet = families'[h].wallet => g = h
    BY <1>6 DEF AccessInv, OneFamilyPerSignature
  <2>. QED BY <2>1, <2>2 DEF OneFamilyPerSignature
<1>. QED BY <1>4, <1>5, <1>8, <1>13, <1>14, <1>15, <1>17, <1>18 DEF SignedInv, ApprovalsOK

LEMMA RedeemsDeviceStep ==
  ASSUME AccessInv, RedeemsDevice, ApprovalsOK'
  PROVE  TokensKept /\ SignedInv' /\ OneFamilyPerSignature'
<1>1. /\ device \in DeviceGrant /\ device.status = "approved" /\ ~device.consumed
      /\ IssuesTokens(device.wallet, <<"device", device.nonce>>)
      /\ device' = [device EXCEPT !.consumed = TRUE] /\ UNCHANGED <<codes, challenges>>
  BY DEF RedeemsDevice, AccessInv, AccessTypeOK
<1>2. device.wallet \in Selections /\ device.nonce \in Nonces
      /\ device'.status = "approved" /\ device'.consumed
  BY <1>1 DEF DeviceGrant
<1> DEFINE w == device.wallet
           m == device.nonce
<1>3. TokensKept
      /\ \E f \in Families :
              /\ ~families[f].issued
              /\ families'[f].issued /\ families'[f].wallet = w /\ families'[f].origin = <<"device", m>>
              /\ \A g \in Families \ {f} : families'[g] = families[g]
  BY <1>1, <1>2, TokensIssued DEF AccessInv, Flows
<1>4. PICK f \in Families :
        /\ ~families[f].issued
        /\ families'[f].issued /\ families'[f].wallet = w /\ families'[f].origin = <<"device", m>>
        /\ \A g \in Families \ {f} : families'[g] = families[g]
  BY <1>3
<1> HIDE DEF w, m
<1>5. \A g \in Families : ~ByDevice(g) BY <1>1 DEF AccessInv, SignedInv
<1>6. \A g \in Families : Loopback(g)' => g # f /\ Loopback(g) /\ families'[g] = families[g]
  BY <1>4 DEF Loopback
<1>7. \A g \in Families : ByDevice(g)' => g = f BY <1>4, <1>5 DEF ByDevice
<1>8. \A g \in Families : Loopback(g)' =>
       /\ challenges'[families'[g].origin[2]].consumed
       /\ \A d \in Codes : ~(/\ Live(d)' /\ codes'[d].nonce = families'[g].origin[2]
                             /\ codes'[d].wallet = families'[g].wallet)
  BY <1>1, <1>6 DEF AccessInv, SignedInv, Live
<1>9. OneFamilyPerSignature'
  <2>1. ASSUME NEW g \in Families \ {f}, families'[g].issued
        PROVE  families'[g].origin # families'[f].origin
    <3>1. families[g].issued /\ families'[g] = families[g] BY <1>4, <2>1
    <3>2. families[g].origin[1] # "device" BY <1>5, <3>1 DEF ByDevice
    <3>. QED BY <1>4, <3>1, <3>2
  <2>2. \A g, h \in Families \ {f} : families'[g].issued /\ families'[h].issued
          /\ families'[g].origin = families'[h].origin /\ families'[g].wallet = families'[h].wallet => g = h
    BY <1>4 DEF AccessInv, OneFamilyPerSignature
  <2>. QED BY <2>1, <2>2 DEF OneFamilyPerSignature
<1>10. /\ \A d \in Codes : codes'[d].state # "free" => challenges'[codes'[d].nonce].flow # "none"
       /\ \A d, e \in Codes : Live(d)' /\ Live(e)' /\ codes'[d].nonce = codes'[e].nonce
            /\ codes'[d].wallet = codes'[e].wallet => d = e
       /\ \A k \in Nonces : challenges'[k].consumed => challenges'[k].flow # "none"
  BY <1>1 DEF AccessInv, SignedInv, Live
<1>. QED BY <1>2, <1>3, <1>7, <1>8, <1>9, <1>10 DEF SignedInv, ApprovalsOK

(* The wallets: what is named stays, whichever code or token it is.           *)
LEMMA NamedKept ==
  ASSUME AccessInv, CodesKept, TokensKept, answered' = answered, calls' = calls
  PROVE  NamedInv'
<1>1. \A r \in answered : r.code \in Codes BY DEF AccessInv, AccessTypeOK
<1>2. \A x \in Calls : calls[x].step # "idle" => calls[x].token \in Families
  BY DEF AccessInv, AccessTypeOK, ToolCall
<1>3. \A r \in answered' : codes'[r.code].state # "free" /\ codes'[r.code].wallet = r.wallet
  BY <1>1 DEF AccessInv, NamedInv, CodesKept
<1>. QED BY <1>2, <1>3 DEF AccessInv, NamedInv, TokensKept

(* A step of one tool call.                                                   *)
LEMMA CallMoves ==
  ASSUME AccessInv, UNCHANGED <<codes, families, answered>>, NEW x \in Calls, NEW v \in ToolCall,
         calls' = [calls EXCEPT ![x] = v], families[v.token].issued,
         v.step = "served" => families[v.token].wallet = v.bound,
         v.step \in {"previewed", "sent"} => families[v.token].wallet \in {NoWallet, v.wallet}
  PROVE  NamedInv' /\ calls' \in [Calls -> ToolCall \cup {[step |-> "idle"]}]
<1>1. calls \in [Calls -> ToolCall \cup {[step |-> "idle"]}] BY DEF AccessInv, AccessTypeOK
<1>2. calls'[x] = v /\ \A y \in Calls \ {x} : calls'[y] = calls[y] BY <1>1
<1>3. calls' \in [Calls -> ToolCall \cup {[step |-> "idle"]}] BY <1>1
<1>4. \A y \in Calls :
       /\ calls'[y].step # "idle" => families[calls'[y].token].issued
       /\ calls'[y].step = "served" => families[calls'[y].token].wallet = calls'[y].bound
       /\ calls'[y].step \in {"previewed", "sent"} =>
            families[calls'[y].token].wallet \in {NoWallet, calls'[y].wallet}
  BY <1>2 DEF AccessInv, NamedInv
<1>. QED BY <1>3, <1>4 DEF AccessInv, NamedInv

LEMMA CallsStep ==
  ASSUME AccessInv, NEW x \in Calls,
         (\E f \in Families : Arrives(x, f)) \/ Connects(x) \/ Previews(x) \/ Executes(x)
  PROVE  /\ NamedInv' /\ calls' \in [Calls -> ToolCall \cup {[step |-> "idle"]}]
         /\ session' \in {NoSession} \cup [open : {TRUE}, wallet : Selections]
<1>1. /\ session \in {NoSession} \cup [open : {TRUE}, wallet : Selections]
      /\ calls \in [Calls -> ToolCall \cup {[step |-> "idle"]}] /\ active \subseteq Wallets
      /\ alias \in Selections
  BY DEF AccessInv, AccessTypeOK
<1>2. \A f \in Families : families[f].issued => families[f].wallet \in Selections
  BY FamilyIssued DEF AccessInv
<1>3. ASSUME NEW f \in Families, Arrives(x, f)
      PROVE  /\ NamedInv' /\ calls' \in [Calls -> ToolCall \cup {[step |-> "idle"]}]
             /\ session' \in {NoSession} \cup [open : {TRUE}, wallet : Selections]
  <2>1. UNCHANGED <<codes, families, answered>> /\ families[f].issued BY <1>3 DEF Arrives
  <2>2. CASE SameContext(f)
    <3> DEFINE v == [step |-> "served", token |-> f, bound |-> session.wallet]
    <3>1. session.wallet = families[f].wallet /\ session' = session BY <1>3, <2>2 DEF SameContext, Arrives
    <3>2. v \in ToolCall /\ v.step = "served" /\ v.token = f /\ v.bound = session.wallet
      BY <1>2, <2>1, <3>1 DEF ToolCall
    <3>3. calls' = [calls EXCEPT ![x] = v] BY <1>3, <2>2 DEF Arrives
    <3> HIDE DEF v
    <3>. QED BY <1>1, <2>1, <3>1, <3>2, <3>3, CallMoves
  <2>3. CASE ~SameContext(f)
    <3> DEFINE v == [step |-> "connecting", token |-> f]
    <3>1. v \in ToolCall /\ v.step = "connecting" /\ v.token = f BY DEF ToolCall
    <3>2. calls' = [calls EXCEPT ![x] = v] /\ session' = NoSession BY <1>3, <2>3 DEF Arrives
    <3> HIDE DEF v
    <3>. QED BY <2>1, <3>1, <3>2, CallMoves
  <2>. QED BY <2>2, <2>3
<1>4. CASE Connects(x)
  <2> DEFINE f == calls[x].token
             w == families[f].wallet
             v == [step |-> "served", token |-> f, bound |-> w]
  <2>1. /\ calls[x].step = "connecting" /\ UNCHANGED <<codes, families, answered>>
        /\ session' = [open |-> TRUE, wallet |-> w]
        /\ calls' = [calls EXCEPT ![x] = v]
    BY <1>4 DEF Connects
  <2>2. f \in Families BY <1>1, <2>1 DEF ToolCall
  <2>3. families[f].issued BY <2>1 DEF AccessInv, NamedInv
  <2>4. w \in Selections BY <1>2, <2>2, <2>3
  <2> HIDE DEF f, w
  <2>5. v \in ToolCall /\ v.step = "served" /\ v.token = f /\ v.bound = w BY <2>2, <2>4 DEF ToolCall
  <2>6. families[f].wallet = w BY DEF w
  <2>7. session' \in {NoSession} \cup [open : {TRUE}, wallet : Selections] BY <2>1, <2>4
  <2> HIDE DEF v
  <2>. QED BY <2>1, <2>3, <2>5, <2>6, <2>7, CallMoves
<1>5. CASE Previews(x)
  <2> DEFINE f == calls[x].token
             w == Resolved(calls[x].bound)
             v == [step |-> "previewed", token |-> f, wallet |-> w, from |-> w]
  <2>1. /\ calls[x].step = "served" /\ UNCHANGED <<codes, families, answered>>
        /\ w \in active /\ session' = session
        /\ calls' = [calls EXCEPT ![x] = v]
    BY <1>5 DEF Previews
  <2>2. f \in Families BY <1>1, <2>1 DEF ToolCall
  <2>3. families[f].issued /\ families[f].wallet \in {NoWallet, w}
    BY <2>1 DEF AccessInv, NamedInv, Resolved
  <2>4. w \in Wallets BY <1>1, <2>1
  <2> HIDE DEF f, w
  <2>5. v \in ToolCall /\ v.step = "previewed" /\ v.token = f /\ v.wallet = w
    BY <2>2, <2>4 DEF ToolCall
  <2> HIDE DEF v
  <2>. QED BY <1>1, <2>1, <2>3, <2>5, CallMoves
<1>6. CASE Executes(x)
  <2> DEFINE b == [calls[x] EXCEPT !.step = "sent"]
             v == [b EXCEPT !.from = Signer]
  <2>1. /\ calls[x].step = "previewed" /\ UNCHANGED <<codes, families, answered>>
        /\ Signer \in active /\ session' = session
    BY <1>6 DEF Executes
  <2>2. calls' = [calls EXCEPT ![x] = v] BY <1>1, <1>6 DEF Executes
  <2> DEFINE Sends == [step : {"previewed", "sent"}, token : Families, wallet : Wallets, from : Wallets]
  <2>3. calls[x] \in Sends BY <1>1, <2>1 DEF ToolCall
  <2>4. b \in Sends /\ b.step = "sent" /\ b.token = calls[x].token /\ b.wallet = calls[x].wallet
    BY <2>3
  <2>5. v \in Sends /\ v.step = "sent" /\ v.token = calls[x].token /\ v.wallet = calls[x].wallet
    <3>1. Signer \in Wallets BY <1>1, <2>1
    <3> HIDE DEF b
    <3>. QED BY <2>4, <3>1
  <2>6. /\ families[calls[x].token].issued
        /\ families[calls[x].token].wallet \in {NoWallet, calls[x].wallet}
    BY <2>1 DEF AccessInv, NamedInv
  <2>7. v \in ToolCall BY <2>5 DEF ToolCall
  <2> HIDE DEF v
  <2>. QED BY <1>1, <2>1, <2>2, <2>5, <2>6, <2>7, CallMoves
<1>. QED BY <1>3, <1>4, <1>5, <1>6

LEMMA GrantsStep ==
  ASSUME AccessInv, NEW a \in Approvals, GrantsCode(a), ApprovalsOK'
  PROVE  /\ CodesKept /\ NamedInv' /\ SignedInv' /\ OneFamilyPerSignature'
         /\ answered' \subseteq [code : Codes, wallet : Selections]
<1> DEFINE w == approving[a].wallet
           m == approving[a].nonce
           old == {c \in Codes : SameGrant(c, w)}
<1>1. approving[a] \in Approval
  <2>1. approving \in [Approvals -> Approval \cup {[step |-> "idle"], [step |-> "done"]}]
        /\ approving[a].step = "bound"
    BY DEF AccessInv, AccessTypeOK, GrantsCode
  <2>. QED BY <2>1
<1>2. w \in Selections /\ m \in Nonces BY <1>1 DEF Approval
<1>3. challenges[m].flow = "loopback" /\ ~challenges[m].consumed
      /\ UNCHANGED <<families, challenges, device, calls>>
  BY DEF GrantsCode, ChallengeGood
<1>4. PICK c \in IF old # {} THEN old ELSE Oldest({x \in Codes : codes[x].state = "free"}) :
        /\ codes' = IF old # {} THEN codes
                    ELSE [codes EXCEPT ![c] = [state |-> "live", wallet |-> w, nonce |-> m]]
        /\ answered' = answered \cup {[code |-> c, wallet |-> w]}
  BY DEF GrantsCode
<1>5. answered \subseteq [code : Codes, wallet : Selections]
      /\ codes \in [Codes -> Code \cup {[state |-> "free"]}]
  BY DEF AccessInv, AccessTypeOK
<1>6. c \in Codes BY <1>4 DEF Oldest
<1>7. answered' \subseteq [code : Codes, wallet : Selections] BY <1>2, <1>4, <1>5, <1>6
<1>8. TokensKept /\ NoMoreTokens BY <1>3, TokensStay DEF AccessInv
<1>9. CASE old # {}
  <2>1. codes' = codes /\ codes[c].state = "live" /\ codes[c].wallet = w
    BY <1>4, <1>9 DEF SameGrant
  <2>2. CodesKept /\ NoMoreCodes BY <2>1, CodesStay DEF AccessInv
  <2>3. DeviceKept BY <1>3 DEF DeviceKept, AccessInv, AccessTypeOK
  <2>4. SignedInv' /\ OneFamilyPerSignature'
    BY <1>3, <1>8, <2>2, <2>3, NothingMade, ChallengesStay DEF NoneConsumed
  <2> HIDE DEF w, old
  <2>5. NamedInv' BY <1>3, <1>4, <2>1 DEF AccessInv, NamedInv
  <2>. QED BY <1>7, <2>2, <2>4, <2>5
<1>10. CASE old = {}
  <2>1. codes' = [codes EXCEPT ![c] = [state |-> "live", wallet |-> w, nonce |-> m]]
        /\ codes[c].state = "free"
    BY <1>4, <1>10 DEF Oldest
  <2>2. {d \in Codes : SameGrant(d, w)} = {} BY <1>10
  <2>3. CodesKept /\ SignedInv' /\ OneFamilyPerSignature'
    <3> HIDE DEF w, m, old
    <3>. QED BY <1>2, <1>3, <1>6, <2>1, <2>2, CodeMade
  <2> HIDE DEF w, m, old
  <2>4. codes'[c].wallet = w /\ codes'[c].state = "live" /\ \A d \in Codes \ {c} : codes'[d] = codes[d]
    BY <1>5, <1>6, <2>1
  <2>5. \A r \in answered : r.code \in Codes /\ r.code # c
    BY <1>5, <2>1 DEF AccessInv, NamedInv
  <2>6. \A r \in answered' : codes'[r.code].state # "free" /\ codes'[r.code].wallet = r.wallet
    BY <1>4, <2>4, <2>5 DEF AccessInv, NamedInv
  <2>7. NamedInv' BY <1>3, <2>6 DEF AccessInv, NamedInv
  <2>. QED BY <1>7, <2>3, <2>7
<1>. QED BY <1>9, <1>10

(* The other steps make nothing.                                              *)
IdleStep ==
  \/ AskLoopback \/ AskDevice \/ RunsOut \/ DeniesDevice \/ SessionIdles
  \/ \E n \in Nonces, flow \in Flows : AskChallenge(n, flow)
  \/ \E w \in Wallets : SessionRevoked(w)
  \/ \E a \in Approvals, n \in Nonces, w \in Selections : ApproveStarts(a, n, w)
  \/ \E a \in Approvals : Binds(a) \/ ApprovesDevice(a) \/ Turned(a)
  \/ \E f \in Families : TokensEnd(f) \/ Refreshes(f)

LEMMA IdleKeeps ==
  ASSUME AccessInv, IdleStep
  PROVE  /\ CodesKept /\ TokensKept /\ ChallengesKept /\ NoMoreTokens /\ NoMoreCodes
         /\ \A n \in Nonces : challenges'[n].consumed => challenges'[n].flow # "none"
         /\ UNCHANGED <<calls, answered>>
         /\ session' \in {session, NoSession}
<1>1. ASSUME codes' = codes, families' = families, UNCHANGED <<calls, answered>>, challenges' = challenges,
             session' \in {session, NoSession}
      PROVE  /\ CodesKept /\ TokensKept /\ ChallengesKept /\ NoMoreTokens /\ NoMoreCodes
             /\ \A n \in Nonces : challenges'[n].consumed => challenges'[n].flow # "none"
             /\ UNCHANGED <<calls, answered>> /\ session' \in {session, NoSession}
  BY <1>1, CodesStay, TokensStay, ChallengesStay DEF AccessInv, NoneConsumed
<1>2. CASE AskLoopback \/ AskDevice \/ DeniesDevice \/ SessionIdles \/ \E w \in Wallets : SessionRevoked(w)
  BY <1>1, <1>2 DEF AskLoopback, AskDevice, DeniesDevice, SessionIdles, SessionRevoked
<1>3. CASE RunsOut
  <2>1. UNCHANGED <<calls, answered, families, session>> BY <1>3 DEF RunsOut
  <2>2. CodesKept /\ NoMoreCodes
    <3>1. codes' = codes
          \/ \E c \in Codes : codes[c].state = "live" /\ codes' = [codes EXCEPT ![c].state = "expired"]
      BY <1>3 DEF RunsOut
    <3>. QED BY <3>1, CodesStay, CodeEnds DEF AccessInv
  <2>3. ChallengesKept /\ NoneConsumed
    <3>1. challenges' = challenges
          \/ \E n \in Nonces : challenges' = [challenges EXCEPT ![n].live = FALSE]
      BY <1>3 DEF RunsOut
    <3>. QED BY <3>1, ChallengesStay, ChallengeEnds
  <2>. QED BY <2>1, <2>2, <2>3, TokensStay DEF AccessInv, NoneConsumed
<1>4. ASSUME NEW n \in Nonces, NEW flow \in Flows, AskChallenge(n, flow)
      PROVE  /\ CodesKept /\ TokensKept /\ ChallengesKept /\ NoMoreTokens /\ NoMoreCodes
             /\ \A k \in Nonces : challenges'[k].consumed => challenges'[k].flow # "none"
             /\ UNCHANGED <<calls, answered>> /\ session' \in {session, NoSession}
  <2>1. UNCHANGED <<codes, calls, answered, families, session>> BY <1>4 DEF AskChallenge
  <2>. QED BY <1>4, <2>1, ChallengeAsked, CodesStay, TokensStay DEF AccessInv, NoneConsumed
<1>5. ASSUME NEW a \in Approvals, NEW n \in Nonces, NEW w \in Selections, ApproveStarts(a, n, w)
      PROVE  /\ UNCHANGED <<calls, answered>> /\ codes' = codes /\ families' = families
             /\ challenges' = challenges /\ session' = session
  BY <1>5 DEF ApproveStarts
<1>6. ASSUME NEW a \in Approvals, Binds(a)
      PROVE  /\ UNCHANGED <<calls, answered>> /\ codes' = codes /\ families' = families
             /\ challenges' = challenges /\ session' = session
  BY <1>6 DEF Binds
<1>7. ASSUME NEW a \in Approvals, ApprovesDevice(a) \/ Turned(a)
      PROVE  /\ UNCHANGED <<calls, answered>> /\ codes' = codes /\ families' = families
             /\ challenges' = challenges /\ session' = session
  BY <1>7 DEF ApprovesDevice, Turned
<1>8. ASSUME NEW f \in Families, TokensEnd(f) \/ Refreshes(f)
      PROVE  /\ CodesKept /\ TokensKept /\ ChallengesKept /\ NoMoreTokens /\ NoMoreCodes
             /\ \A n \in Nonces : challenges'[n].consumed => challenges'[n].flow # "none"
             /\ UNCHANGED <<calls, answered>> /\ session' \in {session, NoSession}
  <2>1. UNCHANGED <<codes, challenges, calls, answered, session>> /\ families[f].issued
    BY <1>8 DEF TokensEnd, Refreshes
  <2>2. families[f] \in Family BY <2>1, FamilyIssued DEF AccessInv
  <2> DEFINE b == families[f].access /\ families[f].refresh
  <2>3. b \in BOOLEAN OBVIOUS
  <2>4. \/ families' = [families EXCEPT ![f].access = TRUE]
        \/ families' = [families EXCEPT ![f].access = FALSE, ![f].refresh = b]
    BY <1>8 DEF TokensEnd, Refreshes
  <2> HIDE DEF b
  <2>5. TokensKept /\ NoMoreTokens BY <2>1, <2>3, <2>4, TokenChanges DEF AccessInv
  <2>. QED BY <2>1, <2>5, CodesStay, ChallengesStay DEF AccessInv, NoneConsumed
<1>. QED BY <1>1, <1>2, <1>3, <1>4, <1>5, <1>6, <1>7, <1>8 DEF IdleStep

CallStep ==
  \E x \in Calls : (\E f \in Families : Arrives(x, f)) \/ Connects(x) \/ Previews(x) \/ Executes(x)

LEMMA AccessKinds ==
  ASSUME AccessNext
  PROVE  IdleStep \/ CallStep \/ RedeemsDevice \/ (\E c \in Codes : Redeems(c))
         \/ \E a \in Approvals : GrantsCode(a)
  BY DEF AccessNext, IdleStep, CallStep

(* What is left of the types.                                                 *)
LEMMA AccessRestStep ==
  ASSUME AccessInv, AccessNext
  PROVE  /\ request' \in {"none", "open", "expired"} /\ alias' \in Selections
         /\ active' \subseteq Wallets /\ changes' \in 0 .. AccessChanges
<1>1. /\ request \in {"none", "open", "expired"} /\ alias \in Selections
      /\ active \subseteq Wallets /\ changes \in 0 .. AccessChanges /\ AccessChanges \in Nat
      /\ approving \in [Approvals -> Approval \cup {[step |-> "idle"], [step |-> "done"]}]
  BY AccessAssumption DEF AccessInv, AccessTypeOK, AccessAssumption
<1>2. AccessChange => changes' \in 0 .. AccessChanges BY <1>1 DEF AccessChange
<1>3. CASE CallStep
  BY <1>1, <1>3 DEF CallStep, Arrives, Connects, Previews, Executes
<1>4. CASE RedeemsDevice \/ \E c \in Codes : Redeems(c)
  BY <1>1, <1>4 DEF RedeemsDevice, Redeems
<1>5. CASE \E a \in Approvals : GrantsCode(a)
  BY <1>1, <1>5 DEF GrantsCode
<1>6. ASSUME NEW a \in Approvals, Binds(a)
      PROVE  /\ request' \in {"none", "open", "expired"} /\ alias' \in Selections
             /\ active' \subseteq Wallets /\ changes' \in 0 .. AccessChanges
  <2>1. approving[a] \in Approval /\ approving[a].step = "verifying" BY <1>1, <1>6 DEF Binds
  <2>2. approving[a].wallet \in Selections BY <2>1 DEF Approval
  <2>3. alias' = alias \/ alias' = Rebound(approving[a].wallet) BY <1>6 DEF Binds
  <2>4. UNCHANGED <<request, active, changes>> BY <1>6 DEF Binds
  <2>. QED BY <1>1, <2>2, <2>3, <2>4 DEF Rebound
<1>7. ASSUME NEW a \in Approvals, ApprovesDevice(a) \/ Turned(a)
      PROVE  UNCHANGED <<request, alias, active, changes>>
  BY <1>7 DEF ApprovesDevice, Turned
<1>8. ASSUME NEW a \in Approvals, NEW n \in Nonces, NEW w \in Selections, ApproveStarts(a, n, w)
      PROVE  UNCHANGED <<request, alias, active, changes>>
  BY <1>8 DEF ApproveStarts
<1>9. ASSUME AskLoopback \/ AskDevice \/ RunsOut \/ DeniesDevice \/ SessionIdles
              \/ (\E n \in Nonces, flow \in Flows : AskChallenge(n, flow))
              \/ (\E w \in Wallets : SessionRevoked(w))
      PROVE  /\ request' \in {"none", "open", "expired"} /\ alias' \in Selections
             /\ active' \subseteq Wallets /\ changes' \in 0 .. AccessChanges
  <2>1. CASE AskLoopback \/ AskDevice \/ \E n \in Nonces, flow \in Flows : AskChallenge(n, flow)
    BY <1>1, <2>1 DEF AskLoopback, AskDevice, AskChallenge
  <2>2. CASE RunsOut BY <1>1, <1>2, <2>2 DEF RunsOut
  <2>3. CASE DeniesDevice \/ SessionIdles \/ \E w \in Wallets : SessionRevoked(w)
    BY <1>1, <1>2, <2>3 DEF DeniesDevice, SessionIdles, SessionRevoked
  <2>. QED BY <1>9, <2>1, <2>2, <2>3
<1>10. ASSUME NEW f \in Families, TokensEnd(f) \/ Refreshes(f)
       PROVE  /\ request' \in {"none", "open", "expired"} /\ alias' \in Selections
              /\ active' \subseteq Wallets /\ changes' \in 0 .. AccessChanges
  BY <1>1, <1>2, <1>10 DEF TokensEnd, Refreshes
<1>. QED BY <1>1, <1>3, <1>4, <1>5, <1>6, <1>7, <1>8, <1>9, <1>10, AccessKinds DEF IdleStep

LEMMA AccessInvStep ==
  ASSUME AccessInv, AccessNext
  PROVE  AccessInv'
<1>1. DeviceKept BY DeviceStep
<1>2. /\ calls \in [Calls -> ToolCall \cup {[step |-> "idle"]}]
      /\ session \in {NoSession} \cup [open : {TRUE}, wallet : Selections]
      /\ answered \subseteq [code : Codes, wallet : Selections]
  BY DEF AccessInv, AccessTypeOK
<1> DEFINE Goal == /\ CodesKept /\ TokensKept /\ ChallengesKept /\ ApprovalsOK'
                   /\ NamedInv' /\ SignedInv' /\ OneFamilyPerSignature'
                   /\ calls' \in [Calls -> ToolCall \cup {[step |-> "idle"]}]
                   /\ session' \in {NoSession} \cup [open : {TRUE}, wallet : Selections]
                   /\ answered' \subseteq [code : Codes, wallet : Selections]
<1>3. ASSUME IdleStep PROVE Goal
  <2>1. /\ CodesKept /\ TokensKept /\ ChallengesKept /\ NoMoreTokens /\ NoMoreCodes
        /\ \A n \in Nonces : challenges'[n].consumed => challenges'[n].flow # "none"
        /\ calls' = calls /\ answered' = answered
        /\ session' \in {session, NoSession}
    BY <1>3, IdleKeeps
  <2>2. ApprovalsOK' BY <2>1, ApprovalsStep
  <2>3. SignedInv' /\ OneFamilyPerSignature' BY <1>1, <2>1, <2>2, NothingMade
  <2>4. NamedInv' BY <2>1, NamedKept
  <2>. QED BY <1>2, <2>1, <2>2, <2>3, <2>4
<1>4. ASSUME CallStep PROVE Goal
  <2>1. UNCHANGED <<codes, families, challenges, answered>>
    BY <1>4 DEF CallStep, Arrives, Connects, Previews, Executes
  <2>2. CodesKept /\ TokensKept /\ ChallengesKept /\ NoMoreTokens /\ NoMoreCodes /\ NoneConsumed
    BY <2>1, CodesStay, TokensStay, ChallengesStay DEF AccessInv
  <2>3. ApprovalsOK' BY <2>2, ApprovalsStep
  <2>4. SignedInv' /\ OneFamilyPerSignature' BY <1>1, <2>2, <2>3, NothingMade DEF NoneConsumed
  <2>5. /\ NamedInv' /\ calls' \in [Calls -> ToolCall \cup {[step |-> "idle"]}]
        /\ session' \in {NoSession} \cup [open : {TRUE}, wallet : Selections]
    BY <1>4, CallsStep DEF CallStep
  <2>. QED BY <1>2, <2>1, <2>2, <2>3, <2>4, <2>5
<1>5. ASSUME RedeemsDevice PROVE Goal
  <2>1. UNCHANGED <<codes, challenges, calls, session, answered>> BY <1>5 DEF RedeemsDevice
  <2>2. CodesKept /\ ChallengesKept BY <2>1, CodesStay, ChallengesStay DEF AccessInv
  <2>3. ApprovalsOK' BY <2>2, ApprovalsStep
  <2>4. TokensKept /\ SignedInv' /\ OneFamilyPerSignature' BY <1>5, <2>3, RedeemsDeviceStep
  <2>5. NamedInv' BY <2>1, <2>2, <2>4, NamedKept
  <2>. QED BY <1>2, <2>1, <2>2, <2>3, <2>4, <2>5
<1>6. ASSUME NEW c \in Codes, Redeems(c) PROVE Goal
  <2>1. UNCHANGED <<approving, calls, session, answered>> BY <1>6 DEF Redeems
  <2>2. ChallengesKept
    <3>1. codes[c].state = "live" /\ challenges' = [challenges EXCEPT ![codes[c].nonce].consumed = TRUE]
      BY <1>6 DEF Redeems, Consumes
    <3>2. codes[c] \in Code \cup {[state |-> "free"]} BY DEF AccessInv, AccessTypeOK
    <3>3. codes[c].nonce \in Nonces BY <3>1, <3>2 DEF Code
    <3>4. challenges[codes[c].nonce].flow # "none" BY <3>1 DEF AccessInv, SignedInv
    <3>. QED BY <3>1, <3>3, <3>4, ChallengeConsumed
  <2>3. ApprovalsOK' BY <2>1, <2>2, ApprovalsStay
  <2>4. CodesKept /\ TokensKept /\ SignedInv' /\ OneFamilyPerSignature' BY <1>6, <2>3, RedeemsStep
  <2>5. NamedInv' BY <2>1, <2>4, NamedKept
  <2>. QED BY <1>2, <2>1, <2>2, <2>3, <2>4, <2>5
<1>7. ASSUME NEW a \in Approvals, GrantsCode(a) PROVE Goal
  <2>1. UNCHANGED <<families, challenges, calls, session>> BY <1>7 DEF GrantsCode
  <2>2. TokensKept /\ ChallengesKept BY <2>1, TokensStay, ChallengesStay DEF AccessInv
  <2>3. ApprovalsOK' BY <2>2, ApprovalsStep
  <2>. QED BY <1>2, <1>7, <2>1, <2>2, <2>3, GrantsStep
<1>8. Goal BY <1>3, <1>4, <1>5, <1>6, <1>7, AccessKinds
<1>9. AccessTypeOK'
  BY <1>1, <1>8, AccessRestStep
  DEF AccessTypeOK, CodesKept, TokensKept, ChallengesKept, ApprovalsOK, DeviceKept
<1>. QED BY <1>8, <1>9 DEF AccessInv

THEOREM AccessInvHolds == AccessSpec => []AccessInv
<1>1. AccessInv /\ UNCHANGED accessVars => AccessInv'
  <2>. SUFFICES ASSUME AccessInv, UNCHANGED accessVars PROVE AccessInv' OBVIOUS
  <2>1. AccessTypeOK' BY DEF accessVars, AccessInv, AccessTypeOK
  <2>2. NamedInv' /\ OneFamilyPerSignature'
    BY DEF accessVars, AccessInv, NamedInv, OneFamilyPerSignature
  <2>3. SignedInv' BY DEF accessVars, AccessInv, SignedInv, Live, Loopback, ByDevice
  <2>. QED BY <2>1, <2>2, <2>3 DEF AccessInv
<1>2. AccessInv /\ [AccessNext]_accessVars => AccessInv' BY <1>1, AccessInvStep
<1>. QED BY <1>2, AccessInvInit, PTL DEF AccessSpec

(* OneFamilyPerSignature for any number of challenges, codes and calls: a     *)
(* signature gets tokens once for each wallet (exchangeCodeForToken,          *)
(* exchangeDeviceCodeForToken).                                               *)
THEOREM SpecOneFamilyPerSignature == AccessSpec => []OneFamilyPerSignature
<1>1. AccessInv => OneFamilyPerSignature BY DEF AccessInv
<1>. QED BY <1>1, AccessInvHolds, PTL

(* NamedWalletKept: from the approval to the call the wallet stays the one     *)
(* that was named (createAuthCode, mcpHttpHandler, resolveActiveMsca).         *)
THEOREM SpecNamedWalletKept == AccessSpec => []NamedWalletKept
<1>1. AccessInv => NamedWalletKept BY DEF AccessInv, NamedInv, NamedWalletKept
<1>. QED BY <1>1, AccessInvHolds, PTL

--------------------------------------------------------------------------------
(* The AI Router. *)

Call == [stage : Between \cup {"let_in", "refreshing", "done"}, key : ApiKeys,
         idem : Idems \cup {NoIdem}, consent : BOOLEAN, seen : Policy]
RouterTypes ==
  /\ policy \in [Payers -> Policy] /\ refresh \in [Payers -> Policy]
  /\ wanted \in [Payers -> BOOLEAN] /\ reverted \in [Payers -> BOOLEAN]
  /\ slot \in [Payers -> Chats \cup {NoChat}] /\ debits \in [Chats -> Nat]
  /\ chats \in [Chats -> {NewCall} \cup Call]

(* A call that spends has the slot of its wallet until it has lost it.        *)
SpendsInSlot ==
  \A c \in Chats : ChatAt(c, "spending") /\ c \notin overrun => slot[Owner(c)] = c

(* What was on when a call last looked is what it goes on with.               *)
Consents ==
  /\ \A w \in Payers : policy[w].enabled => wanted[w] \/ reverted[w]
  /\ \A c \in Chats :
       /\ chats[c].stage \in Between => chats[c].consent
       /\ ChatAt(c, "refreshing") => chats[c].seen.enabled
       /\ debits[c] > 0 =>
            chats[c].stage \notin {"new", "let_in", "refreshing"} /\ chats[c].consent

RouterInv == RouterTypes /\ SpendsInSlot /\ Consents

LEMMA RouterInvInit == AiRouterInit => RouterInv
<1>. SUFFICES ASSUME AiRouterInit PROVE RouterInv OBVIOUS
<1>1. RouterTypes
  BY DEF AiRouterInit, RouterTypes, Policy, ChainStatuses, NoRefresh
<1>2. SpendsInSlot /\ Consents
  BY DEF AiRouterInit, SpendsInSlot, Consents, ChatAt, NewCall, Between
<1>. QED BY <1>1, <1>2 DEF RouterInv

LEMMA OwnerIsPayer ==
  ASSUME RouterTypes, NEW c \in Chats, ~ChatAt(c, "new")
  PROVE  chats[c] \in Call /\ Owner(c) \in Payers
<1>1. chats[c] \in Call BY DEF RouterTypes, ChatAt, NewCall
<1>2. chats[c].key \in 1 .. MaxKeys BY <1>1 DEF Call, ApiKeys
<1>. QED BY <1>1, <1>2, AiRouterAssumption DEF AiRouterAssumption, Owner

(* A call that has been let in goes to another stage.                         *)
CallGoes(c, s) ==
  /\ chats' \in [Chats -> {NewCall} \cup Call]
  /\ chats'[c].stage = s /\ Owner(c)' = Owner(c) /\ chats'[c].consent = chats[c].consent
  /\ chats'[c].seen = chats[c].seen
  /\ \A d \in Chats \ {c} : chats'[d] = chats[d]

LEMMA GotoGoes ==
  ASSUME RouterTypes, NEW c \in Chats, ~ChatAt(c, "new"),
         NEW s \in Between \cup {"let_in", "refreshing", "done"}, Goto(c, s)
  PROVE  CallGoes(c, s)
<1> DEFINE v == [chats[c] EXCEPT !.stage = s]
<1>1. chats \in [Chats -> {NewCall} \cup Call] /\ chats[c] \in Call
  BY OwnerIsPayer DEF RouterTypes
<1>2. v \in Call /\ v.stage = s /\ v.key = chats[c].key /\ v.consent = chats[c].consent
      /\ v.seen = chats[c].seen
  BY <1>1 DEF Call
<1>3. chats' = [chats EXCEPT ![c] = v] BY DEF Goto
<1> HIDE DEF v
<1>. QED BY <1>1, <1>2, <1>3 DEF CallGoes, Owner

(* What a call that goes on may do without the slots.                         *)
LEMMA GoesOn ==
  ASSUME RouterInv, NEW c \in Chats, ~ChatAt(c, "new"),
         NEW s \in (Between \ {"spending"}) \cup {"done"}, CallGoes(c, s),
         s \in Between => chats[c].stage \in Between,
         slot' = slot \/ slot' = [w \in Payers |-> IF slot[w] = c THEN NoChat ELSE slot[w]],
         debits' \in [Chats -> Nat], \A d \in Chats \ {c} : debits'[d] = debits[d],
         debits'[c] = debits[c] \/ chats[c].stage \in Between,
         UNCHANGED <<policy, wanted, reverted, refresh, overrun>>
  PROVE  RouterInv'
<1>1. RouterTypes'
  BY DEF RouterInv, RouterTypes, CallGoes
<1>2. SpendsInSlot'
  <2>1. ASSUME NEW d \in Chats, chats'[d].stage = "spending", d \notin overrun
        PROVE  slot'[Owner(d)'] = d
    <3>1. d # c BY <2>1 DEF CallGoes, Between
    <3>2. chats'[d] = chats[d] BY <3>1 DEF CallGoes
    <3>3. slot[Owner(d)] = d BY <2>1, <3>2 DEF RouterInv, SpendsInSlot, ChatAt
    <3>4. Owner(d) \in Payers BY <2>1, <3>2, OwnerIsPayer DEF RouterInv, ChatAt
    <3>5. Owner(d)' = Owner(d) BY <3>2 DEF Owner
    <3>. QED BY <3>1, <3>3, <3>4, <3>5
  <2>. QED BY <2>1 DEF SpendsInSlot, ChatAt
<1>3. Consents'
  <2>1. s \notin {"refreshing", "new", "let_in"} BY DEF Between
  <2>2. /\ chats'[c].stage \in Between => chats'[c].consent
        /\ ~(chats'[c].stage = "refreshing")
        /\ debits'[c] > 0 => chats'[c].stage \notin {"new", "let_in", "refreshing"} /\ chats'[c].consent
    BY <2>1 DEF RouterInv, Consents, CallGoes
  <2>3. \A d \in Chats \ {c} :
         /\ chats'[d].stage \in Between => chats'[d].consent
         /\ chats'[d].stage = "refreshing" => chats'[d].seen.enabled
         /\ debits'[d] > 0 =>
              chats'[d].stage \notin {"new", "let_in", "refreshing"} /\ chats'[d].consent
    BY DEF RouterInv, Consents, CallGoes, ChatAt
  <2>. QED BY <2>2, <2>3 DEF RouterInv, Consents, ChatAt
<1>. QED BY <1>1, <1>2, <1>3 DEF RouterInv

(* The owners: a choice is kept as it was made, or written back as read.       *)
LEMMA OwnersStep ==
  ASSUME RouterInv, UNCHANGED <<chats, slot, debits, overrun>>, refresh' \in [Payers -> Policy],
         NEW w \in Payers, NEW p \in Policy,
         \/ UNCHANGED <<policy, wanted, reverted>>
         \/ /\ policy' = [policy EXCEPT ![w] = p] /\ wanted' = [wanted EXCEPT ![w] = p.enabled]
            /\ reverted' = [reverted EXCEPT ![w] = FALSE]
         \/ \E chain \in ChainStatuses : WriteBack(w, p, chain)
  PROVE  RouterInv'
<1>1. /\ policy \in [Payers -> Policy] /\ wanted \in [Payers -> BOOLEAN]
      /\ reverted \in [Payers -> BOOLEAN] /\ p.enabled \in BOOLEAN
  BY DEF RouterInv, RouterTypes, Policy
<1>2. /\ policy' \in [Payers -> Policy] /\ wanted' \in [Payers -> BOOLEAN]
      /\ reverted' \in [Payers -> BOOLEAN]
      /\ \A v \in Payers : policy'[v].enabled => wanted'[v] \/ reverted'[v]
  <2>1. CASE UNCHANGED <<policy, wanted, reverted>> BY <1>1, <2>1 DEF RouterInv, Consents
  <2>2. CASE /\ policy' = [policy EXCEPT ![w] = p] /\ wanted' = [wanted EXCEPT ![w] = p.enabled]
             /\ reverted' = [reverted EXCEPT ![w] = FALSE]
    BY <1>1, <2>2 DEF RouterInv, Consents
  <2>3. ASSUME NEW chain \in ChainStatuses, WriteBack(w, p, chain)
        PROVE  /\ policy' \in [Payers -> Policy] /\ wanted' \in [Payers -> BOOLEAN]
               /\ reverted' \in [Payers -> BOOLEAN]
               /\ \A v \in Payers : policy'[v].enabled => wanted'[v] \/ reverted'[v]
    <3> DEFINE q == [enabled |-> p.enabled, chain |-> chain]
               r == reverted[w] \/ (p.enabled /\ ~wanted[w])
    <3>1. q \in Policy /\ q.enabled = p.enabled BY <1>1 DEF Policy
    <3>2. r \in BOOLEAN BY <1>1
    <3>3. policy' = [policy EXCEPT ![w] = q] /\ wanted' = wanted
      BY <2>3 DEF WriteBack
    <3>4. reverted' = [reverted EXCEPT ![w] = r] BY <1>1, <2>3 DEF WriteBack
    <3>5. p.enabled => wanted[w] \/ r BY <1>1
    <3> HIDE DEF q, r
    <3>. QED BY <1>1, <3>1, <3>2, <3>3, <3>4, <3>5 DEF RouterInv, Consents
  <2>. QED BY <2>1, <2>2, <2>3
<1>3. RouterTypes' BY <1>2 DEF RouterInv, RouterTypes
<1>4. SpendsInSlot' BY DEF RouterInv, SpendsInSlot, ChatAt, Owner
<1>5. Consents' BY <1>2 DEF RouterInv, Consents, ChatAt
<1>. QED BY <1>3, <1>4, <1>5 DEF RouterInv

(* A call is written anew: when it is let in, and when it has looked.         *)
LEMMA CallWritten ==
  ASSUME RouterInv, NEW c \in Chats, NEW v \in Call, chats' = [chats EXCEPT ![c] = v],
         v.stage # "spending", v.stage \in Between => v.consent,
         v.stage = "refreshing" => v.seen.enabled, ~(debits[c] > 0), debits' = debits,
         slot' = slot \/ slot' = [w \in Payers |-> IF slot[w] = c THEN NoChat ELSE slot[w]],
         policy' \in [Payers -> Policy], wanted' \in [Payers -> BOOLEAN],
         reverted' \in [Payers -> BOOLEAN], UNCHANGED <<refresh, overrun>>,
         \A w \in Payers : policy'[w].enabled => wanted'[w] \/ reverted'[w]
  PROVE  RouterInv'
<1>1. chats \in [Chats -> {NewCall} \cup Call] BY DEF RouterInv, RouterTypes
<1>2. /\ chats' \in [Chats -> {NewCall} \cup Call] /\ chats'[c] = v
      /\ \A d \in Chats \ {c} : chats'[d] = chats[d]
  BY <1>1
<1>3. RouterTypes' BY <1>2 DEF RouterInv, RouterTypes
<1>4. SpendsInSlot'
  <2>1. ASSUME NEW d \in Chats, chats'[d].stage = "spending", d \notin overrun
        PROVE  slot'[Owner(d)'] = d
    <3>1. d # c /\ chats'[d] = chats[d] BY <1>2, <2>1
    <3>2. slot[Owner(d)] = d BY <2>1, <3>1 DEF RouterInv, SpendsInSlot, ChatAt
    <3>3. Owner(d) \in Payers BY <2>1, <3>1, OwnerIsPayer DEF RouterInv, ChatAt
    <3>4. Owner(d)' = Owner(d) BY <3>1 DEF Owner
    <3>. QED BY <3>1, <3>2, <3>3, <3>4
  <2>. QED BY <2>1 DEF SpendsInSlot, ChatAt
<1>5. Consents' BY <1>2 DEF RouterInv, Consents, ChatAt
<1>. QED BY <1>3, <1>4, <1>5 DEF RouterInv

LEMMA AuthenticateStep ==
  ASSUME RouterInv, NEW c \in Chats, NEW k \in ApiKeys, NEW i \in Idems \cup {NoIdem},
         Authenticate(c, k, i)
  PROVE  RouterInv'
<1> DEFINE v == [stage |-> "let_in", key |-> k, idem |-> i, consent |-> FALSE, seen |-> NoRefresh]
<1>1. v \in Call /\ v.stage = "let_in" BY DEF Call, NoRefresh, Policy, ChainStatuses
<1>2. /\ chats' = [chats EXCEPT ![c] = v] /\ ChatAt(c, "new")
      /\ UNCHANGED <<policy, wanted, reverted, refresh, slot, debits, overrun>>
  BY DEF Authenticate, storeVars, historyVars
<1>3. ~(debits[c] > 0) BY <1>2 DEF RouterInv, Consents, ChatAt
<1>4. v.stage \notin Between /\ v.stage # "spending" /\ v.stage # "refreshing" BY <1>1 DEF Between
<1> HIDE DEF v
<1>. QED BY <1>1, <1>2, <1>3, <1>4, CallWritten DEF RouterInv, RouterTypes, Consents

LEMMA BeginStep ==
  ASSUME RouterInv, NEW c \in Chats, Begin(c)
  PROVE  RouterInv'
<1> DEFINE w == Owner(c)
           p == policy[w]
           s == IF TurnedAway(c) THEN "done"
                ELSE IF p.chain = "pending" /\ MayRefresh(p) THEN "refreshing"
                ELSE Checked(w, p)
           q == IF s = "refreshing" THEN p ELSE NoRefresh
           e == wanted[w] \/ reverted[w]
           a == [chats[c] EXCEPT !.stage = s]
           b == [a EXCEPT !.seen = q]
           v == [b EXCEPT !.consent = e]
<1>1. ChatAt(c, "let_in") BY DEF Begin
<1>2. chats[c] \in Call /\ w \in Payers BY <1>1, OwnerIsPayer DEF RouterInv, ChatAt
<1>3. p \in Policy BY <1>2 DEF RouterInv, RouterTypes
<1>4. /\ s \in {"done", "refreshing", "checked"} /\ (s = "refreshing" => p.enabled)
      /\ s = "checked" => p.enabled
  BY DEF Checked, MayRefresh
<1>5. e \in BOOLEAN /\ (p.enabled => e)
  BY <1>2 DEF RouterInv, RouterTypes, Consents
<1>6. q \in Policy /\ (s = "refreshing" => q.enabled)
  BY <1>3, <1>4 DEF NoRefresh, Policy, ChainStatuses
<1>7. a \in Call /\ a.stage = s
  <2> HIDE DEF s
  <2>. QED BY <1>2, <1>4 DEF Call, Between
<1>8. b \in Call /\ b.stage = s /\ b.seen = q
  <2> HIDE DEF a, q, s
  <2>. QED BY <1>6, <1>7 DEF Call
<1>9. v \in Call /\ v.stage = s /\ v.seen = q /\ v.consent = e
  <2> HIDE DEF b, e, q, s
  <2>. QED BY <1>5, <1>8 DEF Call
<1>10. chats' = [chats EXCEPT ![c] = v]
  <2>1. chats' = [chats EXCEPT ![c].stage = s, ![c].seen = q, ![c].consent = e]
    BY DEF Begin
  <2>2. chats \in [Chats -> {NewCall} \cup Call] BY DEF RouterInv, RouterTypes
  <2> HIDE DEF s, q, e
  <2>. QED BY <2>1, <2>2
<1>11. UNCHANGED <<policy, wanted, reverted, refresh, slot, debits, overrun>>
  BY DEF Begin, storeVars
<1>12. ~(debits[c] > 0) BY <1>1 DEF RouterInv, Consents, ChatAt
<1>13. /\ v.stage # "spending" /\ (v.stage \in Between => v.consent)
       /\ v.stage = "refreshing" => v.seen.enabled
  <2> HIDE DEF v, s, q, e
  <2>. QED BY <1>4, <1>5, <1>6, <1>9 DEF Between
<1> HIDE DEF v, s, q, e
<1>. QED BY <1>9, <1>10, <1>11, <1>12, <1>13, CallWritten DEF RouterInv, RouterTypes, Consents

LEMMA RefreshedStep ==
  ASSUME RouterInv, NEW c \in Chats, Refreshed(c)
  PROVE  RouterInv'
<1> DEFINE w == Owner(c)
<1>1. ChatAt(c, "refreshing") BY DEF Refreshed
<1>2. chats[c] \in Call /\ w \in Payers /\ chats[c].seen \in Policy /\ chats[c].seen.enabled = TRUE
  <2>1. chats[c] \in Call /\ w \in Payers BY <1>1, OwnerIsPayer DEF RouterInv, ChatAt
  <2>2. chats[c].seen \in Policy BY <2>1 DEF Call
  <2>3. chats[c].seen.enabled BY <1>1 DEF RouterInv, Consents
  <2>. QED BY <2>1, <2>2, <2>3 DEF Policy
<1>3. PICK chain \in ChainReads(chats[c].seen) : GoesOnWith(c, chain) BY DEF Refreshed
<1>4. chain \in ChainStatuses BY <1>2 DEF ChainReads, Policy
<1> DEFINE s == Checked(w, [enabled |-> TRUE, chain |-> chain])
           g == [enabled |-> TRUE, chain |-> chain]
           r == reverted[w] \/ ~wanted[w]
           e == wanted[w] \/ reverted'[w]
           a == [chats[c] EXCEPT !.stage = s]
           b == [a EXCEPT !.seen = NoRefresh]
           v == [b EXCEPT !.consent = e]
<1>5. /\ policy \in [Payers -> Policy] /\ wanted \in [Payers -> BOOLEAN]
      /\ reverted \in [Payers -> BOOLEAN] /\ chats \in [Chats -> {NewCall} \cup Call]
  BY DEF RouterInv, RouterTypes
<1>6. /\ policy' = [policy EXCEPT ![w] = g] /\ wanted' = wanted
      /\ reverted' = [reverted EXCEPT ![w] = r]
  BY <1>2, <1>3, <1>5 DEF GoesOnWith, WriteBack
<1>7. g \in Policy /\ r \in BOOLEAN BY <1>2, <1>4, <1>5 DEF Policy
<1>8. e = TRUE
  <2> HIDE DEF w
  <2>. QED BY <1>2, <1>5, <1>6
<1>9. s \in {"done", "checked"} BY DEF Checked
<1>10. a \in Call /\ a.stage = s
  <2> HIDE DEF s
  <2>. QED BY <1>2, <1>9 DEF Call, Between
<1>11. b \in Call /\ b.stage = s
  <2> HIDE DEF a, s
  <2>. QED BY <1>10 DEF Call, NoRefresh, Policy, ChainStatuses
<1>12. v \in Call /\ v.stage = s /\ v.consent = TRUE
  <2> HIDE DEF b, e, s
  <2>. QED BY <1>8, <1>11 DEF Call
<1>13. chats' = [chats EXCEPT ![c] = v]
  <2>1. chats' = [chats EXCEPT ![c].stage = s, ![c].seen = NoRefresh, ![c].consent = e]
    BY <1>3 DEF GoesOnWith
  <2> HIDE DEF s, e
  <2>. QED BY <1>5, <2>1
<1>14. /\ UNCHANGED <<refresh, debits, overrun>>
       /\ slot' = slot \/ slot' = [u \in Payers |-> IF slot[u] = c THEN NoChat ELSE slot[u]]
  <2>1. UNCHANGED <<refresh, debits, overrun>> BY DEF Refreshed
  <2>2. slot' = slot \/ slot' = [u \in Payers |-> IF slot[u] = c THEN NoChat ELSE slot[u]]
    BY <1>3 DEF GoesOnWith, Responds
  <2>. QED BY <2>1, <2>2
<1>15. ~(debits[c] > 0) BY <1>1 DEF RouterInv, Consents, ChatAt
<1>16. \A u \in Payers : policy'[u].enabled => wanted'[u] \/ reverted'[u]
  <2> HIDE DEF w, g
  <2>. QED BY <1>2, <1>5, <1>6 DEF RouterInv, Consents
<1>17. policy' \in [Payers -> Policy] /\ wanted' \in [Payers -> BOOLEAN]
       /\ reverted' \in [Payers -> BOOLEAN]
  <2> HIDE DEF w, g, r
  <2>. QED BY <1>5, <1>6, <1>7
<1>18. v.stage # "spending" /\ v.stage # "refreshing"
  <2> HIDE DEF v, s
  <2>. QED BY <1>9, <1>12
<1> HIDE DEF v, s, e, g, r, w
<1>. QED BY <1>12, <1>13, <1>14, <1>15, <1>16, <1>17, <1>18, CallWritten

(* A call that has been looked at goes on, is answered, or is debited.        *)
LEMMA ChatFailsStep ==
  ASSUME RouterInv, NEW c \in Chats, ~ChatAt(c, "new"), Answer(c),
         debits' \in [Chats -> Nat], \A d \in Chats \ {c} : debits'[d] = debits[d],
         debits'[c] = debits[c] \/ chats[c].stage \in Between,
         UNCHANGED <<policy, wanted, reverted, refresh, overrun>>
  PROVE  RouterInv'
<1>1. Goto(c, "done") /\ slot' = [w \in Payers |-> IF slot[w] = c THEN NoChat ELSE slot[w]]
  BY DEF Answer, Responds
<1>2. CallGoes(c, "done") BY <1>1, GotoGoes DEF RouterInv
<1>3. "done" \in (Between \ {"spending"}) \cup {"done"} /\ ("done" \in Between => chats[c].stage \in Between)
  BY DEF Between
<1>. QED BY <1>1, <1>2, <1>3, GoesOn

LEMMA DequeuedStep ==
  ASSUME RouterInv, NEW c \in Chats, Dequeued(c)
  PROVE  RouterInv'
<1>1. /\ ChatAt(c, "queued") /\ ~ChatAt(c, "new") /\ debits' = debits
      /\ UNCHANGED <<policy, wanted, reverted, refresh, overrun>>
  BY DEF Dequeued, ChatAt, storeVars, historyVars
<1>2. \/ ChatFails(c)
      \/ /\ SlotFree(Owner(c)) /\ slot' = [slot EXCEPT ![Owner(c)] = c] /\ Goto(c, "spending")
  BY DEF Dequeued
<1>3. CASE ChatFails(c)
  BY <1>1, <1>3, ChatFailsStep DEF ChatFails, Failed, RouterInv, RouterTypes
<1>4. ASSUME SlotFree(Owner(c)), slot' = [slot EXCEPT ![Owner(c)] = c], Goto(c, "spending")
      PROVE  RouterInv'
  <2>1. CallGoes(c, "spending") BY <1>1, <1>4, GotoGoes DEF RouterInv, Between
  <2>2. Owner(c) \in Payers /\ slot[Owner(c)] = NoChat /\ slot \in [Payers -> Chats \cup {NoChat}]
    BY <1>1, <1>4, OwnerIsPayer DEF RouterInv, RouterTypes, SlotFree
  <2>3. RouterTypes' BY <1>1, <1>4, <2>1, <2>2 DEF RouterInv, RouterTypes, CallGoes
  <2>4. SpendsInSlot'
    <3>1. ASSUME NEW d \in Chats \ {c}, chats'[d].stage = "spending", d \notin overrun
          PROVE  slot'[Owner(d)'] = d
      <4>1. chats'[d] = chats[d] BY <2>1 DEF CallGoes
      <4>2. slot[Owner(d)] = d BY <3>1, <4>1 DEF RouterInv, SpendsInSlot, ChatAt
      <4>3. Owner(d) \in Payers BY <3>1, <4>1, OwnerIsPayer DEF RouterInv, ChatAt
      <4>4. Owner(d)' = Owner(d) BY <4>1 DEF Owner
      <4>5. Owner(d) # Owner(c) BY <2>2, <4>2 DEF NoChat, Chats
      <4>. QED BY <1>4, <2>2, <4>2, <4>3, <4>4, <4>5
    <3>2. slot'[Owner(c)'] = c BY <1>4, <2>1, <2>2 DEF CallGoes
    <3>. QED BY <1>1, <3>1, <3>2 DEF SpendsInSlot, ChatAt
  <2>5. Consents'
    <3>1. chats[c].consent BY <1>1 DEF RouterInv, Consents, ChatAt, Between
    <3>2. chats'[c].consent /\ chats'[c].stage = "spending"
      BY <2>1, <3>1 DEF CallGoes
    <3>. QED BY <1>1, <2>1, <3>2 DEF RouterInv, Consents, ChatAt, CallGoes
  <2>. QED BY <2>3, <2>4, <2>5 DEF RouterInv
<1>. QED BY <1>2, <1>3, <1>4

LEMMA EstimatesAreNat == \A total \in Estimates : total \in Nat
<1>1. Cost \in Nat /\ Fees \subseteq Nat BY AiRouterAssumption DEF AiRouterAssumption
<1>. QED BY <1>1 DEF Estimates

LEMMA SpentStep ==
  ASSUME RouterInv, NEW c \in Chats, Spent(c)
  PROVE  RouterInv'
<1>1. PICK total \in Estimates : debits' = [debits EXCEPT ![c] = total] BY DEF Spent
<1>2. total \in Nat BY EstimatesAreNat
<1>3. /\ ChatAt(c, "spending") /\ ~ChatAt(c, "new") /\ chats[c].stage \in Between
      /\ Goto(c, "proving")
      /\ slot' = [w \in Payers |-> IF slot[w] = c THEN NoChat ELSE slot[w]]
      /\ UNCHANGED <<policy, wanted, reverted, refresh, overrun>>
  BY DEF Spent, ChatAt, Between, storeVars
<1>4. CallGoes(c, "proving") BY <1>3, GotoGoes DEF RouterInv, Between
<1>5. "proving" \in (Between \ {"spending"}) \cup {"done"} BY DEF Between
<1>6. debits' \in [Chats -> Nat] /\ \A d \in Chats \ {c} : debits'[d] = debits[d]
  BY <1>1, <1>2 DEF RouterInv, RouterTypes
<1>. QED BY <1>3, <1>4, <1>5, <1>6, GoesOn

LEMMA SpentUnheardStep ==
  ASSUME RouterInv, NEW c \in Chats, SpentUnheard(c)
  PROVE  RouterInv'
<1>1. PICK total \in Estimates : debits' = [debits EXCEPT ![c] = total] BY DEF SpentUnheard
<1>2. total \in Nat BY EstimatesAreNat
<1>3. /\ ~ChatAt(c, "new") /\ chats[c].stage \in Between /\ Answer(c)
      /\ UNCHANGED <<policy, wanted, reverted, refresh, overrun>>
  BY DEF SpentUnheard, Failed, ChatAt, Between, storeVars
<1>4. debits' \in [Chats -> Nat] /\ \A d \in Chats \ {c} : debits'[d] = debits[d]
  BY <1>1, <1>2 DEF RouterInv, RouterTypes
<1>. QED BY <1>3, <1>4, ChatFailsStep

LEMMA AnsweredStep ==
  ASSUME RouterInv, NEW c \in Chats,
         RateRefused(c) \/ Routed(c) \/ Served(c) \/ EstimateFails(c) \/ NotSpent(c) \/ Settled(c)
  PROVE  RouterInv'
<1>1. debits \in [Chats -> Nat] BY DEF RouterInv, RouterTypes
<1>2. /\ debits' = debits /\ UNCHANGED <<policy, wanted, reverted, refresh, overrun>>
      /\ ~ChatAt(c, "new")
  <2>1. CASE RateRefused(c) BY <2>1 DEF RateRefused, ChatAt, storeVars, historyVars
  <2>2. CASE Routed(c) BY <2>2 DEF Routed, ChatAt, storeVars
  <2>3. CASE Served(c) BY <2>3 DEF Served, ChatAt, storeVars
  <2>4. CASE EstimateFails(c) \/ NotSpent(c)
    BY <2>4 DEF EstimateFails, NotSpent, ChatAt, storeVars, historyVars
  <2>5. CASE Settled(c) BY <2>5 DEF Settled, ChatAt, storeVars
  <2>. QED BY <2>1, <2>2, <2>3, <2>4, <2>5
<1>3. CASE Answer(c) BY <1>1, <1>2, <1>3, ChatFailsStep
<1>4. ASSUME NEW s \in {"done", "serving", "queued"}, Goto(c, s), slot' = slot,
             s = "serving" => ChatAt(c, "checked"), s = "queued" => ChatAt(c, "serving")
      PROVE  RouterInv'
  <2>1. s \in (Between \ {"spending"}) \cup {"done"} /\ (s \in Between => chats[c].stage \in Between)
    BY <1>4 DEF Between, ChatAt
  <2>2. CallGoes(c, s) BY <1>2, <1>4, <2>1, GotoGoes DEF RouterInv
  <2>. QED BY <1>1, <1>2, <1>4, <2>1, <2>2, GoesOn
<1>5. \/ Answer(c) \/ (Goto(c, "done") /\ slot' = slot)
      \/ (ChatAt(c, "checked") /\ Goto(c, "serving") /\ slot' = slot)
      \/ (ChatAt(c, "serving") /\ Goto(c, "queued") /\ slot' = slot)
  <2>1. CASE RateRefused(c) BY <2>1 DEF RateRefused
  <2>2. CASE Routed(c) BY <2>2 DEF Routed
  <2>3. CASE Served(c) BY <2>3 DEF Served, ChatFails, Failed
  <2>4. CASE EstimateFails(c) \/ NotSpent(c) BY <2>4 DEF EstimateFails, NotSpent, ChatFails, Failed
  <2>5. CASE Settled(c) BY <2>5 DEF Settled
  <2>. QED BY <2>1, <2>2, <2>3, <2>4, <2>5
<1>. QED BY <1>3, <1>4, <1>5

(* A client that leaves and a lock that runs out: the wallet is free, and the  *)
(* call that had it is marked.                                                *)
LEMMA SlotLost ==
  ASSUME RouterInv, UNCHANGED <<policy, wanted, reverted, refresh, chats, debits>>,
         slot' \in [Payers -> Chats \cup {NoChat}], overrun \subseteq overrun',
         \A w \in Payers : slot'[w] = slot[w] \/ slot[w] \in overrun' \cup {NoChat}
  PROVE  RouterInv'
<1>1. RouterTypes' BY DEF RouterInv, RouterTypes
<1>2. Consents' BY DEF RouterInv, Consents, ChatAt
<1>3. ASSUME NEW d \in Chats, ChatAt(d, "spending"), d \notin overrun' PROVE slot'[Owner(d)] = d
  <2>1. slot[Owner(d)] = d BY <1>3 DEF RouterInv, SpendsInSlot
  <2>2. Owner(d) \in Payers BY <1>3, OwnerIsPayer DEF RouterInv, ChatAt
  <2>. QED BY <1>3, <2>1, <2>2 DEF NoChat, Chats
<1>4. SpendsInSlot' BY <1>3 DEF SpendsInSlot, ChatAt, Owner
<1>. QED BY <1>1, <1>2, <1>4 DEF RouterInv

LEMMA ClientLeavesStep ==
  ASSUME RouterInv, NEW c \in Chats, ClientLeaves(c)
  PROVE  RouterInv'
<1>1. /\ slot' = [w \in Payers |-> IF slot[w] = c THEN NoChat ELSE slot[w]]
      /\ overrun' = IF c \in {slot[w] : w \in Payers} THEN overrun \cup {c} ELSE overrun
      /\ UNCHANGED <<policy, wanted, reverted, refresh, chats, debits>>
  BY DEF ClientLeaves, Responds, storeVars
<1>2. slot \in [Payers -> Chats \cup {NoChat}] BY DEF RouterInv, RouterTypes
<1>. QED BY <1>1, <1>2, SlotLost

LEMMA SlotExpiresStep ==
  ASSUME RouterInv, NEW w \in Payers, SlotExpires(w)
  PROVE  RouterInv'
<1>1. /\ slot' = [slot EXCEPT ![w] = NoChat] /\ overrun' = overrun \cup {slot[w]}
      /\ UNCHANGED <<policy, wanted, reverted, refresh, chats, debits>>
  BY DEF SlotExpires, storeVars
<1>2. slot \in [Payers -> Chats \cup {NoChat}] BY DEF RouterInv, RouterTypes
<1>. QED BY <1>1, <1>2, SlotLost

LEMMA RestartStep ==
  ASSUME RouterInv, RouterRestarts
  PROVE  RouterInv'
<1>1. PICK landed \in SUBSET {c \in Chats : ChatAt(c, "spending")}, fee \in Fees :
        debits' = [c \in Chats |-> IF c \in landed THEN Cost + fee ELSE debits[c]]
  BY DEF RouterRestarts
<1>2. Cost + fee \in Nat BY AiRouterAssumption DEF AiRouterAssumption
<1>3. /\ chats' = [c \in Chats |-> IF ChatAt(c, "new") THEN chats[c]
                              ELSE [chats[c] EXCEPT !.stage = "done"]]
      /\ refresh' = [w \in Payers |-> NoRefresh] /\ slot' = [w \in Payers |-> NoChat]
      /\ UNCHANGED <<policy, wanted, reverted, overrun>>
  BY DEF RouterRestarts, storeVars
<1>4. ASSUME NEW c \in Chats, ~ChatAt(c, "new")
      PROVE  /\ chats'[c] \in Call /\ chats'[c].stage = "done" /\ chats'[c].consent = chats[c].consent
  BY <1>3, <1>4, OwnerIsPayer DEF RouterInv, Call
<1>5. \A c \in Chats : ChatAt(c, "new") => chats'[c] = chats[c] BY <1>3
<1>6. debits' \in [Chats -> Nat] BY <1>1, <1>2 DEF RouterInv, RouterTypes
<1>7. RouterTypes'
  <2>1. chats' \in [Chats -> {NewCall} \cup Call] BY <1>3, <1>4 DEF RouterInv, RouterTypes
  <2>. QED BY <1>3, <1>6, <2>1 DEF RouterInv, RouterTypes, NoRefresh, Policy, ChainStatuses
<1>8. SpendsInSlot' BY <1>4, <1>5 DEF SpendsInSlot, ChatAt
<1>9. Consents'
  <2>1. ASSUME NEW c \in Chats
        PROVE  /\ chats'[c].stage \in Between => chats'[c].consent
               /\ ~(chats'[c].stage = "refreshing")
               /\ debits'[c] > 0 =>
                    chats'[c].stage \notin {"new", "let_in", "refreshing"} /\ chats'[c].consent
    <3>1. CASE ChatAt(c, "new")
      <4>1. c \notin landed BY <3>1 DEF ChatAt
      <4>2. debits'[c] = debits[c] BY <1>1, <4>1
      <4>. QED BY <1>5, <3>1, <4>2 DEF RouterInv, Consents, ChatAt, Between
    <3>2. CASE ~ChatAt(c, "new")
      <4>1. debits'[c] > 0 => debits[c] > 0 \/ ChatAt(c, "spending") BY <1>1
      <4>2. debits'[c] > 0 => chats[c].consent
        BY <4>1 DEF RouterInv, Consents, ChatAt, Between
      <4>. QED BY <1>4, <3>2, <4>2 DEF Between
    <3>. QED BY <3>1, <3>2
  <2>. QED BY <1>3, <2>1 DEF RouterInv, Consents, ChatAt
<1>. QED BY <1>7, <1>8, <1>9 DEF RouterInv

LEMMA RouterInvStep ==
  ASSUME RouterInv, AiRouterNext
  PROVE  RouterInv'
<1>1. policy \in [Payers -> Policy] /\ refresh \in [Payers -> Policy] BY DEF RouterInv, RouterTypes
<1>2. UNCHANGED <<policy, wanted, reverted, refresh, slot, chats, debits, overrun>> => RouterInv'
  BY DEF RouterInv, RouterTypes, SpendsInSlot, Consents, ChatAt, Owner
<1>3. ASSUME NEW k \in ApiKeys, IssueKey(k) \/ RevokeKey(k) PROVE RouterInv'
  BY <1>2, <1>3 DEF IssueKey, RevokeKey, callVars, historyVars
<1>4. ASSUME NEW a \in answers, AnswerExpires(a) PROVE RouterInv'
  BY <1>2, <1>4 DEF AnswerExpires, storeVars, historyVars
<1>5. ASSUME NEW w \in Payers, NEW p \in Policy, SetPolicy(w, p) PROVE RouterInv'
  <2>1. /\ UNCHANGED <<chats, slot, debits, overrun, refresh>>
        /\ policy' = [policy EXCEPT ![w] = p] /\ wanted' = [wanted EXCEPT ![w] = p.enabled]
        /\ reverted' = [reverted EXCEPT ![w] = FALSE]
    BY <1>5 DEF SetPolicy, callVars, historyVars
  <2>. QED BY <1>1, <2>1, OwnersStep
<1>6. ASSUME NEW w \in Payers, ReadinessStart(w) PROVE RouterInv'
  <2>1. /\ UNCHANGED <<chats, slot, debits, overrun, policy, wanted, reverted>>
        /\ refresh' = [refresh EXCEPT ![w] = policy[w]]
    BY <1>6 DEF ReadinessStart, callVars, historyVars, storeVars
  <2>2. refresh' \in [Payers -> Policy] BY <1>1, <2>1
  <2>. QED BY <1>1, <2>1, <2>2, OwnersStep
<1>7. ASSUME NEW w \in Payers, ReadinessEnd(w) PROVE RouterInv'
  <2>1. PICK chain \in ChainReads(refresh[w]) : WriteBack(w, refresh[w], chain)
    BY <1>7 DEF ReadinessEnd
  <2>2. refresh[w] \in Policy BY <1>1
  <2>3. chain \in ChainStatuses BY <2>2 DEF ChainReads, Policy
  <2>4. /\ UNCHANGED <<chats, slot, debits, overrun>>
        /\ refresh' = [refresh EXCEPT ![w] = NoRefresh]
    BY <1>7 DEF ReadinessEnd, callVars, historyVars
  <2>5. refresh' \in [Payers -> Policy] BY <1>1, <2>4 DEF NoRefresh, Policy, ChainStatuses
  <2>. QED BY <2>1, <2>2, <2>3, <2>4, <2>5, OwnersStep
<1>. QED
  BY <1>3, <1>4, <1>5, <1>6, <1>7, AuthenticateStep, BeginStep, RefreshedStep, AnsweredStep,
     DequeuedStep, SpentStep, SpentUnheardStep, ClientLeavesStep, SlotExpiresStep, RestartStep
  DEF AiRouterNext

THEOREM RouterInvHolds == AiRouterSpec => []RouterInv
<1>1. RouterInv /\ UNCHANGED aiVars => RouterInv'
  BY DEF aiVars, RouterInv, RouterTypes, SpendsInSlot, Consents, ChatAt, Owner
<1>2. RouterInv /\ [AiRouterNext]_aiVars => RouterInv' BY <1>1, RouterInvStep
<1>. QED BY <1>2, RouterInvInit, PTL DEF AiRouterSpec

(* OneSpendPerWallet for any number of calls, keys and wallets: two spends of  *)
(* a wallet overlap only when one of them has lost its slot                   *)
(* (acquireAiOwnerSlot).                                                      *)
THEOREM SpecOneSpendPerWallet == AiRouterSpec => []OneSpendPerWallet
<1>1. RouterInv => OneSpendPerWallet BY DEF RouterInv, SpendsInSlot, OneSpendPerWallet
<1>. QED BY <1>1, RouterInvHolds, PTL

(* ChargeNeedsConsent: only a call that found Auto Pay on by its owner's own   *)
(* choice, or by an older choice written back, is debited                     *)
(* (openAiChatCompletions, refreshAutoPayReadiness).                          *)
THEOREM SpecChargeNeedsConsent == AiRouterSpec => []ChargeNeedsConsent
<1>1. RouterInv => ChargeNeedsConsent BY DEF RouterInv, Consents, ChargeNeedsConsent, Debited
<1>. QED BY <1>1, RouterInvHolds, PTL

--------------------------------------------------------------------------------
(* Calls that go on; those that may still be debited; and what a retry is       *)
(* stopped by.  A call whose client has left is debited only if it was at its  *)
(* spend by then.                                                             *)
Going == Between \cup {"refreshing"}
MayPay(c) == debits[c] > 0 \/ (chats[c].stage \in Going /\ (c \notin gone \/ ChatAt(c, "spending")))
MayCharge(k, i) ==
  {c \in Chats : chats[c].stage \notin {"new", "let_in"} /\ CacheKey(c) = <<k, i>> /\ MayPay(c)}
Blocked(k, i) == payments[i] = "paid" \/ <<k, i>> \in inflight
Alone(k, i) == \A j \in ApiKeys \ {k} : <<i, j>> \notin users

ChargeBound(k, i) ==
  /\ Cardinality(MayCharge(k, i)) <= 1 + gaps
  /\ ~Blocked(k, i) => Cardinality(MayCharge(k, i)) <= gaps

HasPayment == {"serving", "queued", "spending", "proving"}
Holds(c) == chats[c].stage \in Going /\ c \notin gone /\ Keyed(c)

(* A key in flight is held by the one call that goes on with it and whose      *)
(* client is there; a call with a payment has its key among the users of the   *)
(* request id.                                                                *)
CallsOK ==
  /\ gaps \in Nat /\ payments \in [RequestIds -> {"none", "open", "failed", "paid"}]
  /\ \A a \in inflight : \E c \in Chats : Holds(c) /\ CacheKey(c) = a
  /\ \A c \in Chats : Holds(c) => CacheKey(c) \in inflight
  /\ \A c, d \in Chats : Holds(c) /\ Holds(d) /\ CacheKey(c) = CacheKey(d) => c = d
  /\ \A c \in Chats :
       /\ chats[c].stage \in HasPayment => <<RequestId(c), chats[c].key>> \in users
       /\ c \in gone => chats[c].stage \notin {"new", "let_in"}
       /\ debits[c] > 0 => chats[c].stage \in {"proving", "done"}

ChargeInv ==
  /\ RouterInv /\ CallsOK
  /\ \A k \in ApiKeys, i \in Idems : Alone(k, i) => ChargeBound(k, i)

LEMMA ChargeInvInit == AiRouterInit => ChargeInv
<1>. SUFFICES ASSUME AiRouterInit PROVE ChargeInv OBVIOUS
<1>1. CallsOK
  BY DEF AiRouterInit, CallsOK, NewCall, Going, Between, HasPayment, Holds
<1>2. ASSUME NEW k \in ApiKeys, NEW i \in Idems PROVE ChargeBound(k, i)
  <2>1. MayCharge(k, i) = {} BY DEF AiRouterInit, MayCharge, NewCall
  <2>2. gaps = 0 BY DEF AiRouterInit
  <2>. QED BY <2>1, <2>2, FS_EmptySet DEF ChargeBound
<1>. QED BY <1>1, <1>2, RouterInvInit DEF ChargeInv

LEMMA ChargesFinite ==
  ASSUME NEW k, NEW i
  PROVE  IsFiniteSet(MayCharge(k, i)) /\ Cardinality(MayCharge(k, i)) \in Nat
<1>1. MaxChats \in Int /\ 1 \in Int BY AiRouterAssumption DEF AiRouterAssumption
<1>2. IsFiniteSet(Chats) BY <1>1, FS_Interval DEF Chats
<1>3. MayCharge(k, i) \in SUBSET Chats BY DEF MayCharge
<1>4. IsFiniteSet(MayCharge(k, i)) BY <1>2, <1>3, FS_Subset
<1>. QED BY <1>4, FS_CardinalityType

(* No new call may be charged, and if the retry is let through, it is for a    *)
(* gap, or in place of a call that is not charged any more.                   *)
LEMMA BoundKept ==
  ASSUME NEW k, NEW i, ChargeBound(k, i), gaps \in Nat, gaps' \in Nat, gaps' >= gaps,
         NEW s, NEW t, s = MayCharge(k, i), t = MayCharge(k, i)', t \subseteq s,
         \/ Blocked(k, i)' \/ ~Blocked(k, i) \/ gaps' >= gaps + 1
         \/ \E c \in s : c \notin t
  PROVE  ChargeBound(k, i)'
<1>1. IsFiniteSet(s) /\ Cardinality(s) \in Nat BY ChargesFinite
<1>2. IsFiniteSet(t) /\ Cardinality(t) \in Nat /\ Cardinality(t) <= Cardinality(s)
  BY <1>1, FS_Subset, FS_CardinalityType
<1>3. ASSUME NEW c \in s, c \notin t PROVE Cardinality(t) <= Cardinality(s) - 1
  <2>1. IsFiniteSet(s \ {c}) /\ Cardinality(s \ {c}) = Cardinality(s) - 1
    BY <1>1, <1>3, FS_RemoveElement
  <2>2. t \in SUBSET (s \ {c}) BY <1>3
  <2>. QED BY <2>1, <2>2, FS_Subset
<1>4. Cardinality(s) <= 1 + gaps /\ (~Blocked(k, i) => Cardinality(s) <= gaps)
  BY DEF ChargeBound
<1>5. Cardinality(t) <= 1 + gaps' /\ (~Blocked(k, i)' => Cardinality(t) <= gaps')
  <2>1. CASE Blocked(k, i)' BY <1>1, <1>2, <1>4, <2>1
  <2>2. CASE ~Blocked(k, i) BY <1>1, <1>2, <1>4, <2>2
  <2>3. CASE gaps' >= gaps + 1 BY <1>1, <1>2, <1>4, <2>3
  <2>4. CASE \E c \in s : c \notin t BY <1>1, <1>2, <1>3, <1>4, <2>4
  <2>. QED BY <2>1, <2>2, <2>3, <2>4
<1>. QED BY <1>5 DEF ChargeBound

(* A new call: let in when nothing stopped it, and it stops the next.          *)
LEMMA BoundTaken ==
  ASSUME NEW k, NEW i, NEW c, ChargeBound(k, i), gaps \in Nat, gaps' = gaps,
         NEW s, NEW t, s = MayCharge(k, i), t = MayCharge(k, i)', t \subseteq s \cup {c},
         ~Blocked(k, i), Blocked(k, i)'
  PROVE  ChargeBound(k, i)'
<1>1. IsFiniteSet(s) /\ Cardinality(s) \in Nat BY ChargesFinite
<1>2. IsFiniteSet(s \cup {c}) /\ Cardinality(s \cup {c}) <= Cardinality(s) + 1
  <2>1. /\ IsFiniteSet(s \cup {c})
        /\ Cardinality(s \cup {c}) = IF c \in s THEN Cardinality(s) ELSE Cardinality(s) + 1
    BY <1>1, FS_AddElement
  <2>. QED BY <1>1, <2>1
<1>3. Cardinality(s \cup {c}) \in Nat BY <1>2, FS_CardinalityType
<1>4. IsFiniteSet(t) /\ Cardinality(t) \in Nat /\ Cardinality(t) <= Cardinality(s \cup {c})
  BY <1>2, FS_Subset, FS_CardinalityType
<1>5. Cardinality(s) <= gaps BY DEF ChargeBound
<1>6. Cardinality(t) <= 1 + gaps' BY <1>1, <1>2, <1>3, <1>4, <1>5
<1>. QED BY <1>6 DEF ChargeBound

(* A step of one call leaves the others as they are.                          *)
OthersStay(c) ==
  \A d \in Chats \ {c} :
    chats'[d] = chats[d] /\ debits'[d] = debits[d] /\ (d \in gone' <=> d \in gone)

LEMMA OthersCharge ==
  ASSUME NEW c \in Chats, OthersStay(c), NEW k, NEW i
  PROVE  /\ MayCharge(k, i)' \subseteq MayCharge(k, i) \cup {c}
         /\ MayCharge(k, i) \subseteq MayCharge(k, i)' \cup {c}
<1>1. ASSUME NEW d \in Chats \ {c} PROVE d \in MayCharge(k, i)' <=> d \in MayCharge(k, i)
  BY DEF OthersStay, MayCharge, CacheKey, MayPay, ChatAt
<1>2. MayCharge(k, i)' \subseteq Chats /\ MayCharge(k, i) \subseteq Chats BY DEF MayCharge
<1>. QED BY <1>1, <1>2

(* A call moves to a stage and keeps its key and its request id.               *)
ChatGoes(c, s) ==
  chats'[c].stage = s /\ chats'[c].key = chats[c].key /\ chats'[c].idem = chats[c].idem

LEMMA ChatGoesKeeps ==
  ASSUME NEW c, NEW s, ChatGoes(c, s)
  PROVE  CacheKey(c)' = CacheKey(c) /\ RequestId(c)' = RequestId(c) /\ Keyed(c)' = Keyed(c)
BY DEF ChatGoes, CacheKey, RequestId, Keyed

LEMMA StageMoves ==
  ASSUME RouterTypes, NEW c \in Chats, ~ChatAt(c, "new"), NEW s, Goto(c, s)
  PROVE  ChatGoes(c, s) /\ \A d \in Chats \ {c} : chats'[d] = chats[d]
<1> DEFINE v == [chats[c] EXCEPT !.stage = s]
<1>1. chats \in [Chats -> {NewCall} \cup Call] /\ chats[c] \in Call
  BY OwnerIsPayer DEF RouterTypes
<1>2. v.stage = s /\ v.key = chats[c].key /\ v.idem = chats[c].idem
  BY <1>1 DEF Call
<1>3. chats' = [chats EXCEPT ![c] = v] BY DEF Goto
<1> HIDE DEF v
<1>4. chats'[c] = v /\ \A d \in Chats \ {c} : chats'[d] = chats[d] BY <1>1, <1>3
<1>. QED BY <1>2, <1>4 DEF ChatGoes

(* What a step of a call that goes on may do to the bound of its own key, and  *)
(* what it leaves the other keys.                                             *)
OwnKeyOK(c) ==
  Keyed(c) =>
    /\ MayPay(c)' => MayPay(c)
    /\ \/ gaps' >= gaps + 1 \/ (MayPay(c) /\ ~MayPay(c)')
       \/ payments'[RequestId(c)] = "paid" \/ CacheKey(c) \in inflight'
       \/ inflight' = inflight /\ (payments' = payments \/ payments[RequestId(c)] # "paid")

PaymentKept(c) ==
  \/ payments' = payments
  \/ /\ <<RequestId(c), chats[c].key>> \in users'
     /\ \E st \in {"open", "failed", "paid"} : Pay(c, st)

InflightKept(c, s) ==
  IF s = "done" /\ c \notin gone /\ Keyed(c)
  THEN inflight' = inflight \ {CacheKey(c)} ELSE inflight' = inflight

LEMMA CallStepBound ==
  ASSUME ChargeInv, NEW c \in Chats, chats[c].stage \in Going,
         NEW s \in Going \cup {"done"}, ChatGoes(c, s), OthersStay(c),
         gaps' \in Nat, gaps' >= gaps, users \subseteq users',
         OwnKeyOK(c), PaymentKept(c), InflightKept(c, s),
         NEW k \in ApiKeys, NEW i \in Idems, Alone(k, i)'
  PROVE  ChargeBound(k, i)'
<1>1. Alone(k, i) BY DEF Alone
<1>2. ChargeBound(k, i) BY <1>1 DEF ChargeInv
<1>3. gaps \in Nat /\ payments \in [RequestIds -> {"none", "open", "failed", "paid"}]
  BY DEF ChargeInv, CallsOK
<1>4. /\ chats'[c].stage = s /\ CacheKey(c)' = CacheKey(c) /\ RequestId(c)' = RequestId(c)
      /\ chats[c].stage \notin {"new", "let_in"} /\ s \notin {"new", "let_in"}
  BY ChatGoesKeeps DEF ChatGoes, Going, Between
<1>5. chats[c] \in Call BY <1>4, OwnerIsPayer DEF ChargeInv, RouterInv, ChatAt
<1>6. i # NoIdem /\ i \notin Chats /\ i \in RequestIds
  BY AiRouterAssumption DEF AiRouterAssumption, Chats, RequestIds
<1>7. CASE CacheKey(c) = <<k, i>>
  <2>1. Keyed(c) /\ RequestId(c) = i BY <1>6, <1>7 DEF CacheKey, Keyed, RequestId
  <2>2. c \in MayCharge(k, i) <=> MayPay(c)
    BY <1>4, <1>7 DEF MayCharge
  <2>4. c \in MayCharge(k, i)' <=> MayPay(c)'
    BY <1>4, <1>7 DEF MayCharge
  <2>5. MayCharge(k, i)' \subseteq MayCharge(k, i)
    BY <2>1, <2>2, <2>4, OthersCharge DEF OwnKeyOK
  <2>6. \/ gaps' >= gaps + 1 \/ (c \in MayCharge(k, i) /\ c \notin MayCharge(k, i)')
        \/ payments'[i] = "paid" \/ <<k, i>> \in inflight'
        \/ inflight' = inflight /\ (payments' = payments \/ payments[i] # "paid")
    BY <1>7, <2>1, <2>2, <2>4 DEF OwnKeyOK
  <2>7. \/ Blocked(k, i)' \/ ~Blocked(k, i) \/ gaps' >= gaps + 1
        \/ (c \in MayCharge(k, i) /\ c \notin MayCharge(k, i)')
    BY <2>6 DEF Blocked
  <2>. QED BY <1>2, <1>3, <2>5, <2>7, BoundKept
<1>8. CASE CacheKey(c) # <<k, i>>
  <2>1. c \notin MayCharge(k, i) /\ c \notin MayCharge(k, i)' BY <1>4, <1>8 DEF MayCharge
  <2>2. MayCharge(k, i)' \subseteq MayCharge(k, i) BY <2>1, OthersCharge
  <2>3. <<k, i>> \in inflight' <=> <<k, i>> \in inflight BY <1>8 DEF InflightKept
  <2>4. payments'[i] = payments[i]
    <3>1. CASE RequestId(c) # i
      BY <1>3, <1>6, <3>1 DEF PaymentKept, Pay
    <3>2. CASE RequestId(c) = i
      <4>1. chats[c].idem = i BY <1>6, <3>2 DEF RequestId
      <4>2. chats[c].key # k BY <1>8, <4>1 DEF CacheKey
      <4>3. chats[c].key \in ApiKeys BY <1>5 DEF Call
      <4>4. <<RequestId(c), chats[c].key>> \notin users' BY <3>2, <4>2, <4>3 DEF Alone
      <4>. QED BY <4>4 DEF PaymentKept
    <3>. QED BY <3>1, <3>2
  <2>5. Blocked(k, i)' \/ ~Blocked(k, i) BY <2>3, <2>4 DEF Blocked
  <2>. QED BY <1>2, <1>3, <2>2, <2>5, BoundKept
<1>. QED BY <1>7, <1>8

LEMMA CallStepOK ==
  ASSUME ChargeInv, NEW c \in Chats, chats[c].stage \in Going,
         NEW s \in Going \cup {"done"}, ChatGoes(c, s), OthersStay(c), gone' = gone,
         gaps' \in Nat, users \subseteq users', PaymentKept(c), InflightKept(c, s),
         s \in HasPayment => <<RequestId(c), chats[c].key>> \in users',
         debits'[c] > 0 => s \in {"proving", "done"}
  PROVE  CallsOK'
<1>1. /\ chats'[c].stage = s /\ chats'[c].key = chats[c].key /\ CacheKey(c)' = CacheKey(c)
      /\ RequestId(c)' = RequestId(c) /\ Keyed(c)' = Keyed(c)
      /\ \A d \in Chats \ {c} : chats'[d] = chats[d]
  BY ChatGoesKeeps DEF ChatGoes, OthersStay
<1>2. payments' \in [RequestIds -> {"none", "open", "failed", "paid"}]
  BY DEF ChargeInv, CallsOK, PaymentKept, Pay
<1>3. ASSUME NEW d \in Chats, d # c
      PROVE  (Holds(d)' <=> Holds(d)) /\ CacheKey(d)' = CacheKey(d)
  BY <1>1, <1>3 DEF Holds, Keyed, CacheKey
<1>4. Holds(c)' => Holds(c) /\ s # "done" BY <1>1 DEF Holds, Going, Between
<1>5. /\ \A a \in inflight : \E d \in Chats : Holds(d) /\ CacheKey(d) = a
      /\ \A d \in Chats : Holds(d) => CacheKey(d) \in inflight
      /\ \A d, e \in Chats : Holds(d) /\ Holds(e) /\ CacheKey(d) = CacheKey(e) => d = e
  BY DEF ChargeInv, CallsOK
<1>6. ASSUME NEW a \in inflight'
      PROVE  \E d \in Chats : Holds(d)' /\ CacheKey(d)' = a
  <2>1. PICK d \in Chats : Holds(d) /\ CacheKey(d) = a
    BY <1>5, <1>6 DEF InflightKept
  <2>2. CASE d # c BY <1>3, <2>1, <2>2
  <2>3. CASE d = c
    <3>1. s # "done" BY <1>6, <2>1, <2>3 DEF InflightKept, Holds
    <3>2. Holds(c)' BY <1>1, <2>1, <2>3, <3>1 DEF Holds
    <3>. QED BY <1>1, <2>1, <2>3, <3>2
  <2>. QED BY <2>2, <2>3
<1>7. ASSUME NEW d \in Chats, Holds(d)' PROVE CacheKey(d)' \in inflight'
  <2>1. Holds(d) /\ CacheKey(d)' = CacheKey(d) /\ CacheKey(d) \in inflight
    BY <1>1, <1>3, <1>4, <1>5, <1>7
  <2>2. CASE d = c BY <1>4, <1>7, <2>1, <2>2 DEF InflightKept
  <2>3. CASE d # c
    <3>1. s = "done" /\ c \notin gone /\ Keyed(c) => CacheKey(d) # CacheKey(c)
      BY <1>5, <2>1, <2>3 DEF Holds
    <3>. QED BY <2>1, <3>1 DEF InflightKept
  <2>. QED BY <2>2, <2>3
<1>8. ASSUME NEW d \in Chats, NEW e \in Chats, Holds(d)', Holds(e)', CacheKey(d)' = CacheKey(e)'
      PROVE  d = e
  BY <1>1, <1>3, <1>4, <1>5, <1>8
<1>9. ASSUME NEW d \in Chats
      PROVE  /\ chats'[d].stage \in HasPayment => <<RequestId(d)', chats'[d].key>> \in users'
             /\ d \in gone' => chats'[d].stage \notin {"new", "let_in"}
             /\ debits'[d] > 0 => chats'[d].stage \in {"proving", "done"}
  <2>1. CASE d = c BY <1>1, <2>1 DEF Going, Between
  <2>2. CASE d # c
    <3>1. chats'[d] = chats[d] /\ debits'[d] = debits[d] /\ RequestId(d)' = RequestId(d)
      BY <2>2 DEF OthersStay, RequestId
    <3>. QED BY <3>1 DEF ChargeInv, CallsOK
  <2>. QED BY <2>1, <2>2
<1>. QED BY <1>2, <1>6, <1>7, <1>8, <1>9 DEF CallsOK

(* The two together, with what all steps of a call share.                      *)
LEMMA ChatStep ==
  ASSUME ChargeInv, NEW c \in Chats, chats[c].stage \in Going,
         NEW s \in Going \cup {"done"}, ChatGoes(c, s), OthersStay(c), gone' = gone,
         gaps' \in Nat, gaps' >= gaps, users \subseteq users',
         OwnKeyOK(c), PaymentKept(c), InflightKept(c, s),
         s \in HasPayment => <<RequestId(c), chats[c].key>> \in users',
         debits'[c] > 0 => s \in {"proving", "done"}
  PROVE  RouterInv' => ChargeInv'
<1>1. CallsOK' BY CallStepOK
<1>2. ASSUME NEW k \in ApiKeys, NEW i \in Idems, Alone(k, i)' PROVE ChargeBound(k, i)'
  BY <1>2, CallStepBound
<1>. QED BY <1>1, <1>2 DEF ChargeInv

(* A call that is answered: what it was debited is counted, settled or a gap.  *)
LEMMA RespondsStep ==
  ASSUME ChargeInv, RouterInv', NEW c \in Chats, chats[c].stage \in Going,
         ChatGoes(c, "done"), OthersStay(c), Responds(c), UNCHANGED <<gone, users>>,
         gaps' \in Nat, gaps' >= gaps, PaymentKept(c),
         debits'[c] > 0 => debits[c] > 0 \/ ChatAt(c, "spending"),
         ~(debits'[c] > 0) \/ gaps' >= gaps + 1 \/ payments'[RequestId(c)] = "paid",
         \/ c \notin gone \/ payments' = payments \/ payments[RequestId(c)] # "paid"
         \/ gaps' >= gaps + 1 \/ payments'[RequestId(c)] = "paid"
  PROVE  ChargeInv'
<1>4. InflightKept(c, "done") BY DEF InflightKept, Responds
<1>5. OwnKeyOK(c)
  <2>1. MayPay(c)' <=> debits'[c] > 0 BY DEF MayPay, ChatGoes, Going, Between
  <2>2. MayPay(c)' => MayPay(c) BY <2>1 DEF MayPay, ChatAt, Going, Between
  <2>3. c \notin gone => MayPay(c) BY DEF MayPay
  <2>4. c \in gone => inflight' = inflight BY <1>4 DEF InflightKept
  <2>. QED BY <2>1, <2>2, <2>3, <2>4 DEF OwnKeyOK
<1>6. "done" \in Going \cup {"done"} /\ "done" \notin HasPayment /\ users \subseteq users'
  BY DEF HasPayment
<1>. QED BY <1>4, <1>5, <1>6, ChatStep

LEMMA EndsStep ==
  ASSUME ChargeInv, RouterInv', NEW c \in Chats, chats[c].stage \in Going, Answer(c),
         \A d \in Chats \ {c} : debits'[d] = debits[d], UNCHANGED <<gone, users>>,
         gaps' \in Nat, gaps' >= gaps, PaymentKept(c),
         debits'[c] > 0 => debits[c] > 0 \/ ChatAt(c, "spending"),
         ~(debits'[c] > 0) \/ gaps' >= gaps + 1 \/ payments'[RequestId(c)] = "paid",
         \/ c \notin gone \/ payments' = payments \/ payments[RequestId(c)] # "paid"
         \/ gaps' >= gaps + 1 \/ payments'[RequestId(c)] = "paid"
  PROVE  ChargeInv'
<1>1. ~ChatAt(c, "new") BY DEF ChatAt, Going, Between
<1>2. Goto(c, "done") /\ Responds(c) BY DEF Answer
<1>3. ChatGoes(c, "done") /\ OthersStay(c)
  BY <1>1, <1>2, StageMoves DEF ChargeInv, RouterInv, OthersStay
<1>. QED BY <1>2, <1>3, RespondsStep

LEMMA GapCounted ==
  ASSUME ChargeInv, NEW more \in BOOLEAN, CountGap(more)
  PROVE  gaps' \in Nat /\ gaps' >= gaps /\ (more => gaps' >= gaps + 1)
BY DEF ChargeInv, CallsOK, CountGap

LEMMA ChatFailsCharge ==
  ASSUME ChargeInv, RouterInv', NEW c \in Chats, chats[c].stage \in {"serving", "queued", "spending"},
         ChatFails(c), UNCHANGED <<debits, gone, users>>
  PROVE  ChargeInv'
<1>1. chats[c].stage \in Going /\ chats[c].stage \in HasPayment BY DEF Going, Between, HasPayment
<1>2. /\ gaps' \in Nat /\ gaps' >= gaps
      /\ c \in gone /\ payments[RequestId(c)] = "paid" => gaps' >= gaps + 1
  BY GapCounted DEF ChatFails, PaysOver
<1>3. Answer(c) /\ Pay(c, "failed") BY DEF ChatFails, Failed
<1>4. PaymentKept(c) BY <1>1, <1>3 DEF PaymentKept, ChargeInv, CallsOK
<1>5. ~(debits[c] > 0) BY DEF ChargeInv, CallsOK
<1>. QED BY <1>1, <1>2, <1>3, <1>4, <1>5, EndsStep

(* A step that goes on: the key it holds stays in flight.                     *)
LEMMA GoesStep ==
  ASSUME ChargeInv, RouterInv', NEW c \in Chats, chats[c].stage \in Going,
         NEW s \in Going, ChatGoes(c, s), OthersStay(c),
         UNCHANGED <<gone, inflight>>, gaps' \in Nat, gaps' >= gaps, users \subseteq users',
         PaymentKept(c), s \in HasPayment => <<RequestId(c), chats[c].key>> \in users',
         debits'[c] > 0 => s = "proving" /\ ChatAt(c, "spending"),
         s = "spending" => c \notin gone,
         \/ c \notin gone \/ payments' = payments
         \/ payments[RequestId(c)] # "paid" \/ gaps' >= gaps + 1
  PROVE  ChargeInv'
<1>1. InflightKept(c, s) BY DEF InflightKept, Going, Between
<1>2. OwnKeyOK(c)
  <2>1. MayPay(c)' => MayPay(c) BY DEF MayPay, ChatGoes, ChatAt, Going, Between
  <2>2. c \notin gone /\ Keyed(c) => CacheKey(c) \in inflight
    BY DEF ChargeInv, CallsOK, Holds
  <2>. QED BY <2>1, <2>2 DEF OwnKeyOK
<1>. QED BY <1>1, <1>2, ChatStep

LEMMA RoutedCharge ==
  ASSUME ChargeInv, RouterInv', NEW c \in Chats, Routed(c)
  PROVE  ChargeInv'
<1>1. chats[c].stage = "checked" /\ UNCHANGED <<gone, debits>> BY DEF Routed, ChatAt
<1>2. "checked" \in Going /\ "serving" \in Going BY DEF Going, Between
<1>3. ~(debits[c] > 0) BY <1>1 DEF ChargeInv, CallsOK
<1>4. \/ Opens(c) /\ Goto(c, "serving") /\ inflight' = inflight
      \/ Answer(c) /\ UNCHANGED <<payments, users, gaps>>
  BY DEF Routed
<1>5. CASE Answer(c) /\ UNCHANGED <<payments, users, gaps>>
  <2>1. gaps \in Nat /\ PaymentKept(c) BY <1>5 DEF ChargeInv, CallsOK, PaymentKept
  <2>. QED BY <1>1, <1>2, <1>3, <1>5, <2>1, EndsStep
<1>6. CASE Opens(c) /\ Goto(c, "serving") /\ inflight' = inflight
  <2>1. ChatGoes(c, "serving") /\ OthersStay(c)
    BY <1>1, <1>6, StageMoves DEF ChargeInv, RouterInv, OthersStay, ChatAt
  <2>2. /\ gaps' \in Nat /\ gaps' >= gaps
        /\ c \in gone /\ payments[RequestId(c)] = "paid" => gaps' >= gaps + 1
    BY <1>6, GapCounted DEF Opens, PaysOver
  <2>3. users \subseteq users' /\ <<RequestId(c), chats[c].key>> \in users' BY <1>6 DEF Opens
  <2>4. PaymentKept(c) BY <1>6, <2>3 DEF Opens, PaymentKept
  <2>. QED BY <1>1, <1>2, <1>3, <1>6, <2>1, <2>2, <2>3, <2>4, GoesStep
<1>. QED BY <1>4, <1>5, <1>6

LEMMA ServedCharge ==
  ASSUME ChargeInv, RouterInv', NEW c \in Chats, Served(c) \/ EstimateFails(c) \/ NotSpent(c)
  PROVE  ChargeInv'
<1>1. chats[c].stage \in {"serving", "spending"} /\ UNCHANGED <<gone, debits, users>>
  BY DEF Served, EstimateFails, NotSpent, ChatAt
<1>2. \/ ChatFails(c)
      \/ ChatAt(c, "serving") /\ Goto(c, "queued") /\ UNCHANGED <<payments, inflight, gaps>>
  BY DEF Served, EstimateFails, NotSpent
<1>3. CASE ChatFails(c) BY <1>1, <1>3, ChatFailsCharge
<1>4. CASE ChatAt(c, "serving") /\ Goto(c, "queued") /\ UNCHANGED <<payments, inflight, gaps>>
  <2>1. ChatGoes(c, "queued") /\ OthersStay(c)
    BY <1>1, <1>4, StageMoves DEF ChargeInv, RouterInv, OthersStay, ChatAt
  <2>2. /\ gaps \in Nat /\ PaymentKept(c) /\ <<RequestId(c), chats[c].key>> \in users
        /\ ~(debits[c] > 0)
    BY <1>1, <1>4 DEF ChargeInv, CallsOK, PaymentKept, HasPayment, ChatAt
  <2>3. "queued" \in Going /\ chats[c].stage \in Going BY <1>4 DEF Going, Between, ChatAt
  <2>. QED BY <1>1, <1>4, <2>1, <2>2, <2>3, GoesStep
<1>. QED BY <1>2, <1>3, <1>4

LEMMA DequeuedCharge ==
  ASSUME ChargeInv, RouterInv', NEW c \in Chats, Dequeued(c)
  PROVE  ChargeInv'
<1>1. chats[c].stage = "queued" /\ UNCHANGED <<gone, debits, users>> BY DEF Dequeued, ChatAt
<1>2. \/ ChatFails(c)
      \/ c \notin gone /\ Goto(c, "spending") /\ UNCHANGED <<payments, inflight, gaps>>
  BY DEF Dequeued
<1>3. CASE ChatFails(c) BY <1>1, <1>3, ChatFailsCharge
<1>4. CASE c \notin gone /\ Goto(c, "spending") /\ UNCHANGED <<payments, inflight, gaps>>
  <2>1. ChatGoes(c, "spending") /\ OthersStay(c)
    BY <1>1, <1>4, StageMoves DEF ChargeInv, RouterInv, OthersStay, ChatAt
  <2>2. /\ gaps \in Nat /\ PaymentKept(c) /\ <<RequestId(c), chats[c].key>> \in users
        /\ ~(debits[c] > 0)
    BY <1>1, <1>4 DEF ChargeInv, CallsOK, PaymentKept, HasPayment
  <2>3. "spending" \in Going /\ chats[c].stage \in Going BY <1>1 DEF Going, Between
  <2>. QED BY <1>1, <1>4, <2>1, <2>2, <2>3, GoesStep
<1>. QED BY <1>2, <1>3, <1>4

LEMMA SpentCharge ==
  ASSUME ChargeInv, RouterInv', NEW c \in Chats, Spent(c)
  PROVE  ChargeInv'
<1>1. /\ chats[c].stage = "spending" /\ ChatAt(c, "spending") /\ Goto(c, "proving")
      /\ UNCHANGED <<gone, users, payments, inflight, gaps>>
  BY DEF Spent, ChatAt
<1>2. \A d \in Chats \ {c} : debits'[d] = debits[d]
  BY DEF Spent, ChargeInv, RouterInv, RouterTypes
<1>3. ChatGoes(c, "proving") /\ OthersStay(c)
  BY <1>1, <1>2, StageMoves DEF ChargeInv, RouterInv, OthersStay, ChatAt
<1>4. gaps \in Nat /\ PaymentKept(c) /\ <<RequestId(c), chats[c].key>> \in users
  BY <1>1 DEF ChargeInv, CallsOK, PaymentKept, HasPayment
<1>5. "proving" \in Going /\ chats[c].stage \in Going BY <1>1 DEF Going, Between
<1>. QED BY <1>1, <1>3, <1>4, <1>5, GoesStep

LEMMA SpentUnheardCharge ==
  ASSUME ChargeInv, RouterInv', NEW c \in Chats, SpentUnheard(c)
  PROVE  ChargeInv'
<1>1. /\ chats[c].stage = "spending" /\ ChatAt(c, "spending") /\ Answer(c) /\ Pay(c, "failed")
      /\ UNCHANGED <<gone, users>> /\ CountGap(TRUE)
  BY DEF SpentUnheard, ChatAt, Failed
<1>2. \A d \in Chats \ {c} : debits'[d] = debits[d]
  BY DEF SpentUnheard, ChargeInv, RouterInv, RouterTypes
<1>3. PaymentKept(c) BY <1>1 DEF ChargeInv, CallsOK, PaymentKept, HasPayment
<1>4. gaps' \in Nat /\ gaps' >= gaps + 1 /\ gaps' >= gaps BY <1>1, GapCounted
<1>5. chats[c].stage \in Going BY <1>1 DEF Going, Between
<1>. QED BY <1>1, <1>2, <1>3, <1>4, <1>5, EndsStep

LEMMA SettledCharge ==
  ASSUME ChargeInv, RouterInv', NEW c \in Chats, Settled(c)
  PROVE  ChargeInv'
<1>1. /\ chats[c].stage = "proving" /\ Answer(c) /\ Pay(c, "paid")
      /\ UNCHANGED <<gone, users, debits, gaps>>
  BY DEF Settled, ChatAt
<1>2. PaymentKept(c) BY <1>1 DEF ChargeInv, CallsOK, PaymentKept, HasPayment
<1>3. RequestId(c) \in RequestIds
  <2>1. chats[c] \in Call BY <1>1, OwnerIsPayer DEF ChargeInv, RouterInv, ChatAt
  <2>. QED BY <2>1 DEF RequestId, RequestIds, Call
<1>4. payments'[RequestId(c)] = "paid" /\ gaps \in Nat
  BY <1>1, <1>3 DEF Pay, ChargeInv, CallsOK
<1>5. chats[c].stage \in Going BY <1>1 DEF Going, Between
<1>. QED BY <1>1, <1>2, <1>4, <1>5, EndsStep

(* A call that looks: the stage and what it saw are written, its keys are not. *)
Looked(c, s, q, e) ==
  chats' = [chats EXCEPT ![c].stage = s, ![c].seen = q, ![c].consent = e]

LEMMA LookedGoes ==
  ASSUME RouterTypes, NEW c \in Chats, ~ChatAt(c, "new"), NEW s, NEW q, NEW e, Looked(c, s, q, e)
  PROVE  ChatGoes(c, s) /\ \A d \in Chats \ {c} : chats'[d] = chats[d]
<1> DEFINE a == [chats[c] EXCEPT !.stage = s]
           b == [a EXCEPT !.seen = q]
           v == [b EXCEPT !.consent = e]
<1>1. chats \in [Chats -> {NewCall} \cup Call] /\ chats[c] \in Call
  BY OwnerIsPayer DEF RouterTypes
<1>2. v.stage = s /\ v.key = chats[c].key /\ v.idem = chats[c].idem
  BY <1>1 DEF Call
<1>3. chats' = [chats EXCEPT ![c] = v] BY <1>1 DEF Looked
<1> HIDE DEF v
<1>4. chats'[c] = v /\ \A d \in Chats \ {c} : chats'[d] = chats[d] BY <1>1, <1>3
<1>. QED BY <1>2, <1>4 DEF ChatGoes

(* Before a call has looked, and when it is turned away at once, it charges     *)
(* nothing and holds nothing.                                                 *)
LEMMA OutsideStep ==
  ASSUME ChargeInv, RouterInv', NEW c \in Chats, chats[c].stage \in {"new", "let_in"},
         chats'[c].stage \in {"let_in", "done"}, \A d \in Chats \ {c} : chats'[d] = chats[d],
         UNCHANGED <<debits, gone, payments, inflight, users, gaps>>
  PROVE  ChargeInv'
<1>1. ~(debits[c] > 0) /\ c \notin gone /\ ~Holds(c) /\ ~Holds(c)'
  BY DEF ChargeInv, CallsOK, Holds, Going, Between
<1>2. ASSUME NEW d \in Chats, d # c
      PROVE  (Holds(d)' <=> Holds(d)) /\ CacheKey(d)' = CacheKey(d) /\ RequestId(d)' = RequestId(d)
  BY <1>2 DEF Holds, Keyed, CacheKey, RequestId
<1>3. CallsOK'
  <2>1. /\ \A a \in inflight' : \E d \in Chats : Holds(d)' /\ CacheKey(d)' = a
        /\ \A d \in Chats : Holds(d)' => CacheKey(d)' \in inflight'
        /\ \A d, e \in Chats : Holds(d)' /\ Holds(e)' /\ CacheKey(d)' = CacheKey(e)' => d = e
    BY <1>1, <1>2 DEF ChargeInv, CallsOK
  <2>2. ASSUME NEW d \in Chats
        PROVE  /\ chats'[d].stage \in HasPayment => <<RequestId(d)', chats'[d].key>> \in users'
               /\ d \in gone' => chats'[d].stage \notin {"new", "let_in"}
               /\ debits'[d] > 0 => chats'[d].stage \in {"proving", "done"}
    <3>1. CASE d = c BY <1>1, <3>1 DEF HasPayment
    <3>2. CASE d # c BY <1>2, <3>2 DEF ChargeInv, CallsOK
    <3>. QED BY <3>1, <3>2
  <2>3. gaps' \in Nat /\ payments' \in [RequestIds -> {"none", "open", "failed", "paid"}]
    BY DEF ChargeInv, CallsOK
  <2>. QED BY <2>1, <2>2, <2>3 DEF CallsOK
<1>4. ASSUME NEW k \in ApiKeys, NEW i \in Idems, Alone(k, i)' PROVE ChargeBound(k, i)'
  <2>1. ChargeBound(k, i) /\ gaps \in Nat BY <1>4 DEF ChargeInv, CallsOK, Alone
  <2>2. c \notin MayCharge(k, i)' BY <1>1 DEF MayCharge, MayPay, Going, Between
  <2>3. MayCharge(k, i)' \subseteq MayCharge(k, i) BY <2>2, OthersCharge DEF OthersStay
  <2>4. Blocked(k, i)' \/ ~Blocked(k, i) BY DEF Blocked
  <2>. QED BY <2>1, <2>3, <2>4, BoundKept
<1>. QED BY <1>3, <1>4 DEF ChargeInv

LEMMA AuthenticateCharge ==
  ASSUME ChargeInv, RouterInv', NEW c \in Chats, NEW k \in ApiKeys, NEW i \in Idems \cup {NoIdem},
         Authenticate(c, k, i)
  PROVE  ChargeInv'
<1> DEFINE v == [stage |-> "let_in", key |-> k, idem |-> i, consent |-> FALSE, seen |-> NoRefresh]
<1>1. /\ chats[c].stage = "new" /\ chats' = [chats EXCEPT ![c] = v]
      /\ UNCHANGED <<debits, gone, payments, inflight, users, gaps>>
  BY DEF Authenticate, ChatAt, historyVars
<1>2. v.stage = "let_in" OBVIOUS
<1>3. chats \in [Chats -> {NewCall} \cup Call] BY DEF ChargeInv, RouterInv, RouterTypes
<1> HIDE DEF v
<1>4. chats'[c] = v /\ \A d \in Chats \ {c} : chats'[d] = chats[d] BY <1>1, <1>3
<1>. QED BY <1>1, <1>2, <1>4, OutsideStep

LEMMA RateRefusedCharge ==
  ASSUME ChargeInv, RouterInv', NEW c \in Chats, RateRefused(c)
  PROVE  ChargeInv'
<1>1. /\ chats[c].stage = "let_in" /\ Goto(c, "done")
      /\ UNCHANGED <<debits, gone, payments, inflight, users, gaps>>
  BY DEF RateRefused, ChatAt, historyVars
<1>2. ChatGoes(c, "done") /\ \A d \in Chats \ {c} : chats'[d] = chats[d]
  BY <1>1, StageMoves DEF ChargeInv, RouterInv, ChatAt
<1>. QED BY <1>1, <1>2, OutsideStep DEF ChatGoes

(* A call that nothing turned away takes its key.                              *)
LEMMA TakesKeyStep ==
  ASSUME ChargeInv, RouterInv', NEW c \in Chats, ChatAt(c, "let_in"), ~TurnedAway(c),
         NEW s \in {"refreshing", "checked"}, ChatGoes(c, s),
         \A d \in Chats \ {c} : chats'[d] = chats[d],
         UNCHANGED <<debits, gone, payments, users, gaps>>,
         inflight' = IF Keyed(c) THEN inflight \cup {CacheKey(c)} ELSE inflight
  PROVE  ChargeInv'
<1>1. ~(debits[c] > 0) /\ c \notin gone /\ ~Holds(c)
  BY DEF ChargeInv, CallsOK, Holds, Going, Between, ChatAt
<1>2. /\ chats'[c].stage = s /\ CacheKey(c)' = CacheKey(c) /\ Keyed(c)' = Keyed(c)
      /\ s \in Going /\ s \notin HasPayment /\ s \notin {"new", "let_in"}
  BY ChatGoesKeeps DEF ChatGoes, Going, Between, HasPayment
<1>3. ASSUME NEW d \in Chats, d # c
      PROVE  (Holds(d)' <=> Holds(d)) /\ CacheKey(d)' = CacheKey(d) /\ RequestId(d)' = RequestId(d)
  BY <1>3 DEF Holds, Keyed, CacheKey, RequestId
<1>4. Holds(c)' <=> Keyed(c) BY <1>1, <1>2 DEF Holds
<1>5. Keyed(c) => CacheKey(c) \notin inflight /\ payments[RequestId(c)] # "paid"
  BY DEF TurnedAway, KeyBusy
<1>6. CallsOK'
  <2>1. /\ \A a \in inflight : \E d \in Chats : Holds(d) /\ CacheKey(d) = a
        /\ \A d \in Chats : Holds(d) => CacheKey(d) \in inflight
        /\ \A d, e \in Chats : Holds(d) /\ Holds(e) /\ CacheKey(d) = CacheKey(e) => d = e
    BY DEF ChargeInv, CallsOK
  <2>2. ASSUME NEW a \in inflight' PROVE \E d \in Chats : Holds(d)' /\ CacheKey(d)' = a
    <3>1. CASE a \in inflight
      <4>1. PICK d \in Chats : Holds(d) /\ CacheKey(d) = a BY <2>1, <3>1
      <4>. QED BY <1>1, <1>3, <4>1
    <3>2. CASE a \notin inflight BY <1>2, <1>4, <2>2, <3>2
    <3>. QED BY <3>1, <3>2
  <2>3. ASSUME NEW d \in Chats, Holds(d)' PROVE CacheKey(d)' \in inflight'
    BY <1>2, <1>3, <1>4, <2>1, <2>3
  <2>4. ASSUME NEW d \in Chats, NEW e \in Chats, Holds(d)', Holds(e)', CacheKey(d)' = CacheKey(e)'
        PROVE  d = e
    BY <1>2, <1>3, <1>4, <1>5, <2>1, <2>4
  <2>5. ASSUME NEW d \in Chats
        PROVE  /\ chats'[d].stage \in HasPayment => <<RequestId(d)', chats'[d].key>> \in users'
               /\ d \in gone' => chats'[d].stage \notin {"new", "let_in"}
               /\ debits'[d] > 0 => chats'[d].stage \in {"proving", "done"}
    <3>1. CASE d = c BY <1>1, <1>2, <3>1
    <3>2. CASE d # c BY <1>3, <3>2 DEF ChargeInv, CallsOK
    <3>. QED BY <3>1, <3>2
  <2>6. gaps' \in Nat /\ payments' \in [RequestIds -> {"none", "open", "failed", "paid"}]
    BY DEF ChargeInv, CallsOK
  <2>. QED BY <2>2, <2>3, <2>4, <2>5, <2>6 DEF CallsOK
<1>7. ASSUME NEW k \in ApiKeys, NEW i \in Idems, Alone(k, i)' PROVE ChargeBound(k, i)'
  <2>1. ChargeBound(k, i) /\ gaps \in Nat BY <1>7 DEF ChargeInv, CallsOK, Alone
  <2>2. MayCharge(k, i)' \subseteq MayCharge(k, i) \cup {c} BY OthersCharge DEF OthersStay
  <2>3. i # NoIdem BY AiRouterAssumption DEF AiRouterAssumption
  <2>4. CASE CacheKey(c) = <<k, i>>
    <3>1. Keyed(c) /\ RequestId(c) = i BY <2>3, <2>4 DEF CacheKey, Keyed, RequestId
    <3>2. ~Blocked(k, i) /\ Blocked(k, i)' BY <1>5, <2>4, <3>1 DEF Blocked
    <3>. QED BY <2>1, <2>2, <3>2, BoundTaken
  <2>5. CASE CacheKey(c) # <<k, i>>
    <3>1. c \notin MayCharge(k, i)' BY <1>2, <2>5 DEF MayCharge
    <3>2. MayCharge(k, i)' \subseteq MayCharge(k, i) BY <2>2, <3>1
    <3>3. Blocked(k, i)' \/ ~Blocked(k, i) BY <2>5 DEF Blocked
    <3>. QED BY <2>1, <3>2, <3>3, BoundKept
  <2>. QED BY <2>4, <2>5
<1>. QED BY <1>6, <1>7 DEF ChargeInv

LEMMA BeginCharge ==
  ASSUME ChargeInv, RouterInv', NEW c \in Chats, Begin(c)
  PROVE  ChargeInv'
<1> DEFINE w == Owner(c)
           p == policy[w]
           s == IF TurnedAway(c) THEN "done"
                ELSE IF p.chain = "pending" /\ MayRefresh(p) THEN "refreshing"
                ELSE Checked(w, p)
           q == IF s = "refreshing" THEN p ELSE NoRefresh
           e == wanted[w] \/ reverted[w]
<1>1. /\ ChatAt(c, "let_in") /\ chats[c].stage = "let_in" /\ ~ChatAt(c, "new")
      /\ UNCHANGED <<debits, gone, payments, users, gaps>>
  BY DEF Begin, ChatAt
<1>2. s \in {"done", "refreshing", "checked"} /\ (s # "done" => ~TurnedAway(c)) BY DEF Checked
<1>3. /\ Looked(c, s, q, e)
      /\ inflight' = IF Keyed(c) /\ s # "done" /\ c \notin gone
                     THEN inflight \cup {CacheKey(c)} ELSE inflight
  BY DEF Begin, Looked
<1> HIDE DEF s, q, e
<1>4. ChatGoes(c, s) /\ \A d \in Chats \ {c} : chats'[d] = chats[d]
  BY <1>1, <1>3, LookedGoes DEF ChargeInv, RouterInv
<1>5. c \notin gone BY <1>1 DEF ChargeInv, CallsOK
<1>6. CASE s = "done" BY <1>1, <1>3, <1>4, <1>6, OutsideStep DEF ChatGoes
<1>7. CASE s # "done" BY <1>1, <1>2, <1>3, <1>4, <1>5, <1>7, TakesKeyStep
<1>. QED BY <1>6, <1>7

LEMMA RefreshedCharge ==
  ASSUME ChargeInv, RouterInv', NEW c \in Chats, Refreshed(c)
  PROVE  ChargeInv'
<1>1. /\ chats[c].stage = "refreshing" /\ ~ChatAt(c, "new") /\ chats[c].stage \in Going
      /\ UNCHANGED <<debits, gone, payments, users, gaps>>
  BY DEF Refreshed, ChatAt, Going
<1>2. PICK chain \in ChainReads(chats[c].seen) : GoesOnWith(c, chain) BY DEF Refreshed
<1> DEFINE w == Owner(c)
           s == Checked(w, [enabled |-> TRUE, chain |-> chain])
           e == wanted[w] \/ reverted'[w]
<1>3. /\ Looked(c, s, NoRefresh, e)
      /\ IF s = "done" THEN Responds(c) ELSE UNCHANGED <<inflight, slot>>
  BY <1>2 DEF GoesOnWith, Looked
<1>4. s \in {"done", "checked"} BY DEF Checked
<1> HIDE DEF s, e
<1>5. ChatGoes(c, s) /\ OthersStay(c)
  BY <1>1, <1>3, LookedGoes DEF ChargeInv, RouterInv, OthersStay
<1>6. ~(debits[c] > 0) /\ gaps \in Nat /\ PaymentKept(c)
  BY <1>1 DEF ChargeInv, CallsOK, PaymentKept
<1>7. CASE s = "done" BY <1>1, <1>3, <1>5, <1>6, <1>7, RespondsStep
<1>8. CASE s = "checked"
  <2>1. "checked" \in Going /\ "checked" \notin HasPayment BY DEF Going, Between, HasPayment
  <2>2. ChatGoes(c, "checked") /\ OthersStay(c) /\ UNCHANGED <<gone, inflight, users>>
    BY <1>1, <1>3, <1>5, <1>8
  <2>3. gaps' \in Nat /\ gaps' >= gaps /\ users \subseteq users' /\ payments' = payments
        /\ ~(debits'[c] > 0)
    BY <1>1, <1>6
  <2>. QED BY <1>1, <1>6, <2>1, <2>2, <2>3, GoesStep
<1>. QED BY <1>4, <1>7, <1>8

(* A client that leaves frees the key; the call that goes on is a gap.          *)
LEMMA ClientLeavesCharge ==
  ASSUME ChargeInv, RouterInv', NEW c \in Chats, ClientLeaves(c)
  PROVE  ChargeInv'
<1>1. /\ chats[c].stage \in Going /\ c \notin gone /\ gone' = gone \cup {c}
      /\ inflight' = IF Keyed(c) THEN inflight \ {CacheKey(c)} ELSE inflight
      /\ UNCHANGED <<chats, debits, payments, users>> /\ CountGap(TRUE)
  BY DEF ClientLeaves, Responds, Going
<1>2. gaps \in Nat /\ gaps' \in Nat /\ gaps' >= gaps + 1 /\ gaps' >= gaps
  BY <1>1, GapCounted DEF ChargeInv, CallsOK
<1>3. \A d \in Chats : Holds(d)' <=> Holds(d) /\ d # c BY <1>1 DEF Holds, Keyed
<1>4. \A d \in Chats : CacheKey(d)' = CacheKey(d) /\ RequestId(d)' = RequestId(d)
  BY <1>1 DEF CacheKey, RequestId
<1>5. CallsOK'
  <2>1. /\ \A a \in inflight : \E d \in Chats : Holds(d) /\ CacheKey(d) = a
        /\ \A d \in Chats : Holds(d) => CacheKey(d) \in inflight
        /\ \A d, e \in Chats : Holds(d) /\ Holds(e) /\ CacheKey(d) = CacheKey(e) => d = e
    BY DEF ChargeInv, CallsOK
  <2>2. ASSUME NEW a \in inflight' PROVE \E d \in Chats : Holds(d)' /\ CacheKey(d)' = a
    <3>1. a \in inflight BY <1>1, <2>2
    <3>2. PICK d \in Chats : Holds(d) /\ CacheKey(d) = a BY <2>1, <3>1
    <3>3. d # c BY <1>1, <2>2, <3>2 DEF Holds
    <3>. QED BY <1>3, <1>4, <3>2, <3>3
  <2>3. ASSUME NEW d \in Chats, Holds(d)' PROVE CacheKey(d)' \in inflight'
    <3>1. Holds(d) /\ d # c /\ CacheKey(d) \in inflight BY <1>3, <2>1, <2>3
    <3>2. Keyed(c) => Holds(c) BY <1>1 DEF Holds
    <3>3. Keyed(c) => CacheKey(d) # CacheKey(c) BY <2>1, <3>1, <3>2
    <3>. QED BY <1>1, <1>4, <3>1, <3>3
  <2>4. \A d, e \in Chats : Holds(d)' /\ Holds(e)' /\ CacheKey(d)' = CacheKey(e)' => d = e
    BY <1>3, <1>4, <2>1
  <2>5. ASSUME NEW d \in Chats
        PROVE  /\ chats'[d].stage \in HasPayment => <<RequestId(d)', chats'[d].key>> \in users'
               /\ d \in gone' => chats'[d].stage \notin {"new", "let_in"}
               /\ debits'[d] > 0 => chats'[d].stage \in {"proving", "done"}
    BY <1>1, <1>4 DEF ChargeInv, CallsOK, Going, Between
  <2>6. payments' \in [RequestIds -> {"none", "open", "failed", "paid"}]
    BY <1>1 DEF ChargeInv, CallsOK
  <2>. QED BY <1>2, <2>2, <2>3, <2>4, <2>5, <2>6 DEF CallsOK
<1>6. ASSUME NEW k \in ApiKeys, NEW i \in Idems, Alone(k, i)' PROVE ChargeBound(k, i)'
  <2>1. ChargeBound(k, i) BY <1>1, <1>6 DEF ChargeInv, Alone
  <2>2. MayCharge(k, i)' \subseteq MayCharge(k, i)
    BY <1>1, <1>4 DEF MayCharge, MayPay, ChatAt
  <2>. QED BY <1>2, <2>1, <2>2, BoundKept
<1>. QED BY <1>5, <1>6 DEF ChargeInv

(* What a restart cuts off after its debit is a gap; what it cuts off before    *)
(* is not charged any more.                                                   *)
LEMMA RestartCharge ==
  ASSUME ChargeInv, RouterInv', RouterRestarts
  PROVE  ChargeInv'
<1>1. PICK landed \in SUBSET {c \in Chats : ChatAt(c, "spending")}, fee \in Fees :
        /\ debits' = [c \in Chats |-> IF c \in landed THEN Cost + fee ELSE debits[c]]
        /\ gaps' = gaps + Cardinality(landed \cup {c \in Chats : ChatAt(c, "proving")})
  BY DEF RouterRestarts
<1> DEFINE lost == landed \cup {c \in Chats : ChatAt(c, "proving")}
<1>2. /\ chats' = [c \in Chats |-> IF ChatAt(c, "new") THEN chats[c]
                              ELSE [chats[c] EXCEPT !.stage = "done"]]
      /\ inflight' = {} /\ UNCHANGED <<payments, gone, users>>
  BY DEF RouterRestarts
<1>3. ASSUME NEW c \in Chats
      PROVE  /\ ChatAt(c, "new") => chats'[c].stage = "new"
             /\ ~ChatAt(c, "new") =>
                  chats'[c].stage = "done" /\ CacheKey(c)' = CacheKey(c)
  BY <1>2, OwnerIsPayer DEF ChargeInv, RouterInv, Call, ChatAt, CacheKey
<1>4. ASSUME NEW c \in Chats, debits'[c] > 0
      PROVE  debits[c] > 0 \/ c \in landed
  BY <1>1, <1>4
<1>5. IsFiniteSet(lost) /\ Cardinality(lost) \in Nat /\ (lost # {} => Cardinality(lost) >= 1)
  <2>1. MaxChats \in Int /\ 1 \in Int BY AiRouterAssumption DEF AiRouterAssumption
  <2>2. IsFiniteSet(Chats) BY <2>1, FS_Interval DEF Chats
  <2>3. lost \in SUBSET Chats OBVIOUS
  <2>4. IsFiniteSet(lost) BY <2>2, <2>3, FS_Subset
  <2> HIDE DEF lost
  <2>5. Cardinality(lost) \in Nat BY <2>4, FS_CardinalityType
  <2>6. Cardinality(lost) = 0 => lost = {} BY <2>4, FS_EmptySet
  <2>. QED BY <2>4, <2>5, <2>6
<1>6. gaps \in Nat /\ gaps' \in Nat /\ gaps' >= gaps /\ (lost # {} => gaps' >= gaps + 1)
  <2>1. gaps \in Nat BY DEF ChargeInv, CallsOK
  <2>2. gaps' = gaps + Cardinality(lost) BY <1>1
  <2> HIDE DEF lost
  <2>. QED BY <1>5, <2>1, <2>2
<1>7. CallsOK'
  <2>1. \A d \in Chats : ~Holds(d)'
    BY <1>3 DEF Holds, Going, Between
  <2>2. ASSUME NEW d \in Chats
        PROVE  /\ chats'[d].stage \notin HasPayment
               /\ d \in gone' => chats'[d].stage \notin {"new", "let_in"}
               /\ debits'[d] > 0 => chats'[d].stage \in {"proving", "done"}
    <3>1. d \in gone \/ debits'[d] > 0 => ~ChatAt(d, "new")
      BY <1>1, <1>4 DEF ChargeInv, CallsOK, ChatAt
    <3>. QED BY <1>2, <1>3, <3>1 DEF HasPayment
  <2>3. payments' \in [RequestIds -> {"none", "open", "failed", "paid"}]
    BY <1>2 DEF ChargeInv, CallsOK
  <2>. QED BY <1>2, <1>6, <2>1, <2>2, <2>3 DEF CallsOK
<1>8. ASSUME NEW k \in ApiKeys, NEW i \in Idems, Alone(k, i)' PROVE ChargeBound(k, i)'
  <2>1. ChargeBound(k, i) BY <1>2, <1>8 DEF ChargeInv, Alone
  <2>2. ASSUME NEW c \in MayCharge(k, i)'
        PROVE  c \in MayCharge(k, i) /\ debits'[c] > 0
    <3>1. c \in Chats /\ chats'[c].stage = "done" /\ ~ChatAt(c, "new") /\ CacheKey(c)' = <<k, i>>
      BY <1>3, <2>2 DEF MayCharge
    <3>2. debits'[c] > 0 BY <2>2, <3>1 DEF MayCharge, MayPay, Going, Between
    <3>3. debits[c] > 0 \/ c \in landed BY <1>4, <3>1, <3>2
    <3>4. chats[c].stage \in {"proving", "done", "spending"}
      BY <1>1, <3>1, <3>3 DEF ChargeInv, CallsOK, ChatAt
    <3>5. MayPay(c) BY <1>1, <3>3 DEF MayPay, ChatAt, Going, Between
    <3>. QED BY <1>3, <3>1, <3>2, <3>4, <3>5 DEF MayCharge
  <2>3. MayCharge(k, i)' \subseteq MayCharge(k, i) BY <2>2
  <2>4. \/ Blocked(k, i)' \/ ~Blocked(k, i) \/ lost # {}
        \/ \E c \in MayCharge(k, i) : c \notin MayCharge(k, i)'
    <3>1. CASE payments[i] = "paid" BY <1>2, <3>1 DEF Blocked
    <3>2. ASSUME <<k, i>> \in inflight, lost = {}
          PROVE  \E c \in MayCharge(k, i) : c \notin MayCharge(k, i)'
      <4>1. PICK c \in Chats : Holds(c) /\ CacheKey(c) = <<k, i>>
        BY <3>2 DEF ChargeInv, CallsOK
      <4>2. c \in MayCharge(k, i) BY <4>1 DEF MayCharge, MayPay, Holds, Going, Between
      <4>3. c \notin landed /\ ~ChatAt(c, "proving") BY <3>2
      <4>4. ~(debits[c] > 0) BY <4>1, <4>3 DEF ChargeInv, CallsOK, Holds, Going, Between, ChatAt
      <4>5. ~(debits'[c] > 0) BY <1>4, <4>3, <4>4
      <4>. QED BY <2>2, <4>2, <4>5
    <3>. QED BY <3>1, <3>2 DEF Blocked
  <2> HIDE DEF lost
  <2>. QED BY <1>6, <2>1, <2>3, <2>4, BoundKept
<1>. QED BY <1>7, <1>8 DEF ChargeInv

LEMMA IdleCharge ==
  ASSUME ChargeInv, RouterInv', UNCHANGED <<chats, debits, gone, payments, inflight, users, gaps>>
  PROVE  ChargeInv'
<1>1. CallsOK'
  BY DEF ChargeInv, CallsOK, Holds, Keyed, CacheKey, RequestId
<1>2. ASSUME NEW k \in ApiKeys, NEW i \in Idems, Alone(k, i)' PROVE ChargeBound(k, i)'
  BY <1>2 DEF ChargeInv, Alone, ChargeBound, MayCharge, MayPay, CacheKey, ChatAt, Blocked
<1>. QED BY <1>1, <1>2 DEF ChargeInv

LEMMA ChargeInvStep ==
  ASSUME ChargeInv, AiRouterNext
  PROVE  ChargeInv'
<1>1. RouterInv' BY RouterInvStep DEF ChargeInv
<1>2. ASSUME NEW k \in ApiKeys, IssueKey(k) \/ RevokeKey(k) PROVE ChargeInv'
  BY <1>1, <1>2, IdleCharge DEF IssueKey, RevokeKey, callVars, historyVars
<1>3. ASSUME NEW w \in Payers, NEW p \in Policy,
             SetPolicy(w, p) \/ ReadinessStart(w) \/ ReadinessEnd(w) \/ SlotExpires(w)
      PROVE  ChargeInv'
  BY <1>1, <1>3, IdleCharge DEF SetPolicy, ReadinessStart, ReadinessEnd, SlotExpires, callVars,
     historyVars
<1>4. ASSUME NEW a \in answers, AnswerExpires(a) PROVE ChargeInv'
  BY <1>1, <1>4, IdleCharge DEF AnswerExpires, historyVars
<1>5. NoRefresh \in Policy BY DEF NoRefresh, Policy, ChainStatuses
<1>. QED
  BY <1>1, <1>2, <1>3, <1>4, <1>5, AuthenticateCharge, BeginCharge, RateRefusedCharge,
     RefreshedCharge, RoutedCharge, ServedCharge, DequeuedCharge, SpentCharge,
     SpentUnheardCharge, SettledCharge, ClientLeavesCharge, RestartCharge
  DEF AiRouterNext

THEOREM ChargeInvHolds == AiRouterSpec => []ChargeInv
<1>1. ChargeInv /\ UNCHANGED aiVars => ChargeInv'
  <2>1. RouterInv /\ UNCHANGED aiVars => RouterInv'
    BY DEF aiVars, RouterInv, RouterTypes, SpendsInSlot, Consents, ChatAt, Owner
  <2>. QED BY <2>1, IdleCharge DEF aiVars, ChargeInv
<1>2. ChargeInv /\ [AiRouterNext]_aiVars => ChargeInv' BY <1>1, ChargeInvStep
<1>. QED BY <1>2, ChargeInvInit, PTL DEF AiRouterSpec

(* ChargedOnce for any number of calls, keys and faults: the debits of one API *)
(* key and one idempotency key are at most one more than the gaps              *)
(* (openAiChatCompletions, createPaymentIntent).                              *)
THEOREM SpecChargedOnce == AiRouterSpec => []ChargedOnce
<1>1. ASSUME ChargeInv PROVE ChargedOnce
  <2>1. ASSUME NEW k \in ApiKeys, NEW i \in Idems, Alone(k, i)
        PROVE  Cardinality({c \in Debited : CacheKey(c) = <<k, i>>}) <= 1 + gaps
    <3> DEFINE D == {c \in Debited : CacheKey(c) = <<k, i>>}
    <3>1. D \in SUBSET MayCharge(k, i)
      BY <1>1 DEF ChargeInv, CallsOK, Debited, MayCharge, MayPay
    <3>2. IsFiniteSet(MayCharge(k, i)) /\ Cardinality(MayCharge(k, i)) \in Nat BY ChargesFinite
    <3>3. IsFiniteSet(D) /\ Cardinality(D) <= Cardinality(MayCharge(k, i)) BY <3>1, <3>2, FS_Subset
    <3>4. Cardinality(D) \in Nat BY <3>3, FS_CardinalityType
    <3>5. Cardinality(MayCharge(k, i)) <= 1 + gaps /\ gaps \in Nat
      BY <1>1, <2>1 DEF ChargeInv, ChargeBound, CallsOK
    <3> HIDE DEF D
    <3>6. Cardinality(D) <= 1 + gaps BY <3>2, <3>3, <3>4, <3>5
    <3>. QED BY <3>6 DEF D
  <2>. QED BY <2>1 DEF ChargedOnce, Alone
<1>. QED BY <1>1, ChargeInvHolds, PTL

--------------------------------------------------------------------------------
(* Totals: what SumTo gives, by induction over the numbers of places.           *)

(* Induction over a set of numbers, from the smallest that is missing. *)
LEMMA SetInduction ==
  ASSUME NEW S, S \subseteq Nat, 0 \in S, \A n \in S : n + 1 \in S
  PROVE  S = Nat
<1>. SUFFICES ASSUME NEW b \in Nat, b \notin S PROVE FALSE OBVIOUS
<1> DEFINE Missing == {n \in 0 .. b : n \notin S}
           T == {0 .. n : n \in Missing}
<1>1. \A n \in 0 .. b : IsFiniteSet(0 .. n) /\ 0 .. n \subseteq 0 .. b
  BY FS_Interval
<1>2. T \subseteq FiniteSubsetsOf(0 .. b) BY <1>1 DEF FiniteSubsetsOf
<1>3. T # {} OBVIOUS
<1>4. PICK X \in T : \A Y \in T : ~(<<Y, X>> \in StrictSubsetOrdering(0 .. b))
  <2>. HIDE DEF T
  <2>. QED BY <1>2, <1>3, FS_StrictSubsetOrderingWellFounded, WFMin
<1>5. PICK n \in Missing : X = 0 .. n OBVIOUS
<1>6. n \in Nat /\ n # 0 /\ n - 1 \in 0 .. b OBVIOUS
<1>7. n - 1 \in Missing
  <2>1. CASE n - 1 \in S
    <3>1. (n - 1) + 1 \in S BY <2>1
    <3>. QED BY <1>6, <3>1
  <2>. QED BY <1>6, <2>1
<1>8. 0 .. n - 1 \in T BY <1>7
<1>9. 0 .. n - 1 \subseteq 0 .. n /\ 0 .. n - 1 # 0 .. n
  <2>1. n \in 0 .. n /\ n \notin 0 .. n - 1 BY <1>6
  <2>. QED BY <1>6, <2>1
<1>10. <<0 .. n - 1, X>> \in StrictSubsetOrdering(0 .. b)
  <2>1. 0 .. n - 1 \in SUBSET (0 .. b) /\ X \in SUBSET (0 .. b) BY <1>1, <1>5, <1>6
  <2>. HIDE DEF T, Missing
  <2>. QED BY <1>5, <1>9, <2>1 DEF StrictSubsetOrdering
<1>. HIDE DEF T, Missing
<1>. QED BY <1>4, <1>8, <1>10

(* The sums of v up to n, as a function. *)
SumsUpTo(v, n, g) == g = [i \in 0 .. n |-> IF i = 0 THEN 0 ELSE g[i - 1] + v[i]]

LEMMA SumsExist == ASSUME NEW v PROVE \A n \in Nat : \E g : SumsUpTo(v, n, g)
<1> DEFINE S == {n \in Nat : \E g : SumsUpTo(v, n, g)}
<1>1. 0 \in S
  <2>1. SumsUpTo(v, 0, [i \in 0 .. 0 |-> 0])
    <3> DEFINE g == [i \in 0 .. 0 |-> 0]
    <3>1. \A i \in 0 .. 0 : i = 0 OBVIOUS
    <3>. QED BY <3>1 DEF SumsUpTo
  <2>. QED BY <2>1
<1>2. ASSUME NEW n \in S PROVE n + 1 \in S
  <2>1. PICK g : SumsUpTo(v, n, g) OBVIOUS
  <2> DEFINE h == [i \in 0 .. n + 1 |-> IF i <= n THEN g[i] ELSE g[n] + v[n + 1]]
  <2>2. g = [i \in 0 .. n |-> IF i = 0 THEN 0 ELSE g[i - 1] + v[i]] BY <2>1 DEF SumsUpTo
  <2>3. ASSUME NEW i \in 0 .. n + 1 PROVE h[i] = IF i = 0 THEN 0 ELSE h[i - 1] + v[i]
    <3>1. CASE i = 0
      <4>1. 0 \in 0 .. n OBVIOUS
      <4>2. g[0] = 0 BY <2>2, <4>1
      <4>. QED BY <3>1, <4>2
    <3>2. CASE i \in 1 .. n
      <4>1. i \in 0 .. n /\ i # 0 /\ i - 1 \in 0 .. n + 1 /\ i - 1 <= n /\ i <= n BY <3>2
      <4>2. g[i] = g[i - 1] + v[i] BY <2>2, <4>1
      <4>. QED BY <4>1, <4>2
    <3>3. CASE i = n + 1
      <4>1. i # 0 /\ ~(i <= n) /\ i - 1 = n /\ n \in 0 .. n + 1 BY <3>3
      <4>. QED BY <3>3, <4>1
    <3>. QED BY <3>1, <3>2, <3>3
  <2>4. h = [i \in 0 .. n + 1 |-> h[i]] OBVIOUS
  <2>. HIDE DEF h
  <2>5. SumsUpTo(v, n + 1, h) BY <2>3, <2>4 DEF SumsUpTo
  <2>. QED BY <2>5
<1>3. S = Nat
  <2>. HIDE DEF S
  <2>0. S \subseteq Nat BY DEF S
  <2>. QED BY <1>1, <1>2, <2>0, SetInduction
<1>. QED BY <1>3

LEMMA SumsAgree ==
  ASSUME NEW v, NEW n \in Nat, NEW m \in Nat, NEW g, NEW h, SumsUpTo(v, n, g), SumsUpTo(v, m, h)
  PROVE  \A i \in Nat : i <= n /\ i <= m => g[i] = h[i]
<1> DEFINE S == {i \in Nat : i <= n /\ i <= m => g[i] = h[i]}
<1>0. /\ \A i \in 0 .. n : g[i] = IF i = 0 THEN 0 ELSE g[i - 1] + v[i]
      /\ \A i \in 0 .. m : h[i] = IF i = 0 THEN 0 ELSE h[i - 1] + v[i]
  BY DEF SumsUpTo
<1>1. 0 \in S BY <1>0
<1>2. ASSUME NEW i \in S PROVE i + 1 \in S
  <2>. SUFFICES ASSUME i + 1 <= n, i + 1 <= m PROVE g[i + 1] = h[i + 1] OBVIOUS
  <2>1. i + 1 \in 0 .. n /\ i + 1 \in 0 .. m /\ i + 1 # 0 /\ (i + 1) - 1 = i OBVIOUS
  <2>2. g[i] = h[i] OBVIOUS
  <2>. QED BY <1>0, <2>1, <2>2
<1>3. S = Nat
  <2>0. S \subseteq Nat OBVIOUS
  <2>. HIDE DEF S
  <2>. QED BY <1>1, <1>2, <2>0, SetInduction
<1>. QED BY <1>3

LEMMA SumSteps ==
  ASSUME NEW v
  PROVE  SumTo(v, 0) = 0 /\ \A n \in Nat : SumTo(v, n + 1) = SumTo(v, n) + v[n + 1]
<1> DEFINE G(n) == CHOOSE g : SumsUpTo(v, n, g)
           f == [n \in Nat |-> G(n)[n]]
           sum == CHOOSE t : t = [m \in Nat |-> IF m = 0 THEN 0 ELSE t[m - 1] + v[m]]
<1>1. \A n \in Nat : SumsUpTo(v, n, G(n)) BY SumsExist
<1>. HIDE DEF G
<1>2. ASSUME NEW m \in Nat PROVE f[m] = IF m = 0 THEN 0 ELSE f[m - 1] + v[m]
  <2>1. G(m)[m] = IF m = 0 THEN 0 ELSE G(m)[m - 1] + v[m]
    <3>1. G(m) = [i \in 0 .. m |-> IF i = 0 THEN 0 ELSE G(m)[i - 1] + v[i]] BY <1>1 DEF SumsUpTo
    <3>2. m \in 0 .. m OBVIOUS
    <3>. QED BY <3>1, <3>2
  <2>2. ASSUME m # 0 PROVE G(m)[m - 1] = G(m - 1)[m - 1]
    <3>1. m - 1 \in Nat /\ m - 1 <= m BY <2>2
    <3>. QED BY <1>1, <3>1, SumsAgree
  <2>3. m # 0 => m - 1 \in Nat OBVIOUS
  <2>. QED BY <2>1, <2>2, <2>3
<1>3. f = [m \in Nat |-> f[m]] OBVIOUS
<1>. HIDE DEF f
<1>4. f = [m \in Nat |-> IF m = 0 THEN 0 ELSE f[m - 1] + v[m]] BY <1>2, <1>3
<1>5. sum = [m \in Nat |-> IF m = 0 THEN 0 ELSE sum[m - 1] + v[m]] BY <1>4
<1>6. \A n : SumTo(v, n) = sum[n] BY DEF SumTo
<1>. HIDE DEF sum
<1>7. sum[0] = 0 BY <1>5
<1>8. ASSUME NEW n \in Nat PROVE sum[n + 1] = sum[n] + v[n + 1]
  <2>1. n + 1 \in Nat /\ n + 1 # 0 /\ (n + 1) - 1 = n OBVIOUS
  <2>. QED BY <1>5, <2>1
<1>. QED BY <1>6, <1>7, <1>8

Numbers(v, n) == \A i \in 1 .. n : v[i] \in Nat

LEMMA SumIsNat ==
  ASSUME NEW n \in Nat, NEW v, Numbers(v, n)
  PROVE  \A m \in 0 .. n : SumTo(v, m) \in Nat
<1> DEFINE S == {m \in Nat : m <= n => SumTo(v, m) \in Nat}
<1>1. 0 \in S BY SumSteps
<1>2. ASSUME NEW m \in S PROVE m + 1 \in S
  <2>. SUFFICES ASSUME m + 1 <= n PROVE SumTo(v, m + 1) \in Nat OBVIOUS
  <2>1. SumTo(v, m) \in Nat /\ v[m + 1] \in Nat BY DEF Numbers
  <2>2. SumTo(v, m + 1) = SumTo(v, m) + v[m + 1] BY SumSteps
  <2>. QED BY <2>1, <2>2
<1>3. S = Nat
  <2>0. S \subseteq Nat OBVIOUS
  <2>. HIDE DEF S
  <2>. QED BY <1>1, <1>2, <2>0, SetInduction
<1>. QED BY <1>3

(* What is at most the sum of two at every place is so in total. *)
LEMMA SumBelow ==
  ASSUME NEW n \in Nat, NEW v, Numbers(v, n), NEW u, Numbers(u, n), NEW t, Numbers(t, n),
         \A i \in 1 .. n : v[i] <= u[i] + t[i]
  PROVE  SumTo(v, n) <= SumTo(u, n) + SumTo(t, n)
<1> DEFINE S == {m \in Nat : m <= n => SumTo(v, m) <= SumTo(u, m) + SumTo(t, m)}
<1>1. 0 \in S BY SumSteps
<1>2. ASSUME NEW m \in S PROVE m + 1 \in S
  <2>. SUFFICES ASSUME m + 1 <= n
                PROVE  SumTo(v, m + 1) <= SumTo(u, m + 1) + SumTo(t, m + 1)
    OBVIOUS
  <2>1. m \in 0 .. n /\ m + 1 \in 1 .. n OBVIOUS
  <2>2. SumTo(v, m) \in Nat /\ SumTo(u, m) \in Nat /\ SumTo(t, m) \in Nat BY <2>1, SumIsNat
  <2>3. v[m + 1] \in Nat /\ u[m + 1] \in Nat /\ t[m + 1] \in Nat BY <2>1 DEF Numbers
  <2>4. SumTo(v, m) <= SumTo(u, m) + SumTo(t, m) /\ v[m + 1] <= u[m + 1] + t[m + 1] BY <2>1
  <2>5. /\ SumTo(v, m + 1) = SumTo(v, m) + v[m + 1]
        /\ SumTo(u, m + 1) = SumTo(u, m) + u[m + 1]
        /\ SumTo(t, m + 1) = SumTo(t, m) + t[m + 1]
    BY SumSteps
  <2>. QED BY <2>2, <2>3, <2>4, <2>5
<1>3. S = Nat
  <2>0. S \subseteq Nat OBVIOUS
  <2>. HIDE DEF S
  <2>. QED BY <1>1, <1>2, <2>0, SetInduction
<1>. QED BY <1>3

(* What is at most as much at every place is so in total. *)
LEMMA SumAtMost ==
  ASSUME NEW n \in Nat, NEW v, Numbers(v, n), NEW u, Numbers(u, n), \A i \in 1 .. n : v[i] <= u[i]
  PROVE  SumTo(v, n) <= SumTo(u, n)
<1> DEFINE S == {m \in Nat : m <= n => SumTo(v, m) <= SumTo(u, m)}
<1>1. 0 \in S BY SumSteps
<1>2. ASSUME NEW m \in S PROVE m + 1 \in S
  <2>. SUFFICES ASSUME m + 1 <= n PROVE SumTo(v, m + 1) <= SumTo(u, m + 1) OBVIOUS
  <2>1. m \in 0 .. n /\ m + 1 \in 1 .. n OBVIOUS
  <2>2. SumTo(v, m) \in Nat /\ SumTo(u, m) \in Nat BY <2>1, SumIsNat
  <2>3. v[m + 1] \in Nat /\ u[m + 1] \in Nat BY <2>1 DEF Numbers
  <2>4. SumTo(v, m) <= SumTo(u, m) /\ v[m + 1] <= u[m + 1] BY <2>1
  <2>5. SumTo(v, m + 1) = SumTo(v, m) + v[m + 1] /\ SumTo(u, m + 1) = SumTo(u, m) + u[m + 1]
    BY SumSteps
  <2>. QED BY <2>2, <2>3, <2>4, <2>5
<1>3. S = Nat
  <2>0. S \subseteq Nat OBVIOUS
  <2>. HIDE DEF S
  <2>. QED BY <1>1, <1>2, <2>0, SetInduction
<1>. QED BY <1>3

(* A number put in front. *)
LEMMA SumShifted ==
  ASSUME NEW n \in Nat, NEW v, Numbers(v, n), NEW u, Numbers(u, n + 1),
         \A i \in 1 .. n : u[i + 1] = v[i]
  PROVE  SumTo(u, n + 1) = u[1] + SumTo(v, n)
<1> DEFINE S == {m \in Nat : m <= n => SumTo(u, m + 1) = u[1] + SumTo(v, m)}
<1>0. u[1] \in Nat BY DEF Numbers
<1>1. 0 \in S
  <2>1. SumTo(u, 0 + 1) = SumTo(u, 0) + u[0 + 1] /\ SumTo(u, 0) = 0 /\ SumTo(v, 0) = 0 BY SumSteps
  <2>. QED BY <1>0, <2>1
<1>2. ASSUME NEW m \in S PROVE m + 1 \in S
  <2>. SUFFICES ASSUME m + 1 <= n PROVE SumTo(u, m + 1 + 1) = u[1] + SumTo(v, m + 1) OBVIOUS
  <2>1. m \in 0 .. n /\ m + 1 \in 1 .. n OBVIOUS
  <2>2. SumTo(v, m) \in Nat /\ v[m + 1] \in Nat BY <2>1, SumIsNat DEF Numbers
  <2>3. SumTo(u, m + 1) = u[1] + SumTo(v, m) BY <2>1
  <2>4. SumTo(u, m + 1 + 1) = SumTo(u, m + 1) + u[m + 1 + 1] /\ u[m + 1 + 1] = v[m + 1]
    BY <2>1, SumSteps
  <2>5. SumTo(v, m + 1) = SumTo(v, m) + v[m + 1] BY SumSteps
  <2>. QED BY <1>0, <2>2, <2>3, <2>4, <2>5
<1>3. S = Nat
  <2>0. S \subseteq Nat OBVIOUS
  <2>. HIDE DEF S
  <2>. QED BY <1>1, <1>2, <2>0, SetInduction
<1>. QED BY <1>3

(* One number and nothing else. *)
LEMMA SumOfOne ==
  ASSUME NEW n \in Nat, NEW c \in 1 .. n, NEW d \in Nat
  PROVE  SumTo([i \in 1 .. n |-> IF i = c THEN d ELSE 0], n) = d
<1> DEFINE t == [i \in 1 .. n |-> IF i = c THEN d ELSE 0]
           S == {m \in Nat : m <= n => SumTo(t, m) = IF c <= m THEN d ELSE 0}
<1>1. 0 \in S BY SumSteps
<1>2. ASSUME NEW m \in S PROVE m + 1 \in S
  <2>. SUFFICES ASSUME m + 1 <= n PROVE SumTo(t, m + 1) = IF c <= m + 1 THEN d ELSE 0 OBVIOUS
  <2>1. m + 1 \in 1 .. n OBVIOUS
  <2>2. t[m + 1] = IF m + 1 = c THEN d ELSE 0 BY <2>1
  <2>3. SumTo(t, m) = IF c <= m THEN d ELSE 0 OBVIOUS
  <2>. HIDE DEF t
  <2>4. SumTo(t, m + 1) = SumTo(t, m) + t[m + 1] BY SumSteps
  <2>. QED BY <2>2, <2>3, <2>4
<1>3. S = Nat
  <2>0. S \subseteq Nat OBVIOUS
  <2>. HIDE DEF S
  <2>. QED BY <1>1, <1>2, <2>0, SetInduction
<1>. HIDE DEF t
<1>. QED BY <1>3 DEF t

--------------------------------------------------------------------------------
(* The daily limit of the AI Router.                                          *)

(* What the daily limit counts: the debits of the calls that are over, and with *)
(* them those that may still come, each of MostDebit at the most.              *)
MostDebit == Cost + Max(Fees)
Ended(w) == [c \in Chats |-> IF ChatAt(c, "done") /\ Owner(c) = w THEN debits[c] ELSE 0]
Due(w) ==
  [c \in Chats |-> IF ChatAt(c, "new") \/ Owner(c) # w THEN 0
                   ELSE IF chats[c].stage \in Between \ {"proving"} THEN MostDebit
                   ELSE debits[c]]
LimitOf(o, b) == DailyLimit + Max(Fees) + o * MostDebit + b

(* A log shows a call of a payer, at most MaxLogs are kept, and a call is      *)
(* debited once it has left its spend.                                        *)
Log == [owner : Payers, cost : Nat]
LimitTypes ==
  /\ usage \in Seq(Log) /\ Len(usage) <= MaxLogs /\ blind \in Nat /\ overlaps \in Nat
  /\ \A c \in Chats : /\ debits[c] <= MostDebit
                      /\ ~ChatAt(c, "proving") /\ ~ChatAt(c, "done") => debits[c] = 0

(* The logs show what is over, but for the blind amounts; and what is over or  *)
(* may still come stays within the limit and its overlaps.                     *)
LogsShow == \A w \in Payers : SumTo(Ended(w), MaxChats) <= SpendToday(w) + blind
DueInLimit ==
  DailyLimit > 0 => \A w \in Payers : SumTo(Due(w), MaxChats) <= LimitOf(overlaps, blind)

LimitInv == RouterInv /\ LimitTypes /\ LogsShow /\ DueInLimit

LEMMA DebitIsNat == MostDebit \in Nat /\ \A fee \in Fees : Cost + fee \in Nat /\ Cost + fee <= MostDebit
<1>1. PICK most \in Fees : \A fee \in Fees : fee <= most BY AiRouterAssumption DEF AiRouterAssumption
<1>2. Max(Fees) \in Fees /\ \A fee \in Fees : fee <= Max(Fees) BY <1>1 DEF Max
<1>3. Cost \in Nat /\ Fees \subseteq Nat BY AiRouterAssumption DEF AiRouterAssumption
<1>4. Max(Fees) \in Nat /\ \A fee \in Fees : fee \in Nat BY <1>2, <1>3
<1>. QED BY <1>2, <1>3, <1>4 DEF MostDebit

LEMMA LimitIsNat ==
  ASSUME NEW o \in Nat, NEW b \in Nat
  PROVE  LimitOf(o, b) \in Nat /\ LimitOf(o + 1, b) = LimitOf(o, b) + MostDebit
<1>1. PICK most \in Fees : \A fee \in Fees : fee <= most BY AiRouterAssumption DEF AiRouterAssumption
<1>2. Max(Fees) \in Nat BY <1>1, AiRouterAssumption DEF Max, AiRouterAssumption
<1>3. MostDebit \in Nat /\ DailyLimit \in Nat BY DebitIsNat, AiRouterAssumption DEF AiRouterAssumption
<1>4. o * MostDebit \in Nat /\ (o + 1) * MostDebit = o * MostDebit + MostDebit BY <1>3
<1>. QED BY <1>2, <1>3, <1>4 DEF LimitOf

(* What the logs show of a wallet. *)
CostsOf(w, u) == [n \in DOMAIN u |-> IF u[n].owner = w THEN u[n].cost ELSE 0]

LEMMA CostsAreNumbers ==
  ASSUME NEW w, NEW u \in Seq(Log)
  PROVE  Numbers(CostsOf(w, u), Len(u)) /\ SumTo(CostsOf(w, u), Len(u)) \in Nat
<1>1. \A n \in 1 .. Len(u) : u[n] \in Log OBVIOUS
<1>2. DOMAIN u = 1 .. Len(u) /\ Len(u) \in Nat OBVIOUS
<1>3. Numbers(CostsOf(w, u), Len(u)) BY <1>1, <1>2 DEF Numbers, CostsOf, Log
<1>. QED BY <1>2, <1>3, SumIsNat

(* Two sums. *)
LEMMA LastGoes ==
  ASSUME NEW own \in Nat, NEW spent \in Nat, NEW rest \in Nat, NEW drop \in Nat, NEW last \in Nat,
         NEW after \in Nat, rest + drop = own + spent, rest <= after, drop <= last
  PROVE  own + spent <= after + last
OBVIOUS

LEMMA BlindGoes ==
  ASSUME NEW own \in Nat, NEW spent \in Nat, NEW after \in Nat, NEW last \in Nat, NEW more \in Nat,
         NEW b \in Nat, NEW c, c = b + more + last, own + spent <= after + last
  PROVE  spent + b + own + more <= after + c
OBVIOUS

(* A new log is counted, and what falls off the end is blind.                 *)
LEMMA LogCounts ==
  ASSUME usage \in Seq(Log), Len(usage) <= MaxLogs, blind \in Nat,
         NEW o \in Payers, NEW cost \in Nat, NEW more \in Nat, LogCall(o, cost, more)
  PROVE  /\ usage' \in Seq(Log) /\ Len(usage') <= MaxLogs /\ blind' \in Nat /\ blind' >= blind
         /\ \A w \in Payers :
              SpendToday(w) + blind + (IF w = o THEN cost ELSE 0) + more <= SpendToday(w)' + blind'
<1> DEFINE written == LogEntry(o, cost)
           all == <<written>> \o usage
           last == IF Len(all) > MaxLogs THEN Last(all).cost ELSE 0
<1>1. MaxLogs \in Nat /\ Len(usage) \in Nat BY AiRouterAssumption DEF AiRouterAssumption
<1>2. written \in Log /\ written.owner = o /\ written.cost = cost BY DEF LogEntry, Log
<1>3. /\ all \in Seq(Log) /\ Len(all) = Len(usage) + 1 /\ all[1] = written
      /\ \A n \in 1 .. Len(usage) : all[n + 1] = usage[n]
  <2> HIDE DEF written
  <2>. QED BY <1>1, <1>2
<1>4. /\ usage' = SubSeq(all, 1, Min({MaxLogs, Len(all)}))
      /\ blind' = blind + more + last
  BY DEF LogCall
<1> HIDE DEF written, all
<1>5. \A n \in 1 .. Len(all) : all[n] \in Log BY <1>3
<1>6. last \in Nat BY <1>1, <1>3, <1>5 DEF Last, Log
<1>7. blind' \in Nat /\ blind' >= blind BY <1>4, <1>6
<1>8. Min({MaxLogs, Len(all)}) = IF Len(all) > MaxLogs THEN MaxLogs ELSE Len(all)
  BY <1>1, <1>3 DEF Min
<1>9. /\ usage' \in Seq(Log) /\ Len(usage') <= MaxLogs
      /\ Len(usage') = IF Len(all) > MaxLogs THEN Len(usage) ELSE Len(usage) + 1
      /\ \A n \in 1 .. Len(usage') : usage'[n] = all[n]
  <2>1. CASE Len(all) > MaxLogs
    <3>0. MaxLogs = Len(usage)
      <4>1. Len(usage) <= MaxLogs /\ Len(usage) + 1 > MaxLogs BY <1>3, <2>1
      <4>. HIDE DEF last
      <4>. QED BY <1>1, <4>1
    <3>1. usage' = SubSeq(all, 1, Len(usage)) /\ MaxLogs = Len(usage)
      BY <1>4, <1>8, <2>1, <3>0
    <3>. QED BY <1>1, <1>3, <2>1, <3>1
  <2>2. CASE ~(Len(all) > MaxLogs)
    <3>1. usage' = SubSeq(all, 1, Len(all)) BY <1>4, <1>8, <2>2
    <3>2. usage' = all BY <1>3, <3>1
    <3>. QED BY <1>1, <1>3, <2>2, <3>2
  <2>. QED BY <2>1, <2>2
<1>10. ASSUME NEW w \in Payers
       PROVE  SpendToday(w) + blind + (IF w = o THEN cost ELSE 0) + more <= SpendToday(w)' + blind'
  <2> DEFINE v == CostsOf(w, usage)
             u == CostsOf(w, all)
             z == CostsOf(w, usage')
             n == Len(usage)
             own == IF w = o THEN cost ELSE 0
  <2>1. SpendToday(w) = SumTo(v, n) /\ SpendToday(w)' = SumTo(z, Len(usage'))
    BY DEF SpendToday, CostsOf
  <2>2. Numbers(v, n) /\ Numbers(u, n + 1) /\ SumTo(v, n) \in Nat BY <1>3, CostsAreNumbers
  <2>3. u[1] = own /\ \A i \in 1 .. n : u[i + 1] = v[i]
    BY <1>1, <1>2, <1>3 DEF CostsOf
  <2>4. SumTo(u, n + 1) = own + SumTo(v, n)
    <3> HIDE DEF u, v, n, own
    <3>. QED BY <1>1, <2>2, <2>3, SumShifted DEF n
  <2>5. \A i \in 1 .. Len(usage') : z[i] = u[i] BY <1>1, <1>3, <1>9 DEF CostsOf
  <2>6. Numbers(z, Len(usage')) /\ SumTo(z, Len(usage')) \in Nat BY <1>9, CostsAreNumbers
  <2>7. Numbers(u, Len(usage')) BY <1>1, <1>9, <2>2 DEF Numbers
  <2>8. SumTo(u, Len(usage')) <= SumTo(z, Len(usage'))
    <3>1. Len(usage') \in Nat BY <1>9
    <3>2. \A i \in 1 .. Len(usage') : u[i] <= z[i] BY <2>5, <2>6 DEF Numbers
    <3> HIDE DEF u, z
    <3>. QED BY <2>6, <2>7, <3>1, <3>2, SumAtMost
  <2>9. own \in Nat /\ own = IF w = o THEN cost ELSE 0 OBVIOUS
  <2>10. ASSUME Len(all) > MaxLogs PROVE own + SpendToday(w) <= SpendToday(w)' + last
    <3>1. Len(usage') = n BY <1>9, <2>10
    <3>2. SumTo(u, n + 1) = SumTo(u, n) + u[n + 1] BY <1>1, SumSteps
    <3>3. u[n + 1] \in Nat /\ u[n + 1] <= last
      <4>1. n + 1 = Len(all) /\ n + 1 \in 1 .. Len(all) BY <1>1, <1>3
      <4>2. last = all[n + 1].cost BY <2>10, <4>1 DEF Last
      <4>3. all[n + 1] \in Log BY <1>5, <4>1
      <4>4. u[n + 1] = IF all[n + 1].owner = w THEN all[n + 1].cost ELSE 0
        BY <1>3, <4>1 DEF CostsOf
      <4>. QED BY <4>2, <4>3, <4>4 DEF Log
    <3>4. SumTo(u, n) \in Nat BY <1>1, <2>2, SumIsNat
    <3> HIDE DEF u, v, z, n, own, last
    <3>5. SumTo(u, n) + u[n + 1] = own + SumTo(v, n) BY <2>4, <3>2
    <3>6. SumTo(u, n) <= SumTo(z, Len(usage')) BY <2>8, <3>1
    <3>7. own + SumTo(v, n) <= SumTo(z, Len(usage')) + last
      BY <1>6, <2>2, <2>6, <2>9, <3>3, <3>4, <3>5, <3>6, LastGoes
    <3>. QED BY <2>1, <3>7
  <2>11. ASSUME ~(Len(all) > MaxLogs) PROVE own + SpendToday(w) <= SpendToday(w)' + last
    <3>1. Len(usage') = n + 1 BY <1>9, <2>11
    <3> HIDE DEF u, v, z, n, own, last
    <3>. QED BY <1>6, <2>1, <2>2, <2>4, <2>6, <2>8, <2>9, <3>1
  <2>12. own + SpendToday(w) <= SpendToday(w)' + last BY <2>10, <2>11
  <2>13. SpendToday(w) \in Nat /\ SpendToday(w)' \in Nat BY <2>1, <2>2, <2>6
  <2>14. blind' = blind + more + last BY <1>4
  <2> HIDE DEF own, last, u, v, z, n
  <2>15. SpendToday(w) + blind + own + more <= SpendToday(w)' + blind'
    BY <1>6, <2>9, <2>12, <2>13, <2>14, BlindGoes
  <2>. QED BY <2>9, <2>15
<1>. QED BY <1>7, <1>9, <1>10

LEMMA LimitGrows ==
  ASSUME NEW o \in Nat, NEW b \in Nat, NEW c \in Nat, b <= c
  PROVE  LimitOf(o, b) \in Nat /\ LimitOf(o, c) \in Nat /\ LimitOf(o, b) <= LimitOf(o, c)
<1>1. LimitOf(o, 0) \in Nat BY LimitIsNat
<1>2. \A d : LimitOf(o, d) = DailyLimit + Max(Fees) + o * MostDebit + d BY DEF LimitOf
<1> DEFINE rest == DailyLimit + Max(Fees) + o * MostDebit
<1>3. rest \in Nat
  <2>1. PICK most \in Fees : \A fee \in Fees : fee <= most BY AiRouterAssumption DEF AiRouterAssumption
  <2>2. Max(Fees) \in Nat BY <2>1, AiRouterAssumption DEF Max, AiRouterAssumption
  <2>3. MostDebit \in Nat /\ DailyLimit \in Nat BY DebitIsNat, AiRouterAssumption DEF AiRouterAssumption
  <2>4. o * MostDebit \in Nat BY <2>3
  <2>. QED BY <2>2, <2>3, <2>4
<1>4. LimitOf(o, b) = rest + b /\ LimitOf(o, c) = rest + c BY <1>2
<1> HIDE DEF rest
<1>. QED BY <1>3, <1>4

LEMMA AmountsAreNumbers ==
  /\ RouterTypes => \A w : Numbers(Ended(w), MaxChats) /\ Numbers(Due(w), MaxChats)
  /\ RouterTypes' => \A w : Numbers(Ended(w)', MaxChats) /\ Numbers(Due(w)', MaxChats)
<1>1. MostDebit \in Nat /\ MaxChats \in Nat BY DebitIsNat, AiRouterAssumption DEF AiRouterAssumption
<1>2. ASSUME RouterTypes, NEW w PROVE Numbers(Ended(w), MaxChats) /\ Numbers(Due(w), MaxChats)
  BY <1>1, <1>2 DEF RouterTypes, Numbers, Ended, Due, Chats
<1>3. ASSUME RouterTypes', NEW w PROVE Numbers(Ended(w)', MaxChats) /\ Numbers(Due(w)', MaxChats)
  BY <1>1, <1>3 DEF RouterTypes, Numbers, Ended, Due, Chats
<1>. QED BY <1>2, <1>3

LEMMA SpendIsNat ==
  /\ LimitTypes => \A w : SpendToday(w) \in Nat
  /\ LimitTypes' => \A w : SpendToday(w)' \in Nat
<1>1. ASSUME LimitTypes, NEW w PROVE SpendToday(w) \in Nat
  <2>1. SpendToday(w) = SumTo(CostsOf(w, usage), Len(usage)) BY DEF SpendToday, CostsOf
  <2>. QED BY <1>1, <2>1, CostsAreNumbers DEF LimitTypes
<1>2. ASSUME LimitTypes', NEW w PROVE SpendToday(w)' \in Nat
  <2>1. SpendToday(w)' = SumTo(CostsOf(w, usage'), Len(usage')) BY DEF SpendToday, CostsOf
  <2>2. usage' \in Seq(Log) BY <1>2 DEF LimitTypes
  <2>. QED BY <2>1, <2>2, CostsAreNumbers
<1>. QED BY <1>1, <1>2

LEMMA MoreIsShown ==
  ASSUME NEW e \in Nat, NEW s \in Nat, NEW b \in Nat, NEW f \in Nat, NEW t \in Nat, NEW r \in Nat,
         NEW c \in Nat, e <= s + b, f <= e + t, s + b + t <= r + c
  PROVE  f <= r + c
OBVIOUS

(* A step that adds nothing to what may still come, and shows what it ends.   *)
LEMMA LimitKept ==
  ASSUME LimitInv, RouterInv', LimitTypes', overlaps' = overlaps, blind' >= blind,
         \A w \in Payers, c \in Chats : Due(w)'[c] <= Due(w)[c],
         \A w \in Payers : \E t :
           /\ Numbers(t, MaxChats) /\ \A c \in Chats : Ended(w)'[c] <= Ended(w)[c] + t[c]
           /\ SpendToday(w) + blind + SumTo(t, MaxChats) <= SpendToday(w)' + blind'
  PROVE  LimitInv'
<1>1. MaxChats \in Nat /\ Chats = 1 .. MaxChats BY AiRouterAssumption DEF AiRouterAssumption, Chats
<1>2. \A w \in Payers :
        /\ Numbers(Ended(w), MaxChats) /\ Numbers(Due(w), MaxChats)
        /\ Numbers(Ended(w)', MaxChats) /\ Numbers(Due(w)', MaxChats)
  BY AmountsAreNumbers DEF LimitInv, RouterInv
<1>3. blind \in Nat /\ blind' \in Nat /\ overlaps \in Nat BY DEF LimitInv, LimitTypes
<1>4. ASSUME NEW w \in Payers, DailyLimit > 0
      PROVE  SumTo(Due(w)', MaxChats) <= LimitOf(overlaps', blind')
  <2>1. SumTo(Due(w)', MaxChats) <= SumTo(Due(w), MaxChats) BY <1>1, <1>2, SumAtMost
  <2>2. SumTo(Due(w)', MaxChats) \in Nat /\ SumTo(Due(w), MaxChats) \in Nat
    BY <1>1, <1>2, SumIsNat
  <2>3. SumTo(Due(w), MaxChats) <= LimitOf(overlaps, blind) BY <1>4 DEF LimitInv, DueInLimit
  <2>4. /\ LimitOf(overlaps, blind) \in Nat /\ LimitOf(overlaps, blind') \in Nat
        /\ LimitOf(overlaps, blind) <= LimitOf(overlaps, blind')
    BY <1>3, LimitGrows
  <2>5. SumTo(Due(w)', MaxChats) <= LimitOf(overlaps, blind') BY <2>1, <2>2, <2>3, <2>4
  <2>. QED BY <2>5
<1>5. ASSUME NEW w \in Payers
      PROVE  SumTo(Ended(w)', MaxChats) <= SpendToday(w)' + blind'
  <2>1. PICK t : /\ Numbers(t, MaxChats) /\ \A c \in Chats : Ended(w)'[c] <= Ended(w)[c] + t[c]
                 /\ SpendToday(w) + blind + SumTo(t, MaxChats) <= SpendToday(w)' + blind'
    OBVIOUS
  <2>2. SumTo(Ended(w)', MaxChats) <= SumTo(Ended(w), MaxChats) + SumTo(t, MaxChats)
    BY <1>1, <1>2, <2>1, SumBelow
  <2>3. /\ SumTo(Ended(w)', MaxChats) \in Nat /\ SumTo(Ended(w), MaxChats) \in Nat
        /\ SumTo(t, MaxChats) \in Nat
    BY <1>1, <1>2, <2>1, SumIsNat
  <2>4. SpendToday(w) \in Nat /\ SpendToday(w)' \in Nat BY SpendIsNat DEF LimitInv
  <2>5. SumTo(Ended(w), MaxChats) <= SpendToday(w) + blind BY DEF LimitInv, LogsShow
  <2>. QED BY <1>3, <2>1, <2>2, <2>3, <2>4, <2>5, MoreIsShown
<1>6. DueInLimit' BY <1>4 DEF DueInLimit
<1>7. LogsShow' BY <1>5 DEF LogsShow
<1>. QED BY <1>6, <1>7 DEF LimitInv

(* A step of one call. *)
LEMMA OneGoes ==
  ASSUME LimitInv, RouterInv', NEW c \in Chats, ~ChatAt(c, "new"), ~ChatAt(c, "done"), NEW s,
         ChatGoes(c, s), \A d \in Chats \ {c} : chats'[d] = chats[d] /\ debits'[d] = debits[d],
         s \in Between \cup {"let_in", "refreshing", "done"},
         s \in Between => chats[c].stage \in Between \ {"proving"},
         debits'[c] <= MostDebit, ~(s \in {"proving", "done"}) => debits'[c] = 0,
         \/ debits'[c] = debits[c] \/ chats[c].stage \in Between \ {"proving"},
         NEW more \in Nat, s = "done" => debits'[c] <= more,
         usage' \in Seq(Log), Len(usage') <= MaxLogs, blind' \in Nat, blind' >= blind,
         overlaps' = overlaps,
         \A w \in Payers : SpendToday(w) + blind + (IF w = Owner(c) THEN more ELSE 0)
                             <= SpendToday(w)' + blind'
  PROVE  LimitInv'
<1>1. MaxChats \in Nat /\ Chats = 1 .. MaxChats BY AiRouterAssumption DEF AiRouterAssumption, Chats
<1>2. debits \in [Chats -> Nat] /\ debits' \in [Chats -> Nat] /\ MostDebit \in Nat
  BY DebitIsNat DEF LimitInv, RouterInv, RouterTypes
<1>3. chats'[c].stage = s /\ Owner(c)' = Owner(c) /\ s # "new" BY DEF ChatGoes, Owner, Between
<1>4. LimitTypes'
  <2>1. ASSUME NEW d \in Chats
        PROVE  /\ debits'[d] <= MostDebit
               /\ ~(chats'[d].stage = "proving") /\ ~(chats'[d].stage = "done") => debits'[d] = 0
    <3>1. CASE d = c BY <1>3, <3>1
    <3>2. CASE d # c BY <3>2 DEF LimitInv, LimitTypes, ChatAt
    <3>. QED BY <3>1, <3>2
  <2>2. overlaps' \in Nat BY DEF LimitInv, LimitTypes
  <2>. QED BY <2>1, <2>2 DEF LimitTypes, ChatAt
<1>5. ASSUME NEW w \in Payers, NEW d \in Chats PROVE Due(w)'[d] <= Due(w)[d]
  <2>1. CASE d # c
    <3>1. Due(w)'[d] = Due(w)[d] BY <2>1 DEF Due, ChatAt, Owner
    <3>2. Due(w)[d] \in Nat BY <1>2 DEF Due
    <3>. QED BY <3>1, <3>2
  <2>2. CASE d = c
    <3>1. Due(w)'[c] = IF Owner(c) # w THEN 0
                       ELSE IF s \in Between \ {"proving"} THEN MostDebit ELSE debits'[c]
      BY <1>3 DEF Due, ChatAt
    <3>2. Due(w)[c] = IF Owner(c) # w THEN 0
                      ELSE IF chats[c].stage \in Between \ {"proving"} THEN MostDebit ELSE debits[c]
      BY DEF Due
    <3>. QED BY <1>2, <2>2, <3>1, <3>2
  <2>. QED BY <2>1, <2>2
<1>6. ASSUME NEW w \in Payers
      PROVE  \E t :
               /\ Numbers(t, MaxChats) /\ \A d \in Chats : Ended(w)'[d] <= Ended(w)[d] + t[d]
               /\ SpendToday(w) + blind + SumTo(t, MaxChats) <= SpendToday(w)' + blind'
  <2> DEFINE own == IF w = Owner(c) THEN more ELSE 0
             t == [i \in 1 .. MaxChats |-> IF i = c THEN own ELSE 0]
  <2>1. own \in Nat OBVIOUS
  <2>2. SumTo(t, MaxChats) = own
    <3> HIDE DEF own
    <3>. QED BY <1>1, <2>1, SumOfOne
  <2>3. Numbers(t, MaxChats) BY <2>1 DEF Numbers
  <2>4. ASSUME NEW d \in Chats PROVE Ended(w)'[d] <= Ended(w)[d] + t[d]
    <3>1. t[d] = IF d = c THEN own ELSE 0 BY <1>1
    <3>2. CASE d # c
      <4>1. Ended(w)'[d] = Ended(w)[d] BY <3>2 DEF Ended, ChatAt, Owner
      <4>2. Ended(w)[d] \in Nat BY <1>2 DEF Ended
      <4>. QED BY <3>1, <3>2, <4>1, <4>2
    <3>3. CASE d = c
      <4>1. Ended(w)'[c] = IF s = "done" /\ Owner(c) = w THEN debits'[c] ELSE 0
        BY <1>3 DEF Ended, ChatAt
      <4>2. Ended(w)[c] = 0 BY DEF Ended
      <4>. QED BY <1>2, <3>1, <3>3, <4>1, <4>2
    <3>. QED BY <3>2, <3>3
  <2>5. SpendToday(w) + blind + own <= SpendToday(w)' + blind' OBVIOUS
  <2> HIDE DEF t, own
  <2>. QED BY <2>2, <2>3, <2>4, <2>5
<1>7. blind' >= blind OBVIOUS
<1>. QED BY <1>4, <1>5, <1>6, <1>7, LimitKept

(* A step of one call that ends no debit. *)
LEMMA QuietGoes ==
  ASSUME LimitInv, RouterInv', NEW c \in Chats, ~ChatAt(c, "new"), ~ChatAt(c, "done"), NEW s,
         ChatGoes(c, s), \A d \in Chats \ {c} : chats'[d] = chats[d] /\ debits'[d] = debits[d],
         s \in Between \cup {"let_in", "refreshing", "done"},
         s \in Between => chats[c].stage \in Between \ {"proving"},
         debits'[c] <= MostDebit, s # "proving" => debits'[c] = 0,
         \/ debits'[c] = debits[c] \/ chats[c].stage \in Between \ {"proving"},
         UNCHANGED <<usage, blind, overlaps>>
  PROVE  LimitInv'
<1>1. usage \in Seq(Log) /\ Len(usage) <= MaxLogs /\ blind \in Nat BY DEF LimitInv, LimitTypes
<1>2. ASSUME NEW w \in Payers
      PROVE  SpendToday(w) + blind + (IF w = Owner(c) THEN 0 ELSE 0) <= SpendToday(w)' + blind'
  <2>1. SpendToday(w)' = SpendToday(w) BY DEF SpendToday
  <2>2. SpendToday(w) \in Nat BY SpendIsNat DEF LimitInv
  <2>. QED BY <1>1, <2>1, <2>2
<1>3. 0 \in Nat /\ (s = "done" => debits'[c] <= 0) /\ blind' >= blind BY <1>1
<1>4. ~(s \in {"proving", "done"}) => debits'[c] = 0 OBVIOUS
<1>. QED BY <1>1, <1>2, <1>3, <1>4, OneGoes

(* A check that finds no unlogged call beside it makes room for one debit: all *)
(* that is due is shown or blind, and with the price within the limit.         *)
LEMMA RoomForOne ==
  ASSUME NEW e \in Nat, NEW s \in Nat, NEW b \in Nat, e <= s + b + MostDebit,
         ~(s + Cost > DailyLimit)
  PROVE  e <= LimitOf(0, b)
<1>1. PICK most \in Fees : \A fee \in Fees : fee <= most BY AiRouterAssumption DEF AiRouterAssumption
<1>2. Max(Fees) \in Nat BY <1>1, AiRouterAssumption DEF Max, AiRouterAssumption
<1>3. Cost \in Nat /\ DailyLimit \in Nat /\ MostDebit \in Nat
  BY DebitIsNat, AiRouterAssumption DEF AiRouterAssumption
<1>4. LimitOf(0, b) = DailyLimit + Max(Fees) + b
  <2>1. 0 * MostDebit = 0 BY <1>3
  <2>. QED BY <1>2, <1>3, <2>1 DEF LimitOf
<1>5. MostDebit = Cost + Max(Fees) BY DEF MostDebit
<1>. QED BY <1>2, <1>3, <1>4, <1>5

LEMMA OneMoreDebit ==
  ASSUME NEW o \in Nat, NEW b \in Nat, NEW e \in Nat, NEW f \in Nat,
         f <= LimitOf(o, b), e <= f + MostDebit
  PROVE  e <= LimitOf(o + 1, b)
<1>1. LimitOf(o, b) \in Nat /\ LimitOf(o + 1, b) = LimitOf(o, b) + MostDebit BY LimitIsNat
<1>2. MostDebit \in Nat BY DebitIsNat
<1>. QED BY <1>1, <1>2

LEMMA MoreOverlaps ==
  ASSUME NEW o \in Nat, NEW b \in Nat
  PROVE  LimitOf(0, b) \in Nat /\ LimitOf(o, b) \in Nat /\ LimitOf(0, b) <= LimitOf(o, b)
<1>1. PICK most \in Fees : \A fee \in Fees : fee <= most BY AiRouterAssumption DEF AiRouterAssumption
<1>2. Max(Fees) \in Nat BY <1>1, AiRouterAssumption DEF Max, AiRouterAssumption
<1>3. DailyLimit \in Nat /\ MostDebit \in Nat BY DebitIsNat, AiRouterAssumption DEF AiRouterAssumption
<1>4. 0 * MostDebit = 0 /\ o * MostDebit \in Nat BY <1>3
<1>. QED BY <1>2, <1>3, <1>4 DEF LimitOf

(* The limit check of a call. *)
LEMMA ChecksLimit ==
  ASSUME LimitInv, RouterInv', NEW c \in Chats, chats[c].stage \in {"let_in", "refreshing"},
         ChatGoes(c, "checked"), \A d \in Chats \ {c} : chats'[d] = chats[d],
         ~OverLimit(Owner(c)), CountOverlap(Owner(c), "checked"), UNCHANGED <<debits, usage, blind>>
  PROVE  LimitInv'
<1> DEFINE o == Owner(c)
           t == [i \in 1 .. MaxChats |-> IF i = c THEN MostDebit ELSE 0]
<1>1. MaxChats \in Nat /\ Chats = 1 .. MaxChats BY AiRouterAssumption DEF AiRouterAssumption, Chats
<1>2. debits \in [Chats -> Nat] /\ MostDebit \in Nat BY DebitIsNat DEF LimitInv, RouterInv, RouterTypes
<1>3. chats'[c].stage = "checked" /\ Owner(c)' = o /\ ~ChatAt(c, "new") /\ o \in Payers
  BY OwnerIsPayer DEF ChatGoes, Owner, ChatAt, LimitInv, RouterInv
<1>4. blind \in Nat /\ overlaps \in Nat /\ debits[c] = 0 /\ SpendToday(o) \in Nat
  BY <1>3, SpendIsNat DEF LimitInv, LimitTypes, ChatAt
<1>5. overlaps' = (IF Unlogged(o) # {} THEN overlaps + 1 ELSE overlaps) /\ overlaps' \in Nat
  BY <1>4 DEF CountOverlap
<1>6. LimitTypes'
  BY <1>2, <1>3, <1>4, <1>5 DEF LimitInv, LimitTypes, ChatAt
<1>7. LogsShow'
  <2>1. ASSUME NEW w \in Payers PROVE SumTo(Ended(w)', MaxChats) <= SpendToday(w)' + blind'
    <3>1. ASSUME NEW d \in Chats PROVE Ended(w)'[d] = Ended(w)[d]
      <4>1. CASE d = c BY <1>3, <4>1 DEF Ended, ChatAt
      <4>2. CASE d # c BY <4>2 DEF Ended, ChatAt, Owner
      <4>. QED BY <4>1, <4>2
    <3>2. Ended(w)' = Ended(w) BY <3>1 DEF Ended
    <3>3. SpendToday(w)' = SpendToday(w) BY DEF SpendToday
    <3>. QED BY <3>2, <3>3 DEF LimitInv, LogsShow
  <2>. QED BY <2>1 DEF LogsShow
<1>8. /\ SumTo(t, MaxChats) = MostDebit /\ Numbers(t, MaxChats)
      /\ t[c] = MostDebit /\ \A d \in Chats \ {c} : t[d] = 0
  BY <1>1, <1>2, SumOfOne DEF Numbers
<1> HIDE DEF t
<1>9. ASSUME NEW w \in Payers, NEW d \in Chats PROVE Due(w)'[d] <= Due(w)[d] + t[d]
  <2>1. CASE d # c
    <3>1. Due(w)'[d] = Due(w)[d] BY <2>1 DEF Due, ChatAt, Owner
    <3>2. Due(w)[d] \in Nat BY <1>2 DEF Due
    <3>. QED BY <1>8, <2>1, <3>1, <3>2
  <2>2. CASE d = c
    <3>1. Due(w)'[c] <= MostDebit BY <1>2, <1>3 DEF Due, ChatAt, Between
    <3>2. Due(w)'[c] \in Nat /\ Due(w)[c] \in Nat BY <1>2, <1>3 DEF Due, ChatAt, Between
    <3>. QED BY <1>2, <1>8, <2>2, <3>1, <3>2
  <2>. QED BY <2>1, <2>2
<1>10. ASSUME NEW w \in Payers, w # o, NEW d \in Chats PROVE Due(w)'[d] <= Due(w)[d]
  <2>1. CASE d # c
    <3>1. Due(w)'[d] = Due(w)[d] BY <2>1 DEF Due, ChatAt, Owner
    <3>2. Due(w)[d] \in Nat BY <1>2 DEF Due
    <3>. QED BY <3>1, <3>2
  <2>2. CASE d = c
    <3>1. Due(w)'[c] = 0 BY <1>3, <1>10 DEF Due
    <3>2. Due(w)[c] \in Nat BY <1>2 DEF Due
    <3>. QED BY <2>2, <3>1, <3>2
  <2>. QED BY <2>1, <2>2
<1>11. ASSUME Unlogged(o) = {}, NEW w \in Payers, w = o, NEW d \in Chats
       PROVE  Due(w)'[d] <= Ended(w)[d] + t[d]
  <2>1. CASE d # c
    <3>1. Due(w)'[d] = Due(w)[d] BY <2>1 DEF Due, ChatAt, Owner
    <3>2. Due(w)[d] <= Ended(w)[d] /\ Due(w)[d] \in Nat /\ Ended(w)[d] \in Nat
      <4>1. ~ChatAt(d, "new") /\ Owner(d) = w => chats[d].stage \notin Between
        BY <1>11 DEF Unlogged
      <4>2. ~ChatAt(d, "done") /\ chats[d].stage \notin Between => debits[d] = 0
        BY DEF LimitInv, LimitTypes, ChatAt, Between
      <4>. QED BY <1>2, <4>1, <4>2 DEF Due, Ended
    <3>. QED BY <1>8, <2>1, <3>1, <3>2
  <2>2. CASE d = c
    <3>1. Due(w)'[c] <= MostDebit BY <1>2, <1>3 DEF Due, ChatAt, Between
    <3>2. Due(w)'[c] \in Nat /\ Ended(w)[c] \in Nat BY <1>2, <1>3 DEF Due, Ended, ChatAt, Between
    <3>. QED BY <1>2, <1>8, <2>2, <3>1, <3>2
  <2>. QED BY <2>1, <2>2
<1>12. \A w \in Payers :
         /\ Numbers(Ended(w), MaxChats) /\ Numbers(Due(w), MaxChats) /\ Numbers(Due(w)', MaxChats)
  BY AmountsAreNumbers DEF LimitInv, RouterInv
<1>13. ASSUME NEW w \in Payers, DailyLimit > 0
       PROVE  SumTo(Due(w)', MaxChats) <= LimitOf(overlaps', blind)
  <2>1. SumTo(Due(w)', MaxChats) \in Nat /\ SumTo(Due(w), MaxChats) \in Nat
        /\ SumTo(Ended(w), MaxChats) \in Nat
    BY <1>1, <1>12, SumIsNat
  <2>2. SumTo(Due(w), MaxChats) <= LimitOf(overlaps, blind) BY <1>13 DEF LimitInv, DueInLimit
  <2>3. SumTo(Due(w)', MaxChats) <= SumTo(Due(w), MaxChats) + MostDebit
    BY <1>1, <1>8, <1>9, <1>12, SumBelow
  <2>4. CASE Unlogged(o) # {}
    BY <1>4, <1>5, <2>1, <2>2, <2>3, <2>4, OneMoreDebit
  <2>5. CASE Unlogged(o) = {} /\ w # o
    <3>1. SumTo(Due(w)', MaxChats) <= SumTo(Due(w), MaxChats)
      BY <1>1, <1>10, <1>12, <2>5, SumAtMost
    <3>2. overlaps' = overlaps /\ LimitOf(overlaps, blind) \in Nat BY <1>4, <1>5, <2>5, MoreOverlaps
    <3>3. SumTo(Due(w)', MaxChats) <= LimitOf(overlaps, blind) BY <2>1, <2>2, <3>1, <3>2
    <3>. QED BY <3>2, <3>3
  <2>6. CASE Unlogged(o) = {} /\ w = o
    <3>1. SumTo(Due(w)', MaxChats) <= SumTo(Ended(w), MaxChats) + MostDebit
      BY <1>1, <1>8, <1>11, <1>12, <2>6, SumBelow
    <3>2. SumTo(Ended(w), MaxChats) <= SpendToday(w) + blind BY DEF LimitInv, LogsShow
    <3>3. SumTo(Due(w)', MaxChats) <= SpendToday(w) + blind + MostDebit
      BY <1>2, <1>4, <2>1, <2>6, <3>1, <3>2
    <3>4. ~(SpendToday(w) + Cost > DailyLimit) BY <1>13, <2>6 DEF OverLimit
    <3>5. SumTo(Due(w)', MaxChats) <= LimitOf(0, blind) BY <1>4, <2>1, <2>6, <3>3, <3>4, RoomForOne
    <3>6. /\ overlaps' = overlaps /\ LimitOf(0, blind) \in Nat /\ LimitOf(overlaps, blind) \in Nat
          /\ LimitOf(0, blind) <= LimitOf(overlaps, blind)
      BY <1>4, <1>5, <2>6, MoreOverlaps
    <3>7. SumTo(Due(w)', MaxChats) <= LimitOf(overlaps, blind) BY <2>1, <2>6, <3>5, <3>6
    <3>. QED BY <3>6, <3>7
  <2>. QED BY <2>4, <2>5, <2>6
<1>14. DueInLimit'
  <2>1. blind' = blind OBVIOUS
  <2>. QED BY <1>13, <2>1 DEF DueInLimit
<1>. QED BY <1>6, <1>7, <1>14 DEF LimitInv

(* The steps of a call. *)
LEMMA BeforeDebit ==
  ASSUME LimitInv, NEW c \in Chats, ~ChatAt(c, "proving"), ~ChatAt(c, "done")
  PROVE  debits[c] = 0 /\ debits[c] <= MostDebit
BY DebitIsNat DEF LimitInv, LimitTypes

LEMMA StageGoes ==
  ASSUME LimitInv, RouterInv', NEW c \in Chats, ~ChatAt(c, "new"), ~ChatAt(c, "done"),
         ~ChatAt(c, "proving"), NEW s, Goto(c, s),
         s \in (Between \ {"proving"}) \cup {"let_in", "refreshing", "done"},
         s \in Between => chats[c].stage \in Between,
         UNCHANGED <<debits, usage, blind, overlaps>>
  PROVE  LimitInv'
<1>1. ChatGoes(c, s) /\ \A d \in Chats \ {c} : chats'[d] = chats[d]
  BY StageMoves DEF LimitInv, RouterInv
<1>2. debits[c] = 0 /\ debits[c] <= MostDebit BY BeforeDebit
<1>3. s \in Between => chats[c].stage \in Between \ {"proving"} BY DEF ChatAt
<1>4. s \in Between \cup {"let_in", "refreshing", "done"} OBVIOUS
<1>. QED BY <1>1, <1>2, <1>3, <1>4, QuietGoes

LEMMA RateRefusedLimit ==
  ASSUME LimitInv, RouterInv', NEW c \in Chats, RateRefused(c)
  PROVE  LimitInv'
BY StageGoes DEF RateRefused, ChatAt, historyVars, Between

LEMMA RoutedLimit ==
  ASSUME LimitInv, RouterInv', NEW c \in Chats, Routed(c)
  PROVE  LimitInv'
<1>1. /\ chats[c].stage = "checked" /\ UNCHANGED <<debits, usage, blind, overlaps>>
      /\ Goto(c, "serving") \/ Goto(c, "done")
  BY DEF Routed, ChatAt, Answer
<1>. QED BY <1>1, StageGoes DEF ChatAt, Between

(* A call that fails shows a log without a cost at the most. *)
LEMMA FailsLimit ==
  ASSUME LimitInv, RouterInv', NEW c \in Chats, chats[c].stage \in Between \ {"proving"}, ChatFails(c),
         LogCall(Owner(c), 0, 0) \/ UNCHANGED <<usage, blind>>, UNCHANGED <<debits, overlaps>>
  PROVE  LimitInv'
<1>1. Goto(c, "done") /\ ~ChatAt(c, "new") /\ ~ChatAt(c, "done") /\ ~ChatAt(c, "proving")
  BY DEF ChatFails, Failed, Answer, ChatAt, Between
<1>2. CASE UNCHANGED <<usage, blind>> BY <1>1, <1>2, StageGoes
<1>3. CASE LogCall(Owner(c), 0, 0)
  <2>1. ChatGoes(c, "done") /\ \A d \in Chats \ {c} : chats'[d] = chats[d]
    BY <1>1, StageMoves DEF LimitInv, RouterInv
  <2>2. debits'[c] = 0 /\ debits'[c] <= MostDebit BY <1>1, BeforeDebit
  <2>3. Owner(c) \in Payers /\ usage \in Seq(Log) /\ Len(usage) <= MaxLogs /\ blind \in Nat
    BY <1>1, OwnerIsPayer DEF LimitInv, RouterInv, LimitTypes
  <2>4. /\ usage' \in Seq(Log) /\ Len(usage') <= MaxLogs /\ blind' \in Nat /\ blind' >= blind
        /\ \A w \in Payers :
             SpendToday(w) + blind + (IF w = Owner(c) THEN 0 ELSE 0) + 0 <= SpendToday(w)' + blind'
    BY <1>3, <2>3, LogCounts
  <2>5. \A w \in Payers : SpendToday(w) + blind + (IF w = Owner(c) THEN 0 ELSE 0)
                            <= SpendToday(w)' + blind'
    <3>1. ASSUME NEW w \in Payers
          PROVE  SpendToday(w) + blind + (IF w = Owner(c) THEN 0 ELSE 0) <= SpendToday(w)' + blind'
      <4>1. SpendToday(w) \in Nat BY SpendIsNat DEF LimitInv
      <4>2. SpendToday(w) + blind + 0 + 0 = SpendToday(w) + blind
        BY <2>3, <4>1
      <4>3. SpendToday(w) + blind + 0 = SpendToday(w) + blind BY <2>3, <4>1
      <4>. QED BY <2>4, <4>2, <4>3
    <3>. QED BY <3>1
  <2>6. "done" \in Between \cup {"let_in", "refreshing", "done"} /\ "done" \notin Between BY DEF Between
  <2>. QED BY <1>1, <2>1, <2>2, <2>4, <2>5, <2>6, OneGoes
<1>. QED BY <1>2, <1>3

LEMMA ServedLimit ==
  ASSUME LimitInv, RouterInv', NEW c \in Chats,
         Served(c) \/ EstimateFails(c) \/ Dequeued(c) \/ NotSpent(c)
  PROVE  LimitInv'
<1>1. chats[c].stage \in {"serving", "queued", "spending"} /\ UNCHANGED <<debits, overlaps>>
  BY DEF Served, EstimateFails, Dequeued, NotSpent, ChatAt
<1>2. \/ ChatFails(c) /\ (LogCall(Owner(c), 0, 0) \/ UNCHANGED <<usage, blind>>)
      \/ (Goto(c, "queued") \/ Goto(c, "spending")) /\ UNCHANGED <<usage, blind>>
  <2>1. CASE Served(c) BY <2>1 DEF Served
  <2>2. CASE EstimateFails(c) BY <2>2 DEF EstimateFails
  <2>3. CASE Dequeued(c) BY <2>3 DEF Dequeued
  <2>4. CASE NotSpent(c) BY <2>4 DEF NotSpent
  <2>. QED BY <2>1, <2>2, <2>3, <2>4
<1>3. CASE ChatFails(c) /\ (LogCall(Owner(c), 0, 0) \/ UNCHANGED <<usage, blind>>)
  <2>1. chats[c].stage \in Between \ {"proving"} BY <1>1 DEF Between
  <2>. QED BY <1>1, <1>3, <2>1, FailsLimit
<1>4. CASE (Goto(c, "queued") \/ Goto(c, "spending")) /\ UNCHANGED <<usage, blind>>
  BY <1>1, <1>4, StageGoes DEF ChatAt, Between
<1>. QED BY <1>2, <1>3, <1>4

LEMMA EstimateInMost == \A total \in Estimates : total \in Nat /\ total <= MostDebit
BY DebitIsNat DEF Estimates

LEMMA SpentLimit ==
  ASSUME LimitInv, RouterInv', NEW c \in Chats, Spent(c)
  PROVE  LimitInv'
<1>1. PICK total \in Estimates : debits' = [debits EXCEPT ![c] = total] BY DEF Spent
<1>2. /\ chats[c].stage = "spending" /\ Goto(c, "proving") /\ UNCHANGED <<usage, blind, overlaps>>
  BY DEF Spent, ChatAt
<1>3. debits \in [Chats -> Nat] BY DEF LimitInv, RouterInv, RouterTypes
<1>4. debits'[c] <= MostDebit /\ \A d \in Chats \ {c} : debits'[d] = debits[d]
  BY <1>1, <1>3, EstimateInMost
<1>5. ChatGoes(c, "proving") /\ \A d \in Chats \ {c} : chats'[d] = chats[d]
  BY <1>2, StageMoves DEF LimitInv, RouterInv, ChatAt
<1>6. "proving" \in Between /\ "spending" \in Between \ {"proving"} BY DEF Between
<1>. QED BY <1>2, <1>4, <1>5, <1>6, QuietGoes DEF ChatAt

LEMMA SpentUnheardLimit ==
  ASSUME LimitInv, RouterInv', NEW c \in Chats, SpentUnheard(c)
  PROVE  LimitInv'
<1>1. PICK total \in Estimates :
        debits' = [debits EXCEPT ![c] = total] /\ blind' = blind + total
  BY DEF SpentUnheard
<1>2. /\ chats[c].stage = "spending" /\ Goto(c, "done") /\ UNCHANGED <<usage, overlaps>>
  BY DEF SpentUnheard, ChatAt, Failed, Answer
<1>3. debits \in [Chats -> Nat] BY DEF LimitInv, RouterInv, RouterTypes
<1>4. /\ debits'[c] = total /\ total \in Nat /\ total <= MostDebit
      /\ \A d \in Chats \ {c} : debits'[d] = debits[d]
  BY <1>1, <1>3, EstimateInMost
<1>5. ChatGoes(c, "done") /\ \A d \in Chats \ {c} : chats'[d] = chats[d]
  BY <1>2, StageMoves DEF LimitInv, RouterInv, ChatAt
<1>6. "done" \notin Between /\ "spending" \in Between \ {"proving"} BY DEF Between
<1>7. usage \in Seq(Log) /\ Len(usage) <= MaxLogs /\ blind \in Nat BY DEF LimitInv, LimitTypes
<1>8. ASSUME NEW w \in Payers
      PROVE  SpendToday(w) + blind + (IF w = Owner(c) THEN total ELSE 0) <= SpendToday(w)' + blind'
  <2>1. SpendToday(w)' = SpendToday(w) BY <1>2 DEF SpendToday
  <2>2. SpendToday(w) \in Nat BY SpendIsNat DEF LimitInv
  <2>. QED BY <1>1, <1>4, <1>7, <2>1, <2>2
<1>9. blind' \in Nat /\ blind' >= blind BY <1>1, <1>4, <1>7
<1>10. total <= total BY <1>4
<1>11. usage' \in Seq(Log) /\ Len(usage') <= MaxLogs BY <1>2, <1>7
<1>12. ~ChatAt(c, "new") /\ ~ChatAt(c, "done") BY <1>2 DEF ChatAt
<1>13. debits'[c] <= MostDebit /\ debits'[c] <= total BY <1>4, <1>10
<1>14. "done" \in Between \cup {"let_in", "refreshing", "done"} /\ overlaps' = overlaps BY <1>2
<1>. QED BY <1>2, <1>4, <1>5, <1>6, <1>8, <1>9, <1>11, <1>12, <1>13, <1>14, OneGoes

LEMMA SettledLimit ==
  ASSUME LimitInv, RouterInv', NEW c \in Chats, Settled(c)
  PROVE  LimitInv'
<1>1. /\ chats[c].stage = "proving" /\ Goto(c, "done") /\ LogCall(Owner(c), debits[c], 0)
      /\ UNCHANGED <<debits, overlaps>>
  BY DEF Settled, ChatAt, Answer
<1>2. debits[c] \in Nat /\ debits[c] <= MostDebit
  BY DEF LimitInv, RouterInv, RouterTypes, LimitTypes
<1>3. ChatGoes(c, "done") /\ \A d \in Chats \ {c} : chats'[d] = chats[d]
  BY <1>1, StageMoves DEF LimitInv, RouterInv, ChatAt
<1>4. Owner(c) \in Payers /\ usage \in Seq(Log) /\ Len(usage) <= MaxLogs /\ blind \in Nat
  BY <1>1, OwnerIsPayer DEF LimitInv, RouterInv, LimitTypes, ChatAt
<1>5. /\ usage' \in Seq(Log) /\ Len(usage') <= MaxLogs /\ blind' \in Nat /\ blind' >= blind
      /\ \A w \in Payers :
           SpendToday(w) + blind + (IF w = Owner(c) THEN debits[c] ELSE 0) + 0
             <= SpendToday(w)' + blind'
  BY <1>1, <1>2, <1>4, LogCounts
<1>6. ASSUME NEW w \in Payers
      PROVE  SpendToday(w) + blind + (IF w = Owner(c) THEN debits[c] ELSE 0)
               <= SpendToday(w)' + blind'
  <2> DEFINE own == IF w = Owner(c) THEN debits[c] ELSE 0
  <2>1. own \in Nat /\ SpendToday(w) \in Nat BY <1>2, SpendIsNat DEF LimitInv
  <2>2. SpendToday(w) + blind + own + 0 <= SpendToday(w)' + blind' BY <1>5
  <2>. HIDE DEF own
  <2>3. SpendToday(w) + blind + own + 0 = SpendToday(w) + blind + own BY <1>4, <2>1
  <2>4. SpendToday(w) + blind + own <= SpendToday(w)' + blind' BY <2>2, <2>3
  <2>. QED BY <2>4 DEF own
<1>7. "done" \notin Between /\ debits'[c] <= debits[c] /\ debits'[c] <= MostDebit
  BY <1>1, <1>2 DEF Between
<1>8. ~ChatAt(c, "new") /\ ~ChatAt(c, "done") BY <1>1 DEF ChatAt
<1>9. /\ "done" \in Between \cup {"let_in", "refreshing", "done"} /\ overlaps' = overlaps
      /\ \A d \in Chats \ {c} : debits'[d] = debits[d]
  BY <1>1
<1>. QED BY <1>1, <1>2, <1>3, <1>5, <1>6, <1>7, <1>8, <1>9, OneGoes

LEMMA BeginLimit ==
  ASSUME LimitInv, RouterInv', NEW c \in Chats, Begin(c)
  PROVE  LimitInv'
<1> DEFINE w == Owner(c)
           p == policy[w]
           s == IF TurnedAway(c) THEN "done"
                ELSE IF p.chain = "pending" /\ MayRefresh(p) THEN "refreshing"
                ELSE Checked(w, p)
           q == IF s = "refreshing" THEN p ELSE NoRefresh
           e == wanted[w] \/ reverted[w]
<1>1. /\ chats[c].stage = "let_in" /\ ~ChatAt(c, "new") /\ ~ChatAt(c, "done") /\ ~ChatAt(c, "proving")
      /\ UNCHANGED <<debits, usage, blind>>
  BY DEF Begin, ChatAt
<1>2. s \in {"done", "refreshing", "checked"} /\ (s = "checked" => ~OverLimit(w)) BY DEF Checked
<1>3. Looked(c, s, q, e) /\ CountOverlap(w, s) BY DEF Begin, Looked
<1> HIDE DEF s, q, e
<1>4. ChatGoes(c, s) /\ \A d \in Chats \ {c} : chats'[d] = chats[d]
  BY <1>1, <1>3, LookedGoes DEF LimitInv, RouterInv
<1>5. CASE s = "checked" BY <1>1, <1>2, <1>3, <1>4, <1>5, ChecksLimit
<1>6. CASE s # "checked"
  <2>1. overlaps' = overlaps BY <1>3, <1>6 DEF CountOverlap, LimitInv, LimitTypes
  <2>2. debits[c] = 0 /\ debits[c] <= MostDebit BY <1>1, BeforeDebit
  <2>3. s \notin Between /\ s \in {"refreshing", "done"} BY <1>2, <1>6 DEF Between
  <2>. QED BY <1>1, <1>4, <2>1, <2>2, <2>3, QuietGoes
<1>. QED BY <1>5, <1>6

LEMMA RefreshedLimit ==
  ASSUME LimitInv, RouterInv', NEW c \in Chats, Refreshed(c)
  PROVE  LimitInv'
<1>1. /\ chats[c].stage = "refreshing" /\ ~ChatAt(c, "new") /\ ~ChatAt(c, "done")
      /\ ~ChatAt(c, "proving") /\ UNCHANGED <<debits, blind, usage>>
  BY DEF Refreshed, ChatAt
<1>2. PICK chain \in ChainReads(chats[c].seen) : GoesOnWith(c, chain) BY DEF Refreshed
<1> DEFINE w == Owner(c)
           s == Checked(w, [enabled |-> TRUE, chain |-> chain])
           e == wanted[w] \/ reverted'[w]
<1>3. Looked(c, s, NoRefresh, e) /\ CountOverlap(w, s) BY <1>2 DEF GoesOnWith, Looked
<1>4. s \in {"done", "checked"} /\ (s = "checked" => ~OverLimit(w)) BY DEF Checked
<1> HIDE DEF s, e
<1>5. ChatGoes(c, s) /\ \A d \in Chats \ {c} : chats'[d] = chats[d]
  BY <1>1, <1>3, LookedGoes DEF LimitInv, RouterInv
<1>6. CASE s = "checked" BY <1>1, <1>3, <1>4, <1>5, <1>6, ChecksLimit
<1>7. CASE s = "done"
  <2>1. overlaps' = overlaps BY <1>3, <1>7 DEF CountOverlap, LimitInv, LimitTypes
  <2>2. debits[c] = 0 /\ debits[c] <= MostDebit BY <1>1, BeforeDebit
  <2>3. s \notin Between BY <1>7 DEF Between
  <2>. QED BY <1>1, <1>5, <1>7, <2>1, <2>2, <2>3, QuietGoes
<1>. QED BY <1>4, <1>6, <1>7

(* Steps that neither debit nor log. *)
LEMMA NothingDue ==
  ASSUME LimitInv, RouterInv', LimitTypes', UNCHANGED <<usage, blind, overlaps>>,
         \A w \in Payers, d \in Chats : Due(w)'[d] <= Due(w)[d] /\ Ended(w)'[d] <= Ended(w)[d]
  PROVE  LimitInv'
<1> DEFINE t == [i \in 1 .. MaxChats |-> IF i = 1 THEN 0 ELSE 0]
<1>1. /\ MaxChats \in Nat /\ 1 \in 1 .. MaxChats /\ Chats = 1 .. MaxChats
  BY AiRouterAssumption DEF AiRouterAssumption, Chats
<1>2. /\ SumTo(t, MaxChats) = 0 /\ Numbers(t, MaxChats) /\ \A d \in Chats : t[d] = 0
  BY <1>1, SumOfOne DEF Numbers
<1> HIDE DEF t
<1>3. blind \in Nat /\ blind' >= blind BY DEF LimitInv, LimitTypes
<1>4. ASSUME NEW w \in Payers
      PROVE  /\ \A d \in Chats : Ended(w)'[d] <= Ended(w)[d] + t[d]
             /\ SpendToday(w) + blind + SumTo(t, MaxChats) <= SpendToday(w)' + blind'
  <2>1. SpendToday(w)' = SpendToday(w) BY DEF SpendToday
  <2>2. SpendToday(w) \in Nat BY SpendIsNat DEF LimitInv
  <2>3. ASSUME NEW d \in Chats PROVE Ended(w)'[d] <= Ended(w)[d] + t[d]
    <3>1. Ended(w)[d] \in Nat BY DEF Ended, LimitInv, RouterInv, RouterTypes
    <3>. QED BY <1>2, <3>1
  <2>. QED BY <1>2, <1>3, <2>1, <2>2, <2>3
<1>5. \A w \in Payers : \E u :
        /\ Numbers(u, MaxChats) /\ \A d \in Chats : Ended(w)'[d] <= Ended(w)[d] + u[d]
        /\ SpendToday(w) + blind + SumTo(u, MaxChats) <= SpendToday(w)' + blind'
  BY <1>2, <1>4
<1>6. \A w \in Payers, d \in Chats : Due(w)'[d] <= Due(w)[d] OBVIOUS
<1>. QED BY <1>3, <1>5, <1>6, LimitKept

LEMMA IdleLimit ==
  ASSUME LimitInv, RouterInv', UNCHANGED <<chats, debits, usage, blind, overlaps>>
  PROVE  LimitInv'
<1>1. LimitTypes' BY DEF LimitInv, LimitTypes, ChatAt
<1>2. ASSUME NEW w \in Payers, NEW d \in Chats
      PROVE  Due(w)'[d] <= Due(w)[d] /\ Ended(w)'[d] <= Ended(w)[d]
  <2>1. Due(w)' = Due(w) /\ Ended(w)' = Ended(w) BY DEF Due, Ended, ChatAt, Owner
  <2>2. Due(w)[d] \in Nat /\ Ended(w)[d] \in Nat
    BY DebitIsNat DEF Due, Ended, LimitInv, RouterInv, RouterTypes
  <2>. QED BY <2>1, <2>2
<1>. QED BY <1>1, <1>2, NothingDue

LEMMA AuthenticateLimit ==
  ASSUME LimitInv, RouterInv', NEW c \in Chats, NEW k \in ApiKeys, NEW i \in Idems \cup {NoIdem},
         Authenticate(c, k, i)
  PROVE  LimitInv'
<1> DEFINE v == [stage |-> "let_in", key |-> k, idem |-> i, consent |-> FALSE, seen |-> NoRefresh]
<1>1. /\ ChatAt(c, "new") /\ chats' = [chats EXCEPT ![c] = v]
      /\ UNCHANGED <<debits, usage, blind, overlaps>>
  BY DEF Authenticate, historyVars
<1>2. chats \in [Chats -> {NewCall} \cup Call] /\ debits \in [Chats -> Nat]
  BY DEF LimitInv, RouterInv, RouterTypes
<1>3. v.stage = "let_in" OBVIOUS
<1> HIDE DEF v
<1>4. chats'[c].stage = "let_in" /\ \A d \in Chats \ {c} : chats'[d] = chats[d] BY <1>1, <1>2, <1>3
<1>5. debits[c] = 0 BY <1>1, BeforeDebit DEF ChatAt
<1>6. LimitTypes' BY <1>1, <1>4, <1>5 DEF LimitInv, LimitTypes, ChatAt
<1>7. ASSUME NEW w \in Payers, NEW d \in Chats
      PROVE  Due(w)'[d] <= Due(w)[d] /\ Ended(w)'[d] <= Ended(w)[d]
  <2>1. Due(w)[d] \in Nat /\ Ended(w)[d] \in Nat BY <1>2, DebitIsNat DEF Due, Ended
  <2>2. CASE d # c
    <3>1. Due(w)'[d] = Due(w)[d] /\ Ended(w)'[d] = Ended(w)[d]
      BY <1>1, <1>4, <2>2 DEF Due, Ended, ChatAt, Owner
    <3>. QED BY <2>1, <3>1
  <2>3. CASE d = c
    <3>1. Due(w)'[c] = 0 /\ Ended(w)'[c] = 0
      BY <1>1, <1>4, <1>5 DEF Due, Ended, ChatAt, Between
    <3>. QED BY <2>1, <2>3, <3>1
  <2>. QED BY <2>2, <2>3
<1>. QED BY <1>1, <1>6, <1>7, NothingDue

(* What a restart cuts off after its debit is blind.                          *)
LEMMA RestartLimit ==
  ASSUME LimitInv, RouterInv', RouterRestarts
  PROVE  LimitInv'
<1>1. PICK landed \in SUBSET {c \in Chats : ChatAt(c, "spending")}, fee \in Fees :
        /\ debits' = [c \in Chats |-> IF c \in landed THEN Cost + fee ELSE debits[c]]
        /\ blind' = blind + SumTo([c \in Chats |->
             IF c \in landed \cup {d \in Chats : ChatAt(d, "proving")} THEN debits'[c] ELSE 0],
             MaxChats)
  BY DEF RouterRestarts
<1> DEFINE lost == landed \cup {d \in Chats : ChatAt(d, "proving")}
           t == [c \in Chats |-> IF c \in lost THEN debits'[c] ELSE 0]
<1>2. /\ chats' = [c \in Chats |-> IF ChatAt(c, "new") THEN chats[c]
                              ELSE [chats[c] EXCEPT !.stage = "done"]]
      /\ UNCHANGED <<usage, overlaps>>
  BY DEF RouterRestarts
<1>3. ASSUME NEW c \in Chats
      PROVE  /\ ChatAt(c, "new") => chats'[c].stage = "new"
             /\ ~ChatAt(c, "new") => chats'[c].stage = "done" /\ Owner(c)' = Owner(c)
  BY <1>2, OwnerIsPayer DEF LimitInv, RouterInv, Call, ChatAt, Owner
<1>4. /\ debits \in [Chats -> Nat] /\ debits' \in [Chats -> Nat] /\ MostDebit \in Nat
      /\ Cost + fee <= MostDebit
  BY DebitIsNat DEF LimitInv, RouterInv, RouterTypes
<1>5. MaxChats \in Nat /\ Chats = 1 .. MaxChats BY AiRouterAssumption DEF AiRouterAssumption, Chats
<1>6. Numbers(t, MaxChats) /\ \A c \in Chats : t[c] = IF c \in lost THEN debits'[c] ELSE 0
  BY <1>4, <1>5 DEF Numbers
<1>7. blind' = blind + SumTo(t, MaxChats) BY <1>1
<1>8. ASSUME NEW c \in Chats
      PROVE  /\ c \in landed => chats[c].stage = "spending" /\ debits'[c] <= MostDebit
             /\ c \notin landed => debits'[c] = debits[c]
  BY <1>1, <1>4 DEF ChatAt
<1>9. ASSUME NEW c \in Chats
      PROVE  debits[c] <= MostDebit /\ (~ChatAt(c, "proving") /\ ~ChatAt(c, "done") => debits[c] = 0)
  BY DEF LimitInv, LimitTypes
<1>10. SumTo(t, MaxChats) \in Nat /\ blind \in Nat
  <2> HIDE DEF t
  <2>. QED BY <1>5, <1>6, SumIsNat DEF LimitInv, LimitTypes
<1> HIDE DEF t
<1>11. blind' \in Nat /\ blind' >= blind BY <1>7, <1>10
<1>12. LimitTypes'
  <2>1. ASSUME NEW c \in Chats
        PROVE  /\ debits'[c] <= MostDebit
               /\ ~(chats'[c].stage = "proving") /\ ~(chats'[c].stage = "done") => debits'[c] = 0
    <3>1. debits'[c] <= MostDebit BY <1>8, <1>9
    <3>2. CASE ChatAt(c, "new") BY <1>8, <1>9, <3>1, <3>2 DEF ChatAt
    <3>3. CASE ~ChatAt(c, "new") BY <1>3, <3>1, <3>3
    <3>. QED BY <3>2, <3>3
  <2>. QED BY <1>2, <1>11, <2>1 DEF LimitInv, LimitTypes, ChatAt
<1>13. ASSUME NEW w \in Payers, NEW c \in Chats PROVE Due(w)'[c] <= Due(w)[c]
  <2>1. CASE ChatAt(c, "new")
    <3>1. Due(w)'[c] = 0 /\ Due(w)[c] = 0 BY <1>3, <2>1 DEF Due, ChatAt
    <3>. QED BY <3>1
  <2>2. CASE ~ChatAt(c, "new")
    <3>1. Due(w)'[c] = IF Owner(c) # w THEN 0 ELSE debits'[c]
      BY <1>3, <2>2 DEF Due, ChatAt, Between
    <3>2. Due(w)[c] = IF Owner(c) # w THEN 0
                      ELSE IF chats[c].stage \in Between \ {"proving"} THEN MostDebit ELSE debits[c]
      BY <2>2 DEF Due
    <3>3. debits[c] \in Nat /\ debits'[c] \in Nat BY <1>4
    <3>4. c \in landed => chats[c].stage \in Between \ {"proving"} BY <1>8 DEF Between
    <3>. QED BY <1>4, <1>8, <1>9, <3>1, <3>2, <3>3, <3>4
  <2>. QED BY <2>1, <2>2
<1>14. ASSUME NEW w \in Payers, NEW c \in Chats PROVE Ended(w)'[c] <= Ended(w)[c] + t[c]
  <2>1. Ended(w)[c] \in Nat /\ t[c] \in Nat BY <1>4, <1>6 DEF Ended
  <2>2. CASE ChatAt(c, "new")
    <3>1. Ended(w)'[c] = 0 BY <1>3, <2>2 DEF Ended, ChatAt
    <3>. QED BY <2>1, <3>1
  <2>3. CASE ~ChatAt(c, "new")
    <3>1. Ended(w)'[c] = IF Owner(c) = w THEN debits'[c] ELSE 0 BY <1>3, <2>3 DEF Ended, ChatAt
    <3>2. CASE c \in lost
      <4>1. t[c] = debits'[c] BY <1>6, <3>2
      <4>. QED BY <1>4, <2>1, <3>1, <4>1
    <3>3. CASE c \notin lost
      <4>1. c \notin landed /\ ~ChatAt(c, "proving") BY <3>3
      <4>2. debits'[c] = debits[c] /\ (~ChatAt(c, "done") => debits[c] = 0) BY <1>8, <1>9, <4>1
      <4>3. Ended(w)[c] = IF ChatAt(c, "done") /\ Owner(c) = w THEN debits[c] ELSE 0 BY DEF Ended
      <4>. QED BY <1>4, <2>1, <3>1, <4>2, <4>3
    <3>. QED BY <3>2, <3>3
  <2>. QED BY <2>2, <2>3
<1>15. ASSUME NEW w \in Payers
       PROVE  SpendToday(w) + blind + SumTo(t, MaxChats) <= SpendToday(w)' + blind'
  <2>1. SpendToday(w)' = SpendToday(w) BY <1>2 DEF SpendToday
  <2>2. SpendToday(w) \in Nat BY SpendIsNat DEF LimitInv
  <2>. QED BY <1>7, <1>10, <2>1, <2>2
<1>16. \A w \in Payers : \E u :
        /\ Numbers(u, MaxChats) /\ \A d \in Chats : Ended(w)'[d] <= Ended(w)[d] + u[d]
        /\ SpendToday(w) + blind + SumTo(u, MaxChats) <= SpendToday(w)' + blind'
  BY <1>6, <1>14, <1>15
<1>17. overlaps' = overlaps BY <1>2
<1>. QED BY <1>11, <1>12, <1>13, <1>16, <1>17, LimitKept

LEMMA LimitInvInit == AiRouterInit => LimitInv
<1>. SUFFICES ASSUME AiRouterInit PROVE LimitInv OBVIOUS
<1> DEFINE t == [i \in 1 .. MaxChats |-> IF i = 1 THEN 0 ELSE 0]
<1>1. /\ MaxChats \in Nat /\ 1 \in 1 .. MaxChats /\ Chats = 1 .. MaxChats /\ MaxLogs \in Nat
  BY AiRouterAssumption DEF AiRouterAssumption, Chats
<1>2. SumTo(t, MaxChats) = 0 BY <1>1, SumOfOne
<1>3. RouterInv BY RouterInvInit
<1>4. usage = <<>> /\ blind = 0 /\ overlaps = 0 /\ debits = [c \in Chats |-> 0] BY DEF AiRouterInit
<1>5. LimitTypes BY <1>1, <1>4, DebitIsNat DEF LimitTypes
<1>6. ASSUME NEW w \in Payers PROVE Due(w) = t /\ Ended(w) = t
  <2>1. \A c \in Chats : ChatAt(c, "new") BY DEF AiRouterInit, ChatAt, NewCall
  <2>2. \A c \in Chats : ~ChatAt(c, "done") BY <2>1 DEF ChatAt
  <2>3. Due(w) = [c \in Chats |-> 0] BY <2>1 DEF Due
  <2>4. Ended(w) = [c \in Chats |-> 0] BY <2>2 DEF Ended
  <2>. QED BY <1>1, <2>3, <2>4
<1>7. ASSUME NEW w \in Payers PROVE SpendToday(w) \in Nat BY <1>5, SpendIsNat
<1> HIDE DEF t
<1>8. LogsShow BY <1>2, <1>4, <1>6, <1>7 DEF LogsShow
<1>9. LimitOf(0, 0) \in Nat BY LimitIsNat
<1>10. DueInLimit BY <1>2, <1>4, <1>6, <1>9 DEF DueInLimit
<1>. QED BY <1>3, <1>5, <1>8, <1>10 DEF LimitInv

LEMMA LimitInvStep ==
  ASSUME LimitInv, AiRouterNext
  PROVE  LimitInv'
<1>1. RouterInv' BY RouterInvStep DEF LimitInv
<1>2. ASSUME NEW k \in ApiKeys, IssueKey(k) \/ RevokeKey(k) PROVE LimitInv'
  BY <1>1, <1>2, IdleLimit DEF IssueKey, RevokeKey, callVars, historyVars
<1>3. ASSUME NEW w \in Payers, NEW p \in Policy,
             SetPolicy(w, p) \/ ReadinessStart(w) \/ ReadinessEnd(w) \/ SlotExpires(w)
      PROVE  LimitInv'
  BY <1>1, <1>3, IdleLimit DEF SetPolicy, ReadinessStart, ReadinessEnd, SlotExpires, callVars,
     historyVars
<1>4. ASSUME NEW a \in answers, AnswerExpires(a) PROVE LimitInv'
  BY <1>1, <1>4, IdleLimit DEF AnswerExpires, historyVars
<1>5. ASSUME NEW c \in Chats, ClientLeaves(c) PROVE LimitInv'
  BY <1>1, <1>5, IdleLimit DEF ClientLeaves
<1>6. NoRefresh \in Policy BY DEF NoRefresh, Policy, ChainStatuses
<1>. QED
  BY <1>1, <1>2, <1>3, <1>4, <1>5, <1>6, AuthenticateLimit, BeginLimit, RateRefusedLimit,
     RefreshedLimit, RoutedLimit, ServedLimit, SpentLimit, SpentUnheardLimit, SettledLimit,
     RestartLimit
  DEF AiRouterNext

THEOREM LimitInvHolds == AiRouterSpec => []LimitInv
<1>1. LimitInv /\ UNCHANGED aiVars => LimitInv'
  <2>1. RouterInv /\ UNCHANGED aiVars => RouterInv'
    BY DEF aiVars, RouterInv, RouterTypes, SpendsInSlot, Consents, ChatAt, Owner
  <2>. QED BY <2>1, IdleLimit DEF aiVars, LimitInv
<1>2. LimitInv /\ [AiRouterNext]_aiVars => LimitInv' BY <1>1, LimitInvStep
<1>. QED BY <1>2, LimitInvInit, PTL DEF AiRouterSpec

(* LimitOvershoot for any prices, fees, number of calls and faults: the debits *)
(* of a wallet pass the daily limit by one fee, by a debit for every call that *)
(* was checked beside an unlogged one, and by what the logs have lost         *)
(* (openAiChatCompletions, ownerSpendToday, addUsageLog).                     *)
THEOREM SpecLimitOvershoot == AiRouterSpec => []LimitOvershoot
<1>1. ASSUME LimitInv PROVE LimitOvershoot
  <2>1. ASSUME DailyLimit > 0, NEW w \in Payers
        PROVE  DebitedOf(w) <= DailyLimit + Max(Fees) + overlaps * (Cost + Max(Fees)) + blind
    <3> DEFINE v == [c \in Chats |-> IF c \in Debited /\ Owner(c) = w THEN debits[c] ELSE 0]
    <3>1. MaxChats \in Nat /\ Chats = 1 .. MaxChats BY AiRouterAssumption DEF AiRouterAssumption, Chats
    <3>2. debits \in [Chats -> Nat] BY <1>1 DEF LimitInv, RouterInv, RouterTypes
    <3>3. Numbers(v, MaxChats) BY <3>1, <3>2 DEF Numbers
    <3>4. Numbers(Due(w), MaxChats) BY <1>1, AmountsAreNumbers DEF LimitInv, RouterInv
    <3>5. ASSUME NEW c \in Chats PROVE v[c] <= Due(w)[c]
      <4>1. debits[c] > 0 => ChatAt(c, "proving") \/ ChatAt(c, "done")
        BY <1>1, <3>2 DEF LimitInv, LimitTypes
      <4>2. Due(w)[c] \in Nat BY <3>2, DebitIsNat DEF Due
      <4>3. ASSUME c \in Debited, Owner(c) = w PROVE Due(w)[c] = debits[c]
        <5>1. ChatAt(c, "proving") \/ ChatAt(c, "done") BY <4>1, <4>3 DEF Debited
        <5>. QED BY <4>3, <5>1 DEF Due, ChatAt, Between
      <4>. QED BY <3>2, <4>2, <4>3
    <3>6. DebitedOf(w) = SumTo(v, MaxChats) BY DEF DebitedOf
    <3> HIDE DEF v
    <3>7. SumTo(v, MaxChats) <= SumTo(Due(w), MaxChats) BY <3>1, <3>3, <3>4, <3>5, SumAtMost
    <3>8. SumTo(v, MaxChats) \in Nat /\ SumTo(Due(w), MaxChats) \in Nat
      BY <3>1, <3>3, <3>4, SumIsNat
    <3>9. SumTo(Due(w), MaxChats) <= LimitOf(overlaps, blind)
      BY <1>1, <2>1 DEF LimitInv, DueInLimit
    <3>10. LimitOf(overlaps, blind) \in Nat BY <1>1, LimitIsNat DEF LimitInv, LimitTypes
    <3>11. DebitedOf(w) <= LimitOf(overlaps, blind) BY <3>6, <3>7, <3>8, <3>9, <3>10
    <3>. QED BY <3>11 DEF LimitOf, MostDebit
  <2>. QED BY <2>1 DEF LimitOvershoot
<1>. QED BY <1>1, LimitInvHolds, PTL

--------------------------------------------------------------------------------
(* What the type invariant of the AI Router says beyond those above.          *)

Memory == ApiKeys \X (Idems \cup {NoIdem})
MemoryTypes ==
  /\ keys \in [ApiKeys -> {"none", "active", "revoked"}]
  /\ answers \subseteq Memory /\ inflight \subseteq Memory
  /\ gone \subseteq Chats /\ overrun \subseteq Chats
  /\ routerChanges \in 0 .. MaxChanges /\ faults \in 0 .. RouterFaults

LEMMA CacheKeyInMemory ==
  ASSUME RouterTypes, NEW c \in Chats, ~ChatAt(c, "new")
  PROVE  CacheKey(c) \in Memory
<1>1. chats[c].key \in ApiKeys /\ chats[c].idem \in Idems \cup {NoIdem}
  BY OwnerIsPayer DEF Call
<1>. QED BY <1>1 DEF CacheKey, Memory

(* What a step may do to the memory and the counters of the process.          *)
LEMMA MemoryKept ==
  ASSUME MemoryTypes,
         keys' = keys \/ \E k \in ApiKeys, s \in {"active", "revoked"} : keys' = [keys EXCEPT ![k] = s],
         answers' \subseteq Memory, inflight' \subseteq Memory,
         gone' \subseteq Chats, overrun' \subseteq Chats,
         routerChanges' = routerChanges \/ Change, faults' = faults \/ Trouble
  PROVE  MemoryTypes'
<1>1. keys' \in [ApiKeys -> {"none", "active", "revoked"}] BY DEF MemoryTypes
<1>2. routerChanges' \in 0 .. MaxChanges
  BY AiRouterAssumption DEF AiRouterAssumption, MemoryTypes, Change
<1>3. faults' \in 0 .. RouterFaults
  BY AiRouterAssumption DEF AiRouterAssumption, MemoryTypes, Trouble
<1>. QED BY <1>1, <1>2, <1>3 DEF MemoryTypes, Memory, ApiKeys, Chats

LEMMA MemoryStep ==
  ASSUME RouterTypes, MemoryTypes, AiRouterNext
  PROVE  MemoryTypes'
<1>1. ASSUME UNCHANGED <<keys, answers, gone, overrun, routerChanges>>, inflight' \subseteq Memory,
             faults' = faults \/ Trouble
      PROVE  MemoryTypes'
  BY <1>1, MemoryKept DEF MemoryTypes
<1>2. ASSUME NEW c, Responds(c) PROVE inflight' \subseteq Memory
  BY <1>2 DEF Responds, MemoryTypes
<1>3. ASSUME NEW c, ChatFails(c) PROVE inflight' \subseteq Memory
  BY <1>2, <1>3 DEF ChatFails, Failed, Answer
<1>4. ASSUME NEW k \in ApiKeys, IssueKey(k) \/ RevokeKey(k) PROVE MemoryTypes'
  BY <1>4, MemoryKept DEF IssueKey, RevokeKey, MemoryTypes, callVars, historyVars
<1>5. ASSUME NEW w \in Payers,
             (\E p \in Policy : SetPolicy(w, p)) \/ ReadinessStart(w) \/ ReadinessEnd(w)
      PROVE  MemoryTypes'
  <2>1. UNCHANGED <<keys, answers, inflight, gone, overrun, faults>>
        /\ (routerChanges' = routerChanges \/ Change)
    BY <1>5 DEF SetPolicy, ReadinessStart, ReadinessEnd, WriteBack, storeVars, callVars, historyVars
  <2>. QED BY <2>1, MemoryKept DEF MemoryTypes
<1>6. ASSUME NEW w \in Payers, SlotExpires(w) PROVE MemoryTypes'
  <2>1. slot[w] \in Chats BY <1>6 DEF RouterTypes, SlotExpires
  <2>2. /\ UNCHANGED <<keys, answers, inflight, gone, routerChanges>> /\ Trouble
        /\ overrun' = overrun \cup {slot[w]}
    BY <1>6 DEF SlotExpires, storeVars
  <2>. QED BY <2>1, <2>2, MemoryKept DEF MemoryTypes
<1>7. ASSUME NEW c \in Chats, NEW k \in ApiKeys, NEW i \in Idems \cup {NoIdem}, Authenticate(c, k, i)
      PROVE  MemoryTypes'
  BY <1>1, <1>7 DEF Authenticate, storeVars, historyVars, MemoryTypes
<1>8. ASSUME NEW c \in Chats, Begin(c) PROVE MemoryTypes'
  <2>1. CacheKey(c) \in Memory BY <1>8, CacheKeyInMemory DEF Begin, ChatAt
  <2>2. inflight' = inflight \/ inflight' = inflight \cup {CacheKey(c)} BY <1>8 DEF Begin
  <2>3. UNCHANGED <<keys, answers, gone, overrun, routerChanges, faults>> BY <1>8 DEF Begin, storeVars
  <2>. QED BY <1>1, <2>1, <2>2, <2>3 DEF MemoryTypes
<1>9. ASSUME NEW c \in Chats, RateRefused(c) \/ Refreshed(c) \/ Routed(c) PROVE MemoryTypes'
  <2>1. CASE RateRefused(c)
    BY <1>1, <2>1 DEF RateRefused, storeVars, historyVars, MemoryTypes
  <2>2. CASE Refreshed(c)
    <3>1. PICK chain : GoesOnWith(c, chain) BY <2>2 DEF Refreshed
    <3>2. keys' = keys /\ (inflight' = inflight \/ Responds(c)) BY <3>1 DEF GoesOnWith, WriteBack
    <3>3. UNCHANGED <<answers, gone, overrun, routerChanges, faults>> BY <2>2 DEF Refreshed
    <3>. QED BY <1>1, <1>2, <3>2, <3>3 DEF MemoryTypes
  <2>3. CASE Routed(c)
    <3>1. UNCHANGED <<keys, answers, gone, overrun, routerChanges, faults>>
      BY <2>3 DEF Routed, storeVars
    <3>2. inflight' = inflight \/ Responds(c) BY <2>3 DEF Routed, Answer
    <3>. QED BY <1>1, <1>2, <3>1, <3>2 DEF MemoryTypes
  <2>. QED BY <1>9, <2>1, <2>2, <2>3
<1>10. ASSUME NEW c \in Chats, EstimateFails(c) \/ Served(c) \/ Dequeued(c) \/ Spent(c) \/ NotSpent(c)
       PROVE  MemoryTypes'
  <2>1. UNCHANGED <<keys, answers, gone, overrun, routerChanges, faults>>
    BY <1>10 DEF EstimateFails, Served, Dequeued, Spent, NotSpent, storeVars
  <2>2. inflight' = inflight \/ ChatFails(c)
    BY <1>10 DEF EstimateFails, Served, Dequeued, Spent, NotSpent
  <2>. QED BY <1>1, <1>3, <2>1, <2>2 DEF MemoryTypes
<1>11. ASSUME NEW c \in Chats, SpentUnheard(c) PROVE MemoryTypes'
  <2>1. Responds(c) /\ UNCHANGED <<keys, answers, gone, overrun, routerChanges>> /\ Trouble
    BY <1>11 DEF SpentUnheard, Failed, Answer, storeVars
  <2>. QED BY <1>1, <1>2, <2>1
<1>12. ASSUME NEW c \in Chats, Settled(c) PROVE MemoryTypes'
  <2>1. CacheKey(c) \in Memory BY <1>12, CacheKeyInMemory DEF Settled, ChatAt
  <2>2. answers' = answers \/ answers' = answers \cup {CacheKey(c)} BY <1>12 DEF Settled
  <2>3. Responds(c) /\ UNCHANGED <<keys, gone, overrun, routerChanges, faults>>
    BY <1>12 DEF Settled, Answer, storeVars
  <2>. QED BY <1>2, <2>1, <2>2, <2>3, MemoryKept DEF MemoryTypes
<1>13. ASSUME NEW c \in Chats, ClientLeaves(c) PROVE MemoryTypes'
  <2>1. /\ gone' = gone \cup {c} /\ (overrun' = overrun \/ overrun' = overrun \cup {c})
        /\ Responds(c) /\ UNCHANGED <<keys, answers, routerChanges>> /\ Trouble
    BY <1>13 DEF ClientLeaves, storeVars
  <2>. QED BY <1>2, <2>1, MemoryKept DEF MemoryTypes
<1>14. ASSUME NEW a, AnswerExpires(a) PROVE MemoryTypes'
  <2>1. /\ answers' = answers \ {a} /\ UNCHANGED <<keys, inflight, gone, overrun, routerChanges>>
        /\ Trouble
    BY <1>14 DEF AnswerExpires, storeVars, historyVars
  <2>. QED BY <2>1, MemoryKept DEF MemoryTypes
<1>15. CASE RouterRestarts
  <2>1. /\ answers' = {} /\ inflight' = {} /\ UNCHANGED <<keys, gone, overrun, routerChanges>>
        /\ Trouble
    BY <1>15 DEF RouterRestarts, storeVars
  <2>. QED BY <2>1, MemoryKept DEF MemoryTypes
<1>. QED
  BY <1>4, <1>5, <1>6, <1>7, <1>8, <1>9, <1>10, <1>11, <1>12, <1>13, <1>14, <1>15 DEF AiRouterNext

(* AiRouterTypeOK for any numbers of calls, keys, owners and faults: the keys   *)
(* held in memory are keys of calls, and no more logs are kept than asked       *)
(* (aiResponseCache, aiInflight, addUsageLog).                                *)
THEOREM RouterTypesHold == AiRouterSpec => []AiRouterTypeOK
<1>1. AiRouterInit => MemoryTypes
  BY AiRouterAssumption DEF AiRouterInit, AiRouterAssumption, MemoryTypes
<1>2. RouterInv /\ MemoryTypes /\ [AiRouterNext]_aiVars => MemoryTypes'
  <2>1. RouterInv /\ MemoryTypes /\ UNCHANGED aiVars => MemoryTypes'
    BY DEF aiVars, MemoryTypes
  <2>. QED BY <2>1, MemoryStep DEF RouterInv
<1>3. RouterInv /\ MemoryTypes /\ ChargeInv /\ LimitInv => AiRouterTypeOK
  <2>. SUFFICES ASSUME RouterTypes, MemoryTypes, CallsOK, LimitTypes PROVE AiRouterTypeOK
    BY DEF RouterInv, ChargeInv, LimitInv
  <2>1. \A c \in Chats : chats[c].stage \in Between \cup {"new", "let_in", "refreshing", "done"}
    BY DEF RouterTypes, Call, NewCall
  <2>2. answers \cup inflight \subseteq ApiKeys \X (Idems \cup {NoIdem}) /\ gone \cup overrun \subseteq Chats
    BY DEF MemoryTypes, Memory
  <2>. QED BY <2>1, <2>2 DEF AiRouterTypeOK, RouterTypes, MemoryTypes, CallsOK, LimitTypes
<1>. QED BY <1>1, <1>2, <1>3, RouterInvHolds, ChargeInvHolds, LimitInvHolds, PTL DEF AiRouterSpec

--------------------------------------------------------------------------------
(* The four as the run composes them. *)

(* A behaviour of the four together is a behaviour of each.                   *)
THEOREM AccountRefinesEach ==
  AccountSpec => AiRouterSpec /\ SessionKeysSpec /\ AccessSpec /\ FileLockSpec
<1>1. AccountInit => AiRouterInit /\ SessionKeysInit /\ AccessInit /\ FileLockInit BY DEF AccountInit
<1>2. [AccountNext]_accountVars
        => [AiRouterNext]_aiVars /\ [SessionKeysNext]_skVars /\ [AccessNext]_accessVars
           /\ [FileLockNext]_lockVars
  BY DEF AccountNext, accountVars
<1>. QED
  BY <1>1, <1>2, PTL DEF AccountSpec, AiRouterSpec, SessionKeysSpec, AccessSpec, FileLockSpec

(* AccountTypeOK for any calls, owners, grants, writers and faults: the router, *)
(* the session keys, the grants and the locked files keep their shape          *)
(* (aiRouterStore.mjs, sessionKeyService.mjs, mcpServer.mjs, vaultStore.mjs).  *)
THEOREM SpecAccountTypeOK == AccountSpec => []AccountTypeOK
<1>1. KeysInv => SessionKeysTypeOK BY DEF KeysInv
<1>2. AccessInv => AccessTypeOK BY DEF AccessInv
<1>3. LockInv => FileLockTypeOK BY DEF LockInv
<1>4. AiRouterTypeOK /\ SessionKeysTypeOK /\ AccessTypeOK /\ FileLockTypeOK => AccountTypeOK
  BY DEF AccountTypeOK
<1>. QED
  BY <1>1, <1>2, <1>3, <1>4, AccountRefinesEach, RouterTypesHold, KeysInvHolds, AccessInvHolds,
     LockInvHolds, PTL
================================================================================
