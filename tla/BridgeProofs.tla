----------------------------- MODULE BridgeProofs -----------------------------
(***************************************************************************)
(* Theorems about the bridge, for any number of calls, owners and previews  *)
(* and any bounds: the auto-mint worker (AutoMint), the destination mint     *)
(* (BridgeMint) and the source half with quotes and burns (BridgeSource).    *)
(***************************************************************************)
EXTENDS MCBridge, FiniteSetTheorems, WellFoundedInduction, SequenceTheorems, TLAPS

(* Nothing runs before the module has been loaded; a loop and a timer have a *)
(* job.                                                                      *)
JobInv ==
  /\ AutoMintTypeOK
  /\ server \in {"booting", "hydrated"} =>
       ~busy /\ ~timer /\ \A c \in Starts : starts[c].stage \in {"new", "done"}
  /\ Loops # {} \/ timer => job # NoJob

(* Calls that have been granted the lease, whether or not they hold it.      *)
Admitted == {c \in Starts : starts[c].stage \in {"granted", "loop", "polling"}}

(* With a database, whoever polls without the lease is paid for by a lapse;  *)
(* without one, the worker set admits one loop.                              *)
LeaseInv ==
  /\ \A c \in releases : starts[c].stage = "done"
  /\ IF leased
     THEN /\ holder # NoStart => row # NoJob
          /\ IsFiniteSet(Admitted \ {holder}) /\ Cardinality(Admitted \ {holder}) <= lapses
     ELSE /\ Claiming = {}
          /\ \A c, d \in Loops : c = d
          /\ Loops # {} => busy

(* Before anything was left unanswered there is one owner, and the first to  *)
(* name it is the row where there is a database, the map where there is none.*)
OwnedBy(o) ==
  /\ \A j \in {job, jobFile, row} \cup upserts : j # NoJob => j.owner = o
  /\ \A c \in Starts :
       /\ starts[c].stage = "granted" => starts[c].owner = o
       /\ starts[c].stage = "refused" => starts[c].answer.owner = o
       /\ starts[c].stage = "polling" => starts[c].current.owner = o

Unclaimed ==
  /\ jobFile = NoJob /\ row = NoJob /\ upserts = {}
  /\ \A c \in Starts : starts[c].stage \notin {"granted", "refused", "polling"}

OwnerInv ==
  ~unheard =>
    /\ \E o \in BurnOwners : OwnedBy(o)
    /\ IF leased THEN row = NoJob => job = NoJob /\ Unclaimed
       ELSE /\ row = NoJob /\ upserts = {}
            /\ server # "booting" => (job = NoJob => Unclaimed)

(* What NoSilentPolling says of a running server holds while it resumes.     *)
PollingInv ==
  (server \in {"resumed", "up"} /\ job # NoJob /\ job.status = "polling") =>
    Loops # {} \/ Claiming # {} \/ refused

--------------------------------------------------------------------------------
(* A set that has gained one element at most. *)
LEMMA OneMore ==
  ASSUME NEW S, NEW T, NEW x, IsFiniteSet(S), T \subseteq S \cup {x}
  PROVE  /\ IsFiniteSet(T) /\ Cardinality(T) \in Nat /\ Cardinality(S) \in Nat
         /\ Cardinality(T) <= Cardinality(S) + 1
  <1>. DEFINE U == S \cup {x}
  <1>1. IsFiniteSet(U) /\ Cardinality(U) = IF x \in S THEN Cardinality(S) ELSE Cardinality(S) + 1
    BY FS_AddElement
  <1>. HIDE DEF U
  <1>2. IsFiniteSet(T) /\ Cardinality(T) <= Cardinality(U)
    BY <1>1, FS_Subset DEF U
  <1>3. Cardinality(T) \in Nat /\ Cardinality(S) \in Nat /\ Cardinality(U) \in Nat
    BY <1>1, <1>2, FS_CardinalityType
  <1>. QED
    BY <1>1, <1>2, <1>3

LEMMA NoMore ==
  ASSUME NEW S, NEW T, IsFiniteSet(S), T \subseteq S
  PROVE  /\ IsFiniteSet(T) /\ Cardinality(T) \in Nat /\ Cardinality(S) \in Nat
         /\ Cardinality(T) <= Cardinality(S)
  BY FS_Subset, FS_CardinalityType

--------------------------------------------------------------------------------
(* The records of a call and of a job. *)

LEMMA StartRecordStages ==
  ASSUME NEW r \in StartRecord
  PROVE  /\ r.stage \in {"reading", "claiming", "granted", "seen"} => r.owner \in BurnOwners
         /\ r.stage = "seen" => r.seen \in Job \cup {NoJob}
         /\ r.stage = "refused" => r.answer \in Job
         /\ r.stage = "loop" => r.polls \in 0 .. MaxPolls
         /\ r.stage = "polling" => r.polls \in 0 .. MaxPolls - 1 /\ r.current \in Job
  BY DEF StartRecord

LEMMA StartRecordsBuilt ==
  /\ \A s \in {"new", "done"} : [stage |-> s] \in StartRecord
  /\ \A o \in BurnOwners :
       /\ \A s \in {"reading", "claiming", "granted"} : [stage |-> s, owner |-> o] \in StartRecord
       /\ \A j \in Job \cup {NoJob} : [stage |-> "seen", owner |-> o, seen |-> j] \in StartRecord
  /\ \A j \in Job : [stage |-> "refused", answer |-> j] \in StartRecord
  /\ \A n \in 0 .. MaxPolls : [stage |-> "loop", polls |-> n] \in StartRecord
  /\ \A n \in 0 .. MaxPolls - 1, j \in Job :
       [stage |-> "polling", polls |-> n, current |-> j] \in StartRecord
  BY DEF StartRecord

(* Conversions of a job keep its owner. *)
LEMMA JobsBuilt ==
  /\ \A o \in BurnOwners : Polling(o) \in Job /\ Polling(o).owner = o /\ Polling(o).status = "polling"
  /\ \A j \in Job :
       /\ j # NoJob
       /\ Stored(j) \in Job /\ Stored(j).owner = j.owner
       /\ [j EXCEPT !.status = "ready"] \in Job
       /\ [j EXCEPT !.status = "ready"].owner = j.owner
       /\ [j EXCEPT !.status = "ready"].status = "ready"
       /\ [j EXCEPT !.status = "retryable", !.next = "number"] \in Job
       /\ [j EXCEPT !.status = "retryable", !.next = "number"].owner = j.owner
       /\ [j EXCEPT !.status = "retryable", !.next = "number"].status = "retryable"
  /\ Stored(NoJob) = NoJob
  <1>1. \A o \in BurnOwners : Polling(o) \in Job /\ Polling(o).owner = o /\ Polling(o).status = "polling"
    BY DEF Polling, Job
  <1>2. ASSUME NEW j \in Job
        PROVE  j # NoJob /\ Stored(j) \in Job /\ Stored(j).owner = j.owner
    <2>1. j # NoJob
      BY AutoMintAssumption DEF AutoMintAssumption
    <2>2. [j EXCEPT !.next = "date"] \in Job /\ [j EXCEPT !.next = "date"].owner = j.owner
      BY DEF Job
    <2>. QED
      BY <2>1, <2>2 DEF Stored
  <1>3. ASSUME NEW j \in Job
        PROVE  /\ [j EXCEPT !.status = "ready"] \in Job
               /\ [j EXCEPT !.status = "ready"].owner = j.owner
               /\ [j EXCEPT !.status = "ready"].status = "ready"
               /\ [j EXCEPT !.status = "retryable", !.next = "number"] \in Job
               /\ [j EXCEPT !.status = "retryable", !.next = "number"].owner = j.owner
               /\ [j EXCEPT !.status = "retryable", !.next = "number"].status = "retryable"
    BY DEF Job
  <1>. QED
    BY <1>1, <1>2, <1>3 DEF Stored

--------------------------------------------------------------------------------
(* What a step of the auto-mint worker is made of. *)

LEMMA CallMoves ==
  ASSUME AutoMintTypeOK, NEW c \in Starts, NEW rec \in StartRecord, Move(c, rec)
  PROVE  /\ starts' \in [Starts -> StartRecord] /\ starts'[c] = rec
         /\ \A d \in Starts \ {c} : starts'[d] = starts[d]
  BY DEF AutoMintTypeOK, Move

LEMMA CallEnds ==
  ASSUME AutoMintTypeOK, NEW c \in Starts, Finished(c)
  PROVE  /\ starts' \in [Starts -> StartRecord] /\ starts'[c].stage = "done"
         /\ \A d \in Starts \ {c} : starts'[d] = starts[d]
  BY CallMoves, StartRecordsBuilt DEF Finished

LEMMA Persists ==
  ASSUME AutoMintTypeOK, NEW j \in Job \cup {NoJob}, Persist(j)
  PROVE  /\ job' = j /\ jobFile' = j
         /\ upserts' \subseteq upserts \cup (IF leased /\ j # NoJob THEN {Stored(j)} ELSE {})
         /\ job' \in Job \cup {NoJob} /\ jobFile' \in Job \cup {NoJob} /\ upserts' \subseteq Job
  BY JobsBuilt DEF AutoMintTypeOK, Persist

(* A call that takes up work. *)
LEMMA StartedCall ==
  ASSUME AutoMintTypeOK, NEW c \in Starts, NEW o \in BurnOwners, StartWorker(c, o)
  PROVE  \/ OnlyStart(c, [stage |-> "done"])
         \/ MayClaim(o) /\ leased /\ OnlyStart(c, [stage |-> "claiming", owner |-> o])
         \/ MayClaim(o) /\ ~leased /\ BeginLoop(c, o) /\ NoTrouble
  BY DEF StartWorker

(* A timer that fires takes up work, or nothing. *)
LEMMA TimerCall ==
  ASSUME JobInv, NEW c \in Starts, RetryTimerFires(c)
  PROVE  /\ job \in Job /\ timer' = FALSE /\ UNCHANGED <<row, holder, releases, lapses, server>> /\ NoTrouble
         /\ \/ /\ leased /\ Move(c, [stage |-> "claiming", owner |-> job.owner])
               /\ UNCHANGED <<job, jobFile, upserts, busy, refused>>
            \/ ~leased /\ MayClaim(job.owner) /\ BeginLoop(c, job.owner)
            \/ UNCHANGED <<job, jobFile, upserts, starts, busy, refused>>
  <1>1. job \in Job
    BY DEF JobInv, AutoMintTypeOK, RetryTimerFires
  <1>. QED
    BY <1>1 DEF RetryTimerFires, BeginLoop

LEMMA JobTypes ==
  ASSUME JobInv, [AutoMintNext]_amVars
  PROVE  AutoMintTypeOK'
  <1>. USE DEF NoTrouble, MintTrouble
  <1>0. AutoMintTypeOK /\ \A c \in Starts : starts[c] \in StartRecord
    BY DEF JobInv, AutoMintTypeOK
  <1>1. ASSUME NEW c \in Starts, NEW rec \in StartRecord, OnlyStart(c, rec),
               server' \in {"booting", "hydrated", "resumed", "up"}
        PROVE  AutoMintTypeOK'
    BY <1>0, <1>1, CallMoves DEF OnlyStart, AutoMintTypeOK
  <1>2. ASSUME NEW c \in Starts, NEW o \in BurnOwners, BeginLoop(c, o), NoTrouble,
               server' \in {"booting", "hydrated", "resumed", "up"}
        PROVE  AutoMintTypeOK'
    <2>1. starts' \in [Starts -> StartRecord]
      BY <1>0, <1>2, CallMoves, StartRecordsBuilt, AutoMintAssumption DEF BeginLoop, AutoMintAssumption
    <2>2. Polling(o) \in Job /\ Persist(Polling(o))
      BY <1>2, JobsBuilt DEF BeginLoop
    <2>. QED
      BY <1>0, <1>2, <2>1, <2>2, Persists DEF BeginLoop, AutoMintTypeOK
  <1>3. ASSUME NEW c \in Starts, NEW o \in BurnOwners, StartWorker(c, o),
               server' \in {"booting", "hydrated", "resumed", "up"}
        PROVE  AutoMintTypeOK'
    BY StartRecordsBuilt, <1>0, <1>1, <1>2, <1>3, StartedCall
  <1>4. ASSUME NEW c \in Starts, NEW o \in BurnOwners, Register(c, o)
        PROVE  AutoMintTypeOK'
    BY StartRecordsBuilt, <1>1, <1>4 DEF Register
  <1>5. ASSUME NEW c \in Starts, NEW o \in BurnOwners, Wake(c, o)
        PROVE  AutoMintTypeOK'
    BY <1>3, <1>5 DEF Wake
  <1>6. ASSUME NEW c \in Starts, RowRead(c) \/ RowUnread(c)
        PROVE  AutoMintTypeOK'
    <2>1. starts[c].owner \in BurnOwners /\ row \in Job \cup {NoJob}
      BY <1>0, <1>6, StartRecordStages DEF RowRead, RowUnread, AutoMintTypeOK
    <2>2. CASE RowRead(c)
      <3>1. [stage |-> "seen", owner |-> starts[c].owner, seen |-> IF leased THEN row ELSE NoJob]
              \in StartRecord
        BY <2>1, StartRecordsBuilt
      <3>. QED
        BY <1>0, <1>1, <2>2, <3>1 DEF RowRead, AutoMintTypeOK
    <2>3. CASE RowUnread(c)
      <3>1. starts' \in [Starts -> StartRecord]
        BY <1>0, <2>1, <2>3, CallMoves, StartRecordsBuilt DEF RowUnread
      <3>. QED
        BY <1>0, <2>3, <3>1, AutoMintAssumption DEF RowUnread, AutoMintTypeOK, AutoMintAssumption
    <2>. QED
      BY <1>6, <2>2, <2>3
  <1>7. ASSUME NEW c \in Starts, RegisterSeen(c)
        PROVE  AutoMintTypeOK'
    <2>1. starts[c].owner \in BurnOwners /\ server' \in {"booting", "hydrated", "resumed", "up"}
      BY <1>0, <1>7, StartRecordStages DEF RegisterSeen, AutoMintTypeOK
    <2>2. OnlyStart(c, [stage |-> "done"]) \/ StartWorker(c, starts[c].owner)
      BY <1>7 DEF RegisterSeen
    <2>. QED
      BY <1>1, <1>3, <2>1, <2>2, StartRecordsBuilt
  <1>8. ASSUME NEW c \in Starts, RetryTimerFires(c)
        PROVE  AutoMintTypeOK'
    <2>1. job.owner \in BurnOwners
      BY <1>8, TimerCall DEF Job
    <2>2. CASE Move(c, [stage |-> "claiming", owner |-> job.owner]) /\ UNCHANGED <<job, jobFile, upserts, busy, refused>>
      <3>1. starts' \in [Starts -> StartRecord]
        BY <1>0, <2>1, <2>2, CallMoves, StartRecordsBuilt
      <3>. QED
        BY ZenonT(60), <1>0, <1>8, <2>2, <3>1, TimerCall DEF AutoMintTypeOK
    <2>3. CASE BeginLoop(c, job.owner)
      BY <1>0, <1>2, <1>8, <2>1, <2>3, TimerCall DEF AutoMintTypeOK
    <2>4. CASE UNCHANGED <<job, jobFile, upserts, starts, busy, refused>>
      BY <1>0, <1>8, <2>4, TimerCall, ZenonT(60) DEF AutoMintTypeOK
    <2>. QED
      BY <1>8, <2>2, <2>3, <2>4, TimerCall
  <1>9. ASSUME NEW c \in Starts, ClaimLease(c)
        PROVE  AutoMintTypeOK'
    <2>1. starts[c].owner \in BurnOwners
      BY <1>0, <1>9, StartRecordStages DEF ClaimLease
    <2>2. /\ row' \in Job \cup {NoJob} /\ holder' \in Starts \cup {NoStart}
      BY ZenonT(60), <1>0, <1>9, <2>1, JobsBuilt DEF ClaimLease, AutoMintTypeOK
    <2>3. starts' \in [Starts -> StartRecord]
      <3>1. \E rec \in StartRecord : Move(c, rec)
        BY <1>0, <1>9, <2>1, StartRecordsBuilt DEF ClaimLease, AutoMintTypeOK
      <3>. QED
        BY <1>0, <3>1, CallMoves
    <2>. QED
      BY <1>0, <1>9, <2>2, <2>3 DEF ClaimLease, AutoMintTypeOK
  <1>10. ASSUME NEW c \in Starts, ClaimUnanswered(c)
         PROVE  AutoMintTypeOK'
    <2>1. starts[c].owner \in BurnOwners
      BY <1>0, <1>10, StartRecordStages DEF ClaimUnanswered
    <2>2. starts' \in [Starts -> StartRecord]
      BY <1>0, <1>10, <2>1, CallMoves, StartRecordsBuilt DEF ClaimUnanswered
    <2>. QED
      BY <1>0, <1>10, <2>2, AutoMintAssumption DEF ClaimUnanswered, AutoMintTypeOK, AutoMintAssumption
  <1>11. ASSUME NEW c \in Starts, Granted(c)
         PROVE  AutoMintTypeOK'
    BY <1>0, <1>2, <1>11, StartRecordStages DEF Granted, AutoMintTypeOK
  <1>12. ASSUME NEW c \in Starts, Refused(c)
         PROVE  AutoMintTypeOK'
    <2>1. starts[c].answer \in Job /\ starts' \in [Starts -> StartRecord]
      BY <1>0, <1>12, StartRecordStages, CallEnds DEF Refused
    <2>. QED
      BY <1>0, <1>12, <2>1, Persists DEF Refused, AutoMintTypeOK
  <1>13. ASSUME NEW c \in Starts, PollBegin(c)
         PROVE  AutoMintTypeOK'
    <2>1. starts[c].polls \in 0 .. MaxPolls - 1 /\ job \in Job
      BY <1>0, <1>13, StartRecordStages, AutoMintAssumption
        DEF PollBegin, JobInv, Loops, AutoMintTypeOK, AutoMintAssumption
    <2>2. [stage |-> "polling", polls |-> starts[c].polls, current |-> job] \in StartRecord
      BY <2>1, StartRecordsBuilt
    <2>. QED
      BY <1>0, <1>1, <1>13, <2>2 DEF PollBegin, AutoMintTypeOK
  <1>14. ASSUME NEW c \in Starts, PollFinds(c)
         PROVE  AutoMintTypeOK'
    <2>1. starts[c].current \in Job /\ starts' \in [Starts -> StartRecord]
      BY <1>0, <1>14, StartRecordStages, CallEnds DEF PollFinds, LeaveLoop
    <2>2. [starts[c].current EXCEPT !.status = "ready"] \in Job
      BY <2>1, JobsBuilt
    <2>. QED
      BY <1>0, <1>14, <2>1, <2>2, Persists DEF PollFinds, LeaveLoop, LoopUnchanged, AutoMintTypeOK
  <1>15. ASSUME NEW c \in Starts, PollNothing(c)
         PROVE  AutoMintTypeOK'
    <2>1. starts[c].current \in Job /\ starts[c].polls \in 0 .. MaxPolls - 1
      BY <1>0, <1>15, StartRecordStages DEF PollNothing
    <2>2. starts' \in [Starts -> StartRecord]
      <3>1. starts[c].polls + 1 \in 0 .. MaxPolls
        BY <2>1, AutoMintAssumption DEF AutoMintAssumption
      <3>. QED
        BY <1>0, <1>15, <3>1, CallMoves, StartRecordsBuilt DEF PollNothing
    <2>3. job' \in Job \cup {NoJob} /\ jobFile' \in Job \cup {NoJob} /\ upserts' \subseteq Job
      BY <1>0, <1>15, <2>1, Persists DEF PollNothing, AutoMintTypeOK
    <2>. QED
      BY <1>0, <1>15, <2>2, <2>3 DEF PollNothing, LoopUnchanged, AutoMintTypeOK
  <1>16. ASSUME NEW c \in Starts, LoopExhausted(c)
         PROVE  AutoMintTypeOK'
    <2>1. starts' \in [Starts -> StartRecord] /\ job \in Job
      BY <1>0, <1>16, CallEnds DEF LoopExhausted, LeaveLoop, JobInv, Loops, AutoMintTypeOK
    <2>2. job' \in Job \cup {NoJob} /\ jobFile' \in Job \cup {NoJob} /\ upserts' \subseteq Job
          /\ timer' \in BOOLEAN
      BY <1>0, <1>16, <2>1, Persists, JobsBuilt DEF LoopExhausted, SetsTimer, AutoMintTypeOK
    <2>. QED
      BY <1>0, <1>16, <2>1, <2>2 DEF LoopExhausted, LeaveLoop, LoopUnchanged, AutoMintTypeOK
  <1>17. ASSUME NEW c \in Starts, Resume(c)
         PROVE  AutoMintTypeOK'
    <2>1. CASE StartWorker(c, job.owner) /\ Resumable
      BY <1>0, <1>3, <1>17, <2>1 DEF Resume, Resumable, AutoMintTypeOK, Job
    <2>2. CASE Persist(job) /\ timer' = TRUE /\ UNCHANGED <<row, holder, releases, starts, busy, refused, lapses>> /\ NoTrouble
      BY <1>0, <1>17, <2>2, Persists DEF Resume, AutoMintTypeOK
    <2>3. CASE UNCHANGED <<job, jobFile, row, holder, upserts, releases, starts, busy, timer, refused, lapses>> /\ NoTrouble
      BY <1>0, <1>17, <2>3 DEF Resume, AutoMintTypeOK
    <2>. QED
      BY <1>17, <2>1, <2>2, <2>3 DEF Resume
  <1>18. ASSUME NEW c \in Starts, ReleaseLands(c)
         PROVE  AutoMintTypeOK'
    BY <1>0, <1>18 DEF ReleaseLands, AutoMintTypeOK
  <1>19. ASSUME NEW j \in upserts, UpsertLands(j)
         PROVE  AutoMintTypeOK'
    BY <1>0, <1>19 DEF UpsertLands, AutoMintTypeOK
  <1>20. CASE MintLeaseExpires \/ WriteLost \/ Attested \/ Listen
    <2>1. CASE MintLeaseExpires
      BY <1>0, <2>1, AutoMintAssumption DEF MintLeaseExpires, AutoMintTypeOK, AutoMintAssumption
    <2>2. CASE WriteLost
      BY <1>0, <2>2, AutoMintAssumption DEF WriteLost, AutoMintTypeOK, AutoMintAssumption
    <2>3. CASE Attested \/ Listen
      BY ZenonT(60), <1>0, <2>3 DEF Attested, Listen, AutoMintTypeOK
    <2>. QED
      BY <1>20, <2>1, <2>2, <2>3
  <1>21. CASE MintCrash
    <2>1. starts' \in [Starts -> StartRecord]
      BY <1>0, <1>21, StartRecordsBuilt DEF MintCrash
    <2>2. upserts' \subseteq Job /\ releases' \subseteq Starts
      BY <1>0, <1>21 DEF MintCrash, AutoMintTypeOK
    <2>3. troubles' \in 0 .. MaxTroubles /\ lapses' \in 0 .. troubles'
      BY <1>0, <1>21, AutoMintAssumption DEF MintCrash, AutoMintTypeOK, AutoMintAssumption
    <2>. QED
      BY <1>0, <1>21, <2>1, <2>2, <2>3 DEF MintCrash, AutoMintTypeOK
  <1>22. CASE Hydrate
    <2>1. job' \in Job \cup {NoJob} /\ row' \in Job \cup {NoJob}
      BY <1>0, <1>22, JobsBuilt DEF Hydrate, AutoMintTypeOK
    <2>2. troubles' \in 0 .. MaxTroubles /\ lapses' \in 0 .. troubles'
      BY <1>0, <1>22, AutoMintAssumption DEF Hydrate, AutoMintTypeOK, AutoMintAssumption
    <2>3. unheard' \in BOOLEAN
      BY <1>0, <1>22 DEF Hydrate, AutoMintTypeOK
    <2>. QED
      BY <1>0, <1>22, <2>1, <2>2, <2>3 DEF Hydrate, AutoMintTypeOK
  <1>23. CASE UNCHANGED amVars
    BY <1>0, <1>23 DEF amVars, AutoMintTypeOK
  <1>. QED
    BY <1>4, <1>5, <1>6, <1>7, <1>8, <1>9, <1>10, <1>11, <1>12, <1>13, <1>14, <1>15, <1>16,
      <1>17, <1>18, <1>19, <1>20, <1>21, <1>22, <1>23 DEF AutoMintNext

(* What a call's move does to the sets of calls. *)
LEMMA SetsMove ==
  ASSUME AutoMintTypeOK, NEW c \in Starts, NEW rec, Move(c, rec)
  PROVE  /\ Loops' = IF rec.stage \in {"loop", "polling"} THEN Loops \cup {c} ELSE Loops \ {c}
         /\ Claiming' = IF rec.stage \in {"claiming", "granted", "refused"}
                        THEN Claiming \cup {c} ELSE Claiming \ {c}
         /\ Admitted' = IF rec.stage \in {"granted", "loop", "polling"} THEN Admitted \cup {c} ELSE Admitted \ {c}
         /\ starts'[c] = rec /\ \A d \in Starts \ {c} : starts'[d] = starts[d]
  <1>1. starts'[c] = rec /\ \A d \in Starts \ {c} : starts'[d] = starts[d]
    BY DEF AutoMintTypeOK, Move
  <1>. QED
    BY <1>1 DEF Loops, Claiming, Admitted

LEMMA SetsStay ==
  ASSUME UNCHANGED starts
  PROVE  Loops' = Loops /\ Claiming' = Claiming /\ Admitted' = Admitted
  BY DEF Loops, Claiming, Admitted

(* A call that waits, claims or polls finds the server running. *)
LEMMA ServerRuns ==
  ASSUME JobInv, NEW c \in Starts, starts[c].stage \notin {"new", "done"} \/ server \in {"resumed", "up"}
  PROVE  server \in {"resumed", "up"}
  BY DEF JobInv, AutoMintTypeOK

LEMMA JobStep ==
  ASSUME JobInv, [AutoMintNext]_amVars
  PROVE  JobInv'
  <1>. DEFINE Boots == server \in {"booting", "hydrated"} =>
                         ~busy /\ ~timer /\ \A c \in Starts : starts[c].stage \in {"new", "done"}
              HasJob == Loops # {} \/ timer => job # NoJob
  <1>. SUFFICES Boots' /\ HasJob'
    BY JobTypes DEF JobInv
  <1>0. AutoMintTypeOK /\ Boots /\ HasJob /\ \A c \in Starts : starts[c] \in StartRecord
    BY DEF JobInv, AutoMintTypeOK
  <1>. HIDE DEF Boots, HasJob
  <1>1. server' \in {"resumed", "up"} => Boots'
    BY DEF Boots
  <1>2. ASSUME NEW c \in Starts, NEW rec, OnlyStart(c, rec), server' \in {"resumed", "up"},
               rec.stage \in {"loop", "polling"} => starts[c].stage = "loop"
        PROVE  Boots' /\ HasJob'
    BY <1>0, <1>1, <1>2, SetsMove DEF OnlyStart, HasJob, Loops
  <1>3. ASSUME NEW c \in Starts, NEW j \in Job, Persist(j), server' \in {"resumed", "up"}
        PROVE  Boots' /\ HasJob'
    BY <1>0, <1>1, <1>3, JobsBuilt DEF Persist, HasJob
  <1>4. ASSUME NEW c \in Starts, NEW o \in BurnOwners, StartWorker(c, o), server' \in {"resumed", "up"}
        PROVE  Boots' /\ HasJob'
    <2>1. CASE BeginLoop(c, o)
      BY <1>3, <1>4, <2>1, JobsBuilt DEF BeginLoop
    <2>2. CASE OnlyStart(c, [stage |-> "done"])
      BY <1>2, <1>4, <2>2
    <2>3. CASE OnlyStart(c, [stage |-> "claiming", owner |-> o])
      BY <1>2, <1>4, <2>3
    <2>. QED
      BY <1>0, <1>4, <2>1, <2>2, <2>3, StartedCall
  <1>5. ASSUME NEW c \in Starts, NEW o \in BurnOwners, Register(c, o)
        PROVE  Boots' /\ HasJob'
    BY <1>2, <1>5 DEF Register
  <1>6. ASSUME NEW c \in Starts, NEW o \in BurnOwners, Wake(c, o)
        PROVE  Boots' /\ HasJob'
    BY <1>4, <1>6 DEF Wake
  <1>7. ASSUME NEW c \in Starts, RowRead(c)
        PROVE  Boots' /\ HasJob'
    BY <1>2, <1>7, ServerRuns DEF RowRead
  <1>8. ASSUME NEW c \in Starts, RowUnread(c)
        PROVE  Boots' /\ HasJob'
    BY <1>0, <1>1, <1>8, ServerRuns, SetsMove DEF RowUnread, HasJob, Loops
  <1>9. ASSUME NEW c \in Starts, RegisterSeen(c)
        PROVE  Boots' /\ HasJob'
    <2>1. starts[c].owner \in BurnOwners /\ server' \in {"resumed", "up"}
      BY <1>0, <1>9, StartRecordStages, ServerRuns DEF RegisterSeen
    <2>2. CASE OnlyStart(c, [stage |-> "done"])
      BY <1>2, <2>1, <2>2
    <2>. QED
      BY <1>4, <1>9, <2>1, <2>2 DEF RegisterSeen
  <1>10. ASSUME NEW c \in Starts, RetryTimerFires(c)
         PROVE  Boots' /\ HasJob'
    <2>1. job \in Job /\ job \in Job \cup {NoJob} /\ job # NoJob /\ job.owner \in BurnOwners
      BY <1>10, TimerCall, JobsBuilt DEF Job
    <2>2. server' \in {"resumed", "up"}
      BY <1>0, <1>10 DEF RetryTimerFires, Boots, AutoMintTypeOK
    <2>3. job' # NoJob
      BY <1>10, <2>1, TimerCall, JobsBuilt DEF BeginLoop, Persist
    <2>. QED
      BY <1>1, <2>2, <2>3 DEF HasJob
  <1>11. ASSUME NEW c \in Starts, ClaimLease(c) \/ ClaimUnanswered(c)
         PROVE  Boots' /\ HasJob'
    <2>1. server' \in {"resumed", "up"} /\ UNCHANGED <<job, timer>>
      BY <1>11, ServerRuns DEF ClaimLease, ClaimUnanswered
    <2>2. Loops' \subseteq Loops
      BY <1>0, <1>11, SetsMove DEF ClaimLease, ClaimUnanswered
    <2>. QED
      BY <1>0, <1>1, <2>1, <2>2 DEF HasJob
  <1>12. ASSUME NEW c \in Starts, Granted(c) \/ Refused(c) \/ PollFinds(c)
         PROVE  Boots' /\ HasJob'
    <2>1. server' \in {"resumed", "up"}
      BY <1>12, ServerRuns DEF Granted, Refused, PollFinds, LoopUnchanged
    <2>2. \E j \in Job : Persist(j)
      BY <1>0, <1>12, StartRecordStages, JobsBuilt DEF Granted, BeginLoop, Refused, PollFinds
    <2>. QED
      BY <1>3, <2>1, <2>2
  <1>13. ASSUME NEW c \in Starts, PollBegin(c)
         PROVE  Boots' /\ HasJob'
    BY <1>2, <1>13, ServerRuns DEF PollBegin
  <1>14. ASSUME NEW c \in Starts, PollNothing(c)
         PROVE  Boots' /\ HasJob'
    <2>1. server' \in {"resumed", "up"}
      BY <1>14, ServerRuns DEF PollNothing, LoopUnchanged
    <2>2. job' \in Job
      BY <1>0, <1>14, StartRecordStages DEF PollNothing, Persist
    <2>. QED
      BY <1>1, <2>1, <2>2, JobsBuilt DEF HasJob
  <1>15. ASSUME NEW c \in Starts, LoopExhausted(c)
         PROVE  Boots' /\ HasJob'
    <2>1. server' \in {"resumed", "up"} /\ job \in Job
      BY <1>0, <1>15, ServerRuns DEF LoopExhausted, LoopUnchanged, HasJob, Loops, AutoMintTypeOK
    <2>2. job' \in Job
      BY <1>15, <2>1, JobsBuilt DEF LoopExhausted, Persist
    <2>. QED
      BY <1>1, <2>1, <2>2, JobsBuilt DEF HasJob
  <1>16. ASSUME NEW c \in Starts, Resume(c)
         PROVE  Boots' /\ HasJob'
    <2>1. server' \in {"resumed", "up"}
      BY <1>16 DEF Resume
    <2>2. CASE Resumable
      <3>1. job \in Job /\ job.owner \in BurnOwners
        BY <1>0, <2>2 DEF Resumable, AutoMintTypeOK, Job
      <3>. QED
        BY <1>3, <1>4, <1>16, <2>1, <2>2, <3>1 DEF Resume
    <2>3. CASE ~Resumable
      BY <1>0, <1>1, <1>16, <2>1, <2>3, SetsStay DEF Resume, HasJob
    <2>. QED
      BY <2>2, <2>3
  <1>17. CASE (\E c \in Starts : ReleaseLands(c)) \/ (\E j \in upserts : UpsertLands(j))
              \/ MintLeaseExpires \/ WriteLost \/ Attested \/ UNCHANGED amVars
    <2>1. UNCHANGED <<job, timer, busy, starts, server>>
      BY <1>17 DEF ReleaseLands, UpsertLands, MintLeaseExpires, WriteLost, Attested, amVars
    <2>. QED
      BY <1>0, <2>1, SetsStay DEF Boots, HasJob
  <1>18. CASE MintCrash
    <2>1. \A c \in Starts : starts'[c].stage \in {"new", "done"}
      BY <1>0, <1>18 DEF MintCrash, MayEnter
    <2>. QED
      BY <1>18, <2>1 DEF MintCrash, Boots, HasJob, Loops
  <1>19. CASE Hydrate
    <2>1. UNCHANGED <<starts, busy, timer>> /\ Boots' /\ ~timer
      BY <1>0, <1>19 DEF Hydrate, Boots
    <2>. QED
      BY <1>0, <1>19, <2>1 DEF Hydrate, Boots, HasJob, Loops
  <1>20. CASE Listen
    BY <1>0, <1>1, <1>20, SetsStay DEF Listen, HasJob
  <1>. QED
    BY <1>5, <1>6, <1>7, <1>8, <1>9, <1>10, <1>11, <1>12, <1>13, <1>14, <1>15, <1>16,
      <1>17, <1>18, <1>19, <1>20 DEF AutoMintNext

--------------------------------------------------------------------------------
(* The lease. *)

LEMMA ModeStays == [AutoMintNext]_amVars => leased' = leased
  BY ZenonT(60) DEF AutoMintNext, amVars, Register, Wake, RowRead, RowUnread, RegisterSeen, RetryTimerFires,
    ClaimLease, ClaimUnanswered, Granted, Refused, ReleaseLands, PollBegin, PollFinds, PollNothing,
    LoopExhausted, Resume, UpsertLands, MintLeaseExpires, WriteLost, Attested, MintCrash, Hydrate,
    Listen, StartWorker, OnlyStart, NoTrouble, LoopUnchanged

(* A lease is given back by calls that have ended, and a call that has ended *)
(* does nothing more.                                                        *)
LEMMA ReleasesStep ==
  ASSUME JobInv, LeaseInv, [AutoMintNext]_amVars
  PROVE  \A c \in releases' : c \in Starts /\ starts'[c].stage = "done"
  <1>0. /\ AutoMintTypeOK
        /\ \A c \in releases : c \in Starts /\ starts[c].stage = "done"
    BY DEF JobInv, LeaseInv, AutoMintTypeOK
  <1>1. ASSUME NEW c \in Starts, NEW rec, Move(c, rec), starts[c].stage # "done" \/ rec.stage = "done",
               releases' = releases \/ (rec.stage = "done" /\ releases' \subseteq releases \cup {c})
        PROVE  \A d \in releases' : d \in Starts /\ starts'[d].stage = "done"
    BY <1>0, <1>1, SetsMove
  <1>2. ASSUME NEW c \in Starts, NEW o, StartWorker(c, o), starts[c].stage # "done"
        PROVE  \A d \in releases' : d \in Starts /\ starts'[d].stage = "done"
    BY <1>1, <1>2 DEF StartWorker, OnlyStart, BeginLoop
  <1>3. ASSUME NEW c \in Starts,
               \/ \E o \in BurnOwners : Register(c, o) \/ Wake(c, o)
               \/ RowRead(c) \/ RowUnread(c) \/ RegisterSeen(c) \/ PollBegin(c)
        PROVE  \A d \in releases' : d \in Starts /\ starts'[d].stage = "done"
    BY <1>1, <1>2, <1>3
      DEF Register, Wake, RowRead, RowUnread, RegisterSeen, PollBegin, OnlyStart, MayEnter
  <1>4. ASSUME NEW c \in Starts,
               ClaimLease(c) \/ ClaimUnanswered(c) \/ Granted(c) \/ Refused(c) \/ PollNothing(c)
        PROVE  \A d \in releases' : d \in Starts /\ starts'[d].stage = "done"
    BY <1>1, <1>4
      DEF ClaimLease, ClaimUnanswered, Granted, Refused, PollNothing, BeginLoop, Finished, LoopUnchanged
  <1>5. ASSUME NEW c \in Starts, PollFinds(c) \/ LoopExhausted(c)
        PROVE  \A d \in releases' : d \in Starts /\ starts'[d].stage = "done"
    BY <1>1, <1>5 DEF PollFinds, LoopExhausted, LeaveLoop, Finished
  <1>6. ASSUME NEW c \in Starts, RetryTimerFires(c)
        PROVE  \A d \in releases' : d \in Starts /\ starts'[d].stage = "done"
    BY <1>0, <1>1, <1>6, TimerCall DEF BeginLoop, RetryTimerFires, MayEnter
  <1>7. ASSUME NEW c \in Starts, Resume(c)
        PROVE  \A d \in releases' : d \in Starts /\ starts'[d].stage = "done"
    BY <1>0, <1>2, <1>7 DEF Resume, MayEnter
  <1>8. CASE MintCrash
    BY <1>0, <1>8 DEF MintCrash, MayEnter, AutoMintTypeOK
  <1>9. CASE (\E c \in Starts : ReleaseLands(c)) \/ (\E j \in upserts : UpsertLands(j))
             \/ MintLeaseExpires \/ WriteLost \/ Attested \/ Hydrate \/ Listen \/ UNCHANGED amVars
    <2>1. starts' = starts /\ releases' \subseteq releases
      BY <1>9 DEF ReleaseLands, UpsertLands, MintLeaseExpires, WriteLost, Attested, Hydrate, Listen, amVars
    <2>. QED
      BY <1>0, <2>1
  <1>. QED
    BY <1>3, <1>4, <1>5, <1>6, <1>7, <1>8, <1>9 DEF AutoMintNext

(* With a database: whoever comes to work without the lease costs a lapse.   *)
LEMMA LeasedStep ==
  ASSUME JobInv, LeaseInv, [AutoMintNext]_amVars, leased
  PROVE  /\ holder' # NoStart => row' # NoJob
         /\ \/ Admitted' \ {holder'} \subseteq Admitted \ {holder} /\ lapses' = lapses
            \/ /\ lapses' = lapses + 1
               /\ \E x : Admitted' \ {holder'} \subseteq (Admitted \ {holder}) \cup {x}
  <1>. DEFINE Kept == /\ holder' # NoStart => row' # NoJob
                      /\ Admitted' \ {holder'} \subseteq Admitted \ {holder} /\ lapses' = lapses
              Lapsed == /\ holder' # NoStart => row' # NoJob
                        /\ lapses' = lapses + 1
                        /\ \E x : Admitted' \ {holder'} \subseteq (Admitted \ {holder}) \cup {x}
  <1>. SUFFICES Kept \/ Lapsed
    OBVIOUS
  <1>0. /\ AutoMintTypeOK /\ (holder # NoStart => row # NoJob)
        /\ \A c \in releases : c \notin Admitted
        /\ NoStart \notin Admitted /\ NoJob \notin Job
    BY AutoMintAssumption DEF JobInv, LeaseInv, Admitted, AutoMintAssumption
  <1>1. ASSUME NEW c \in Starts, NEW rec, Move(c, rec), UNCHANGED <<row, holder, lapses>>,
               rec.stage \in {"granted", "loop", "polling"} => c \in Admitted
        PROVE  Kept
    BY <1>0, <1>1, SetsMove
  <1>2. ASSUME NEW c \in Starts, NEW o, StartWorker(c, o)
        PROVE  Kept
    BY <1>1, <1>2 DEF StartWorker, OnlyStart
  <1>3. ASSUME NEW c \in Starts,
               \/ \E o \in BurnOwners : Register(c, o) \/ Wake(c, o)
               \/ RowRead(c) \/ RowUnread(c) \/ RegisterSeen(c) \/ PollBegin(c)
        PROVE  Kept
    BY <1>1, <1>2, <1>3
      DEF Register, Wake, RowRead, RowUnread, RegisterSeen, PollBegin, OnlyStart, Admitted
  <1>4. ASSUME NEW c \in Starts, Granted(c) \/ Refused(c) \/ PollNothing(c) \/ PollFinds(c) \/ LoopExhausted(c)
        PROVE  Kept
    BY <1>1, <1>4
      DEF Granted, Refused, PollNothing, PollFinds, LoopExhausted, BeginLoop, LeaveLoop, Finished,
        LoopUnchanged, Admitted
  <1>5. ASSUME NEW c \in Starts, RetryTimerFires(c)
        PROVE  Kept
    BY <1>0, <1>1, <1>5, TimerCall, SetsStay
  <1>6. ASSUME NEW c \in Starts, ClaimLease(c)
        PROVE  Kept
    <2>1. c \notin Admitted
      BY <1>6 DEF ClaimLease, Admitted
    <2>2. CASE holder' = c /\ Move(c, [stage |-> "granted", owner |-> starts[c].owner])
      <3>1. row' # NoJob /\ holder \notin Admitted /\ UNCHANGED lapses
        <4>1. Polling(starts[c].owner) # NoJob
          <5>1. starts[c] \in StartRecord /\ starts[c].stage = "claiming"
            BY <1>0, <1>6 DEF ClaimLease, AutoMintTypeOK
          <5>. QED
            BY <5>1, StartRecordStages, JobsBuilt
        <4>2. holder \in {NoStart, c}
          BY <1>0, <1>6, <2>2 DEF ClaimLease, LeaseFree
        <4>. QED
          BY <1>0, <1>6, <2>1, <4>1, <4>2 DEF ClaimLease
      <3>2. Admitted' = Admitted \cup {c}
        BY <1>0, <2>2, SetsMove
      <3>. QED
        BY <2>2, <3>1, <3>2
    <2>3. CASE Move(c, [stage |-> "refused", answer |-> row]) /\ UNCHANGED <<row, holder>>
      BY <1>1, <1>6, <2>3 DEF ClaimLease
    <2>. QED
      BY <1>6, <2>2, <2>3 DEF ClaimLease
  <1>7. ASSUME NEW c \in Starts, ClaimUnanswered(c)
        PROVE  Lapsed
    <2>1. Admitted' = Admitted \cup {c}
      BY <1>0, <1>7, SetsMove DEF ClaimUnanswered
    <2>. QED
      BY <1>0, <1>7, <2>1 DEF ClaimUnanswered
  <1>8. CASE MintLeaseExpires
    BY <1>0, <1>8, SetsStay DEF MintLeaseExpires
  <1>9. ASSUME NEW c \in Starts, ReleaseLands(c)
        PROVE  Kept
    BY <1>0, <1>9, SetsStay DEF ReleaseLands
  <1>10. ASSUME NEW c \in Starts, Resume(c)
         PROVE  Kept
    BY <1>0, <1>2, <1>10, SetsStay DEF Resume
  <1>11. CASE MintCrash
    <2>1. Admitted' = {}
      BY <1>0, <1>11 DEF MintCrash, MayEnter, Admitted
    <2>. QED
      BY <1>0, <1>11, <2>1 DEF MintCrash
  <1>12. CASE Hydrate
    <2>1. holder # NoStart => row' # NoJob
      BY <1>0, <1>12 DEF Hydrate
    <2>. QED
      BY <1>0, <1>12, <2>1, SetsStay DEF Hydrate
  <1>13. CASE (\E j \in upserts : UpsertLands(j)) \/ WriteLost \/ Attested \/ Listen \/ UNCHANGED amVars
    <2>1. UNCHANGED <<starts, holder, lapses>> /\ (row # NoJob => row' # NoJob)
      BY <1>0, <1>13 DEF UpsertLands, WriteLost, Attested, Listen, amVars, AutoMintTypeOK
    <2>. QED
      BY <1>0, <2>1, SetsStay
  <1>. QED
    BY <1>3, <1>4, <1>5, <1>6, <1>7, <1>8, <1>9, <1>10, <1>11, <1>12, <1>13 DEF AutoMintNext

(* Without a database a call becomes a loop at once, unless a loop runs.     *)
LEMMA UnleasedStep ==
  ASSUME JobInv, LeaseInv, [AutoMintNext]_amVars, ~leased
  PROVE  Claiming' = {} /\ (\A c, d \in Loops' : c = d) /\ (Loops' # {} => busy')
  <1>. DEFINE Alone == Claiming = {} /\ (\A c, d \in Loops : c = d) /\ (Loops # {} => busy)
  <1>. SUFFICES Alone'
    OBVIOUS
  <1>0. AutoMintTypeOK /\ Alone
    BY DEF JobInv, LeaseInv
  <1>. HIDE DEF Alone
  <1>1. ASSUME NEW c \in Starts, NEW rec, Move(c, rec), busy' = busy,
               rec.stage \notin {"claiming", "granted", "refused"},
               rec.stage \in {"loop", "polling"} => c \in Loops
        PROVE  Alone'
    BY <1>0, <1>1, SetsMove DEF Alone
  <1>2. ASSUME NEW c \in Starts, NEW o, NEW p, MayClaim(p), BeginLoop(c, o)
        PROVE  Alone'
    BY <1>0, <1>2, SetsMove DEF Alone, BeginLoop, MayClaim
  <1>3. ASSUME NEW c \in Starts, NEW o, StartWorker(c, o)
        PROVE  Alone'
    BY <1>1, <1>2, <1>3 DEF StartWorker, OnlyStart
  <1>4. ASSUME NEW c \in Starts,
               \/ \E o \in BurnOwners : Register(c, o) \/ Wake(c, o)
               \/ RowRead(c) \/ RowUnread(c) \/ RegisterSeen(c) \/ PollBegin(c)
        PROVE  Alone'
    BY <1>1, <1>3, <1>4
      DEF Register, Wake, RowRead, RowUnread, RegisterSeen, PollBegin, OnlyStart, Loops
  <1>5. ASSUME NEW c \in Starts, ClaimLease(c) \/ ClaimUnanswered(c) \/ Granted(c) \/ Refused(c)
        PROVE  Alone'
    BY <1>0, <1>5 DEF Alone, Claiming, ClaimLease, ClaimUnanswered, Granted, Refused
  <1>6. ASSUME NEW c \in Starts, PollNothing(c)
        PROVE  Alone'
    BY <1>1, <1>6 DEF PollNothing, Loops
  <1>7. ASSUME NEW c \in Starts, PollFinds(c) \/ LoopExhausted(c)
        PROVE  Alone'
    <2>1. c \in Loops /\ Loops' = Loops \ {c} /\ Claiming' = Claiming \ {c}
      BY <1>0, <1>7, SetsMove DEF PollFinds, LoopExhausted, LeaveLoop, Finished, Loops
    <2>. QED
      BY <1>0, <2>1 DEF Alone
  <1>8. ASSUME NEW c \in Starts, RetryTimerFires(c)
        PROVE  Alone'
    BY <1>0, <1>2, <1>8, TimerCall, SetsStay DEF Alone
  <1>9. ASSUME NEW c \in Starts, Resume(c)
        PROVE  Alone'
    BY <1>0, <1>3, <1>9, SetsStay DEF Resume, Alone
  <1>10. CASE MintCrash
    <2>1. Loops' = {} /\ Claiming' = {}
      BY <1>0, <1>10 DEF MintCrash, MayEnter, Loops, Claiming
    <2>. QED
      BY <2>1 DEF Alone
  <1>11. CASE (\E c \in Starts : ReleaseLands(c)) \/ (\E j \in upserts : UpsertLands(j))
              \/ MintLeaseExpires \/ WriteLost \/ Attested \/ Hydrate \/ Listen \/ UNCHANGED amVars
    <2>1. UNCHANGED <<starts, busy>>
      BY <1>11 DEF ReleaseLands, UpsertLands, MintLeaseExpires, WriteLost, Attested, Hydrate, Listen, amVars
    <2>. QED
      BY <1>0, <2>1, SetsStay DEF Alone
  <1>. QED
    BY <1>4, <1>5, <1>6, <1>7, <1>8, <1>9, <1>10, <1>11 DEF AutoMintNext

LEMMA LeaseStep ==
  ASSUME JobInv, LeaseInv, [AutoMintNext]_amVars
  PROVE  LeaseInv'
  <1>0. lapses \in Nat /\ leased \in BOOLEAN
    BY AutoMintAssumption DEF JobInv, AutoMintTypeOK, AutoMintAssumption
  <1>1. CASE leased
    <2>. DEFINE S == Admitted \ {holder}
                T == Admitted' \ {holder'}
    <2>1. IsFiniteSet(S) /\ Cardinality(S) <= lapses /\ Cardinality(S) \in Nat
      BY <1>1, FS_CardinalityType DEF LeaseInv
    <2>2. IsFiniteSet(T) /\ Cardinality(T) <= lapses'
      <3>1. CASE T \subseteq S /\ lapses' = lapses
        BY <1>0, <2>1, <3>1, NoMore
      <3>2. ASSUME lapses' = lapses + 1, NEW x, T \subseteq S \cup {x}
            PROVE  IsFiniteSet(T) /\ Cardinality(T) <= lapses'
        <4>1. IsFiniteSet(T) /\ Cardinality(T) \in Nat /\ Cardinality(T) <= Cardinality(S) + 1
          BY <2>1, <3>2, OneMore
        <4>. QED
          BY <1>0, <2>1, <3>2, <4>1
      <3>. QED
        BY <1>1, <3>1, <3>2, LeasedStep
    <2>3. leased' /\ (holder' # NoStart => row' # NoJob) /\ \A c \in releases' : starts'[c].stage = "done"
      BY <1>1, ModeStays, LeasedStep, ReleasesStep
    <2>. QED
      BY <2>2, <2>3 DEF LeaseInv
  <1>2. CASE ~leased
    BY <1>2, ModeStays, UnleasedStep, ReleasesStep DEF LeaseInv
  <1>. QED
    BY <1>0, <1>1, <1>2

LEMMA AutoMintInit0 == AutoMintInit => JobInv /\ LeaseInv
  <1>. SUFFICES ASSUME AutoMintInit PROVE JobInv /\ LeaseInv
    OBVIOUS
  <1>1. \A c \in Starts : starts[c].stage = "new"
    BY DEF AutoMintInit
  <1>2. Loops = {} /\ Claiming = {} /\ Admitted = {} /\ Admitted \ {holder} = {}
    BY <1>1 DEF Loops, Claiming, Admitted
  <1>3. AutoMintTypeOK
    <2>1. starts \in [Starts -> StartRecord]
      BY StartRecordsBuilt DEF AutoMintInit
    <2>2. leased \in BOOLEAN /\ 0 \in 0 .. 0 /\ 0 \in 0 .. MaxTroubles
      BY AutoMintAssumption DEF AutoMintInit, AutoMintAssumption
    <2>. QED
      BY <2>1, <2>2 DEF AutoMintInit, AutoMintTypeOK
  <1>4. JobInv
    BY <1>2, <1>3 DEF AutoMintInit, JobInv
  <1>5. LeaseInv
    BY <1>2, FS_EmptySet DEF AutoMintInit, LeaseInv
  <1>. QED
    BY <1>4, <1>5

(* A burn has one worker: a second loop runs only after a lease ran out or a *)
(* claim went unanswered (server.mjs:2951), for any number of calls.         *)
THEOREM SpecOneLoop == AutoMintSpec => []OneLoop
  <1>1. JobInv /\ LeaseInv /\ [AutoMintNext]_amVars => (JobInv /\ LeaseInv)'
    BY JobStep, LeaseStep
  <1>2. JobInv /\ LeaseInv => OneLoop
    <2>. SUFFICES ASSUME JobInv, LeaseInv PROVE Cardinality(Loops) <= 1 + lapses
      BY DEF OneLoop
    <2>0. lapses \in Nat /\ leased \in BOOLEAN
      BY AutoMintAssumption DEF JobInv, AutoMintTypeOK, AutoMintAssumption
    <2>1. CASE leased
      <3>. DEFINE S == Admitted \ {holder}
      <3>1. IsFiniteSet(S) /\ Cardinality(S) <= lapses /\ Cardinality(S) \in Nat
        BY <2>1, FS_CardinalityType DEF LeaseInv
      <3>2. Loops \subseteq S \cup {holder}
        BY DEF Loops, Admitted
      <3>. HIDE DEF S
      <3>3. Cardinality(Loops) \in Nat /\ Cardinality(Loops) <= Cardinality(S) + 1
        BY <3>1, <3>2, OneMore, Zenon
      <3>. QED
        BY <2>0, <3>1, <3>3
    <2>2. CASE ~leased
      <3>1. \A c, d \in Loops : c = d
        BY <2>2 DEF LeaseInv
      <3>2. CASE Loops = {}
        BY <2>0, <3>2, FS_EmptySet
      <3>3. ASSUME NEW c \in Loops PROVE Cardinality(Loops) <= 1 + lapses
        <4>1. Loops = {c}
          BY <3>1, <3>3
        <4>2. Cardinality({c}) = 1
          BY FS_Singleton
        <4>. QED
          BY <2>0, <4>1, <4>2
      <3>. QED
        BY <3>2, <3>3
    <2>. QED
      BY <2>0, <2>1, <2>2
  <1>. QED
    BY <1>1, <1>2, AutoMintInit0, PTL DEF AutoMintSpec

--------------------------------------------------------------------------------
(* Somebody polls. *)

LEMMA PollingStep ==
  ASSUME JobInv, PollingInv, [AutoMintNext]_amVars
  PROVE  PollingInv'
  <1>. DEFINE Somebody == Loops # {} \/ Claiming # {} \/ refused
              ShowsPolling == job # NoJob /\ job.status = "polling"
  <1>0. AutoMintTypeOK /\ \A c \in Starts : starts[c] \in StartRecord
    BY DEF JobInv, AutoMintTypeOK
  <1>1. ASSUME Somebody' \/ ~ShowsPolling' PROVE PollingInv'
    BY <1>1 DEF PollingInv
  <1>2. ASSUME NEW c \in Starts, NEW rec, Move(c, rec),
               rec.stage \in {"claiming", "granted", "refused", "loop", "polling"}
        PROVE  PollingInv'
    BY <1>0, <1>1, <1>2, SetsMove
  <1>3. ASSUME NEW c \in Starts, NEW rec, OnlyStart(c, rec), UNCHANGED server,
               c \notin Loops, c \notin Claiming
        PROVE  PollingInv'
    <2>1. Loops \subseteq Loops' /\ Claiming \subseteq Claiming' /\ UNCHANGED <<job, refused>>
      BY <1>0, <1>3, SetsMove DEF OnlyStart
    <2>. QED
      BY <1>3, <2>1 DEF PollingInv
  <1>4. ASSUME NEW c \in Starts, NEW o \in BurnOwners, StartWorker(c, o), UNCHANGED server,
               c \notin Loops, c \notin Claiming
        PROVE  PollingInv'
    <2>1. CASE BeginLoop(c, o)
      BY <1>2, <2>1 DEF BeginLoop
    <2>. QED
      BY <1>0, <1>3, <1>4, <2>1, StartedCall
  <1>5. ASSUME NEW c \in Starts, NEW o \in BurnOwners, Register(c, o) \/ Wake(c, o)
        PROVE  PollingInv'
    <2>1. c \notin Loops /\ c \notin Claiming
      BY <1>5 DEF Register, Wake, MayEnter, Loops, Claiming
    <2>. QED
      BY <1>3, <1>4, <1>5, <2>1 DEF Register, Wake
  <1>6. ASSUME NEW c \in Starts, RowRead(c) \/ RowUnread(c) \/ RegisterSeen(c)
        PROVE  PollingInv'
    <2>1. c \notin Loops /\ c \notin Claiming
      BY <1>6 DEF RowRead, RowUnread, RegisterSeen, Loops, Claiming
    <2>2. CASE RowRead(c)
      BY <1>3, <2>1, <2>2 DEF RowRead
    <2>3. CASE RowUnread(c)
      <3>1. Loops \subseteq Loops' /\ Claiming \subseteq Claiming' /\ UNCHANGED <<job, refused, server>>
        BY <1>0, <2>1, <2>3, SetsMove DEF RowUnread
      <3>. QED
        BY <3>1 DEF PollingInv
    <2>4. CASE RegisterSeen(c)
      <3>1. starts[c].owner \in BurnOwners
        BY <1>0, <2>4, StartRecordStages DEF RegisterSeen
      <3>. QED
        BY <1>3, <1>4, <2>1, <2>4, <3>1 DEF RegisterSeen
    <2>. QED
      BY <1>6, <2>2, <2>3, <2>4
  <1>7. ASSUME NEW c \in Starts, ClaimLease(c) \/ ClaimUnanswered(c) \/ Granted(c) \/ PollBegin(c) \/ PollNothing(c)
        PROVE  PollingInv'
    BY <1>2, <1>7
      DEF ClaimLease, ClaimUnanswered, Granted, PollBegin, PollNothing, OnlyStart, BeginLoop
  <1>8. ASSUME NEW c \in Starts, Refused(c)
        PROVE  PollingInv'
    BY <1>1, <1>8 DEF Refused
  <1>9. ASSUME NEW c \in Starts, PollFinds(c)
        PROVE  PollingInv'
    <2>1. starts[c].current \in Job
      BY <1>0, <1>9, StartRecordStages DEF PollFinds
    <2>2. job' = [starts[c].current EXCEPT !.status = "ready"]
      BY <1>9 DEF PollFinds, Persist
    <2>. QED
      BY <1>1, <2>1, <2>2, JobsBuilt
  <1>10. ASSUME NEW c \in Starts, LoopExhausted(c)
         PROVE  PollingInv'
    <2>1. job \in Job
      BY <1>0, <1>10 DEF LoopExhausted, JobInv, Loops, AutoMintTypeOK
    <2>2. CASE job.status = "polling"
      <3>1. job' = [job EXCEPT !.status = "retryable", !.next = "number"]
        BY <1>10, <2>2 DEF LoopExhausted, Persist
      <3>. QED
        BY <1>1, <2>1, <3>1, JobsBuilt
    <2>3. CASE job.status # "polling"
      BY <1>1, <1>10, <2>3 DEF LoopExhausted
    <2>. QED
      BY <2>2, <2>3
  <1>11. ASSUME NEW c \in Starts, RetryTimerFires(c)
         PROVE  PollingInv'
    <2>1. CASE UNCHANGED <<job, jobFile, upserts, starts, busy, refused>>
      BY <1>11, <2>1, TimerCall, SetsStay DEF PollingInv
    <2>2. CASE BeginLoop(c, job.owner)
      BY <1>2, <2>2 DEF BeginLoop
    <2>3. CASE Move(c, [stage |-> "claiming", owner |-> job.owner])
      BY <1>2, <2>3
    <2>. QED
      BY <1>11, <2>1, <2>2, <2>3, TimerCall
  <1>12. ASSUME NEW c \in Starts, Resume(c)
         PROVE  PollingInv'
    <2>1. ~busy /\ (Resumable => job.owner \in BurnOwners)
      BY <1>0, <1>12 DEF Resume, JobInv, AutoMintTypeOK, Resumable, Job
    <2>2. CASE Resumable /\ job.status = "polling"
      <3>1. MayClaim(job.owner)
        BY <2>1 DEF MayClaim
      <3>2. CASE BeginLoop(c, job.owner)
        BY <1>2, <3>2 DEF BeginLoop
      <3>3. CASE OnlyStart(c, [stage |-> "claiming", owner |-> job.owner])
        BY <1>2, <3>3 DEF OnlyStart
      <3>. QED
        BY <1>12, <2>2, <3>1, <3>2, <3>3 DEF Resume, StartWorker
    <2>3. CASE ~(Resumable /\ job.status = "polling")
      BY <1>1, <1>12, <2>3 DEF Resume, Resumable, ResumedStatuses, Persist
    <2>. QED
      BY <2>2, <2>3
  <1>13. CASE Hydrate \/ MintCrash
    BY <1>13 DEF Hydrate, MintCrash, PollingInv
  <1>14. CASE (\E c \in Starts : ReleaseLands(c)) \/ (\E j \in upserts : UpsertLands(j))
              \/ MintLeaseExpires \/ WriteLost \/ Attested \/ Listen \/ UNCHANGED amVars
    <2>1. UNCHANGED <<job, refused, starts>> /\ (server' = server \/ server = "resumed")
      BY <1>14 DEF ReleaseLands, UpsertLands, MintLeaseExpires, WriteLost, Attested, Listen, amVars
    <2>. QED
      BY <2>1, SetsStay DEF PollingInv
  <1>. QED
    BY <1>5, <1>6, <1>7, <1>8, <1>9, <1>10, <1>11, <1>12, <1>13, <1>14 DEF AutoMintNext

(* A job that shows polling, which keeps register from starting another       *)
(* worker (server.mjs:3043), has a loop or a claim under way, or was brought *)
(* by a refused claim.                                                       *)
THEOREM SpecNoSilentPolling == AutoMintSpec => []NoSilentPolling
  <1>1. AutoMintInit => JobInv /\ PollingInv
    BY AutoMintInit0 DEF AutoMintInit, PollingInv
  <1>2. JobInv /\ PollingInv /\ [AutoMintNext]_amVars => (JobInv /\ PollingInv)'
    BY JobStep, PollingStep
  <1>3. PollingInv => NoSilentPolling
    BY DEF PollingInv, NoSilentPolling
  <1>. QED
    BY <1>1, <1>2, <1>3, PTL DEF AutoMintSpec

--------------------------------------------------------------------------------
(* One owner. *)

(* A call keeps what it knows of the owner. *)
Knows(rec, o) ==
  /\ rec.stage = "granted" => rec.owner = o
  /\ rec.stage = "refused" => rec.answer.owner = o
  /\ rec.stage = "polling" => rec.current.owner = o

LEMMA OwnedMove ==
  ASSUME AutoMintTypeOK, NEW o, OwnedBy(o), NEW c \in Starts, NEW rec, Move(c, rec), Knows(rec, o),
         \A j \in {job', jobFile', row'} \cup upserts' : j # NoJob => j.owner = o
  PROVE  OwnedBy(o)'
  BY SetsMove DEF OwnedBy, Knows

LEMMA OwnedStay ==
  ASSUME AutoMintTypeOK, NEW o, OwnedBy(o), UNCHANGED starts,
         \A j \in {job', jobFile', row'} \cup upserts' : j # NoJob => j.owner = o
  PROVE  OwnedBy(o)'
  BY DEF OwnedBy

LEMMA OwnedPersist ==
  ASSUME AutoMintTypeOK, NEW o, \A j \in {row} \cup upserts : j # NoJob => j.owner = o, UNCHANGED row,
         NEW k \in Job \cup {NoJob}, k # NoJob => k.owner = o, Persist(k)
  PROVE  \A j \in {job', jobFile', row'} \cup upserts' : j # NoJob => j.owner = o
  <1>1. job' = k /\ jobFile' = k /\ upserts' \subseteq upserts \cup IF leased /\ k # NoJob THEN {Stored(k)} ELSE {}
    BY Persists
  <1>2. k # NoJob => Stored(k).owner = o
    BY JobsBuilt
  <1>. QED
    BY <1>1, <1>2

(* The first to name the owner. *)
LEMMA FirstOwner ==
  ASSUME AutoMintTypeOK, Unclaimed, NEW o \in BurnOwners, NEW c \in Starts, NEW rec, Move(c, rec), Knows(rec, o),
         \A j \in {job', jobFile', row'} \cup upserts' : j # NoJob => j.owner = o
  PROVE  OwnedBy(o)'
  BY SetsMove DEF OwnedBy, Knows, Unclaimed

(* The owner stays, unless the database leaves a call unanswered - which      *)
(* leaves the map alone - or there is none yet.                              *)
LEMMA OwnerStep ==
  ASSUME JobInv, LeaseInv, OwnerInv, [AutoMintNext]_amVars, ~unheard, NEW o \in BurnOwners, OwnedBy(o)
  PROVE  \/ OwnedBy(o)'
         \/ unheard' /\ job' = job
         \/ job = NoJob /\ \E p \in BurnOwners : OwnedBy(p)'
  <1>. DEFINE Goal == \/ OwnedBy(o)'
                      \/ unheard' /\ job' = job
                      \/ job = NoJob /\ \E p \in BurnOwners : OwnedBy(p)'
  <1>. SUFFICES Goal
    OBVIOUS
  <1>0. /\ AutoMintTypeOK /\ \A c \in Starts : starts[c] \in StartRecord
        /\ leased => (row = NoJob => job = NoJob /\ Unclaimed)
        /\ ~leased => /\ row = NoJob /\ upserts = {} /\ Claiming = {}
                      /\ server # "booting" => (job = NoJob => Unclaimed)
        /\ \A j \in {job, jobFile, row} \cup upserts : j # NoJob => j.owner = o
    BY DEF JobInv, AutoMintTypeOK, OwnerInv, LeaseInv, OwnedBy
  <1>1. ASSUME NEW c \in Starts, NEW rec, Move(c, rec), Knows(rec, o),
               UNCHANGED <<job, jobFile, row, upserts>>
        PROVE  Goal
    BY <1>0, <1>1, OwnedMove
  <1>2. ASSUME NEW c \in Starts, NEW rec, Move(c, rec), Knows(rec, o), UNCHANGED row,
               NEW k \in Job, k.owner = o, Persist(k)
        PROVE  Goal
    BY <1>0, <1>2, OwnedMove, OwnedPersist
  <1>3. ASSUME NEW c \in Starts, NEW p \in BurnOwners, BeginLoop(c, p), p = o
        PROVE  Goal
    BY <1>2, <1>3, JobsBuilt DEF BeginLoop, Knows
  <1>4. ASSUME NEW c \in Starts, NEW p \in BurnOwners, ~leased, job = NoJob, server # "booting", BeginLoop(c, p)
        PROVE  Goal
    <2>1. Unclaimed /\ Polling(p) \in Job /\ Polling(p).owner = p /\ UNCHANGED row /\ Persist(Polling(p))
      BY <1>0, <1>4, JobsBuilt DEF BeginLoop
    <2>2. \A j \in {job', jobFile', row'} \cup upserts' : j # NoJob => j.owner = p
      BY <1>0, <2>1, OwnedPersist DEF Unclaimed
    <2>3. Move(c, [stage |-> "loop", polls |-> 0]) /\ Knows([stage |-> "loop", polls |-> 0], p)
      BY <1>4 DEF BeginLoop, Knows
    <2>. QED
      BY <1>0, <1>4, <2>1, <2>2, <2>3, FirstOwner
  <1>5. ASSUME NEW c \in Starts, NEW p \in BurnOwners, StartWorker(c, p), server # "booting"
        PROVE  Goal
    <2>1. CASE OnlyStart(c, [stage |-> "done"])
      BY <1>1, <2>1 DEF OnlyStart, Knows
    <2>2. CASE OnlyStart(c, [stage |-> "claiming", owner |-> p])
      BY <1>1, <2>2 DEF OnlyStart, Knows
    <2>3. CASE MayClaim(p) /\ ~leased /\ BeginLoop(c, p)
      BY <1>0, <1>3, <1>4, <1>5, <2>3 DEF MayClaim
    <2>. QED
      BY <1>0, <1>5, <2>1, <2>2, <2>3, StartedCall
  <1>6. ASSUME NEW c \in Starts, NEW p \in BurnOwners, Register(c, p) \/ Wake(c, p)
        PROVE  Goal
    BY <1>1, <1>5, <1>6 DEF Register, Wake, OnlyStart, Knows
  <1>7. ASSUME NEW c \in Starts, RowRead(c) \/ RowUnread(c)
        PROVE  Goal
    BY <1>1, <1>7 DEF RowRead, RowUnread, OnlyStart, Knows
  <1>8. ASSUME NEW c \in Starts, RegisterSeen(c)
        PROVE  Goal
    <2>1. starts[c].owner \in BurnOwners /\ server # "booting"
      BY <1>0, <1>8, StartRecordStages, ServerRuns DEF RegisterSeen
    <2>2. OnlyStart(c, [stage |-> "done"]) \/ StartWorker(c, starts[c].owner)
      BY <1>8 DEF RegisterSeen
    <2>. QED
      BY <1>1, <1>5, <2>1, <2>2 DEF OnlyStart, Knows
  <1>9. ASSUME NEW c \in Starts, RetryTimerFires(c)
        PROVE  Goal
    <2>1. job \in Job /\ job # NoJob /\ job.owner = o /\ UNCHANGED row
      BY <1>0, <1>9, TimerCall, JobsBuilt
    <2>2. CASE Move(c, [stage |-> "claiming", owner |-> job.owner]) /\ UNCHANGED <<job, jobFile, upserts>>
      BY <1>1, <2>1, <2>2 DEF Knows
    <2>3. CASE BeginLoop(c, job.owner)
      BY <1>3, <2>1, <2>3
    <2>4. CASE UNCHANGED <<job, jobFile, upserts, starts>>
      BY <1>0, <2>1, <2>4, OwnedStay
    <2>. QED
      BY <1>9, <2>2, <2>3, <2>4, TimerCall
  <1>10. ASSUME NEW c \in Starts, ClaimLease(c)
         PROVE  Goal
    <2>. DEFINE p == starts[c].owner
    <2>1. p \in BurnOwners /\ leased
      BY <1>0, <1>10, StartRecordStages DEF ClaimLease, Claiming
    <2>2. Knows([stage |-> "granted", owner |-> p], p) /\ UNCHANGED <<job, jobFile, upserts>>
      BY <1>10 DEF ClaimLease, Knows
    <2>3. CASE row = NoJob
      <3>1. row' = Polling(p) /\ Move(c, [stage |-> "granted", owner |-> p])
        BY <1>10, <2>3 DEF ClaimLease
      <3>2. \A j \in {job', jobFile', row'} \cup upserts' : j # NoJob => j.owner = p
        <4>1. job' = NoJob /\ jobFile' = NoJob /\ upserts' = {}
          BY <1>0, <2>1, <2>2, <2>3 DEF Unclaimed
        <4>2. Polling(p).owner = p
          BY <2>1, JobsBuilt
        <4>. QED
          BY <3>1, <4>1, <4>2
      <3>3. \E q \in BurnOwners : OwnedBy(q)'
        <4>1. PICK q \in BurnOwners : q = p
          BY <2>1
        <4>2. Knows([stage |-> "granted", owner |-> p], q)
          BY <2>2, <4>1
        <4>3. \A j \in {job', jobFile', row'} \cup upserts' : j # NoJob => j.owner = q
          BY <3>2, <4>1
        <4>4. OwnedBy(q)'
          BY <1>0, <2>1, <2>3, <3>1, <4>2, <4>3, FirstOwner
        <4>. QED
          BY <4>4
      <3>. QED
        BY <1>0, <2>1, <2>3, <3>3
    <2>4. CASE row # NoJob /\ row.owner = p /\ LeaseFree(c)
      <3>1. UNCHANGED row /\ Move(c, [stage |-> "granted", owner |-> p]) /\ p = o
        BY <1>0, <1>10, <2>4 DEF ClaimLease
      <3>. QED
        BY <1>1, <2>2, <3>1
    <2>5. CASE row # NoJob /\ (row.owner # p \/ ~LeaseFree(c))
      <3>1. UNCHANGED row /\ Move(c, [stage |-> "refused", answer |-> row]) /\ row.owner = o
        BY <1>0, <1>10, <2>5 DEF ClaimLease
      <3>2. Knows([stage |-> "refused", answer |-> row], o)
        BY <3>1 DEF Knows
      <3>. QED
        BY <1>1, <2>2, <3>1, <3>2
    <2>. QED
      BY <2>3, <2>4, <2>5
  <1>11. ASSUME NEW c \in Starts, ClaimUnanswered(c)
         PROVE  Goal
    BY <1>11 DEF ClaimUnanswered
  <1>12. ASSUME NEW c \in Starts, Granted(c)
         PROVE  Goal
    BY <1>3, <1>12 DEF Granted, OwnedBy
  <1>13. ASSUME NEW c \in Starts, Refused(c)
         PROVE  Goal
    <2>1. starts[c].answer \in Job /\ starts[c].answer.owner = o
      BY <1>0, <1>13, StartRecordStages DEF Refused, OwnedBy
    <2>. QED
      BY <1>2, <1>13, <2>1 DEF Refused, Finished, Knows
  <1>14. ASSUME NEW c \in Starts, PollBegin(c)
         PROVE  Goal
    <2>1. job # NoJob
      BY <1>14 DEF PollBegin, JobInv, Loops
    <2>. QED
      BY <1>0, <1>1, <1>14, <2>1 DEF PollBegin, OnlyStart, Knows
  <1>15. ASSUME NEW c \in Starts, PollFinds(c)
         PROVE  Goal
    <2>1. starts[c].current \in Job /\ starts[c].current.owner = o
      BY <1>0, <1>15, StartRecordStages DEF PollFinds, OwnedBy
    <2>2. Persist([starts[c].current EXCEPT !.status = "ready"]) /\ UNCHANGED row /\ Move(c, [stage |-> "done"])
      BY <1>15 DEF PollFinds, LeaveLoop, LoopUnchanged, Finished
    <2>. QED
      BY <1>2, <2>1, <2>2, JobsBuilt DEF Knows
  <1>16. ASSUME NEW c \in Starts, PollNothing(c)
         PROVE  Goal
    <2>1. starts[c].current \in Job /\ starts[c].current.owner = o
      BY <1>0, <1>16, StartRecordStages DEF PollNothing, OwnedBy
    <2>2. UNCHANGED row /\ Move(c, [stage |-> "loop", polls |-> starts[c].polls + 1])
          /\ Knows([stage |-> "loop", polls |-> starts[c].polls + 1], o)
      BY <1>16 DEF PollNothing, LoopUnchanged, Knows
    <2>3. CASE Persist(starts[c].current)
      BY <1>2, <2>1, <2>2, <2>3
    <2>4. CASE job' = starts[c].current /\ UNCHANGED <<jobFile, upserts>>
      BY <1>0, <2>1, <2>2, <2>4, OwnedMove
    <2>. QED
      BY <1>16, <2>3, <2>4 DEF PollNothing
  <1>17. ASSUME NEW c \in Starts, LoopExhausted(c)
         PROVE  Goal
    <2>1. job \in Job /\ job # NoJob /\ job.owner = o
      BY <1>0, <1>17 DEF LoopExhausted, JobInv, Loops, AutoMintTypeOK
    <2>2. UNCHANGED row /\ Move(c, [stage |-> "done"]) /\ Knows([stage |-> "done"], o)
      BY <1>17 DEF LoopExhausted, LeaveLoop, LoopUnchanged, Finished, Knows
    <2>3. CASE job.status = "polling"
      BY <1>2, <1>17, <2>1, <2>2, <2>3, JobsBuilt DEF LoopExhausted
    <2>4. CASE job.status # "polling"
      BY <1>1, <1>17, <2>2, <2>4 DEF LoopExhausted
    <2>. QED
      BY <2>3, <2>4
  <1>18. ASSUME NEW c \in Starts, Resume(c)
         PROVE  Goal
    <2>1. CASE Resumable /\ StartWorker(c, job.owner)
      <3>1. job.owner \in BurnOwners /\ server # "booting"
        BY <1>0, <1>18, <2>1 DEF Resume, Resumable, AutoMintTypeOK, Job
      <3>. QED
        BY <1>5, <2>1, <3>1
    <2>2. CASE Resumable /\ Persist(job) /\ UNCHANGED <<row, starts>>
      BY <1>0, <2>2, OwnedPersist, OwnedStay DEF Resumable, AutoMintTypeOK
    <2>3. CASE UNCHANGED <<job, jobFile, row, upserts, starts>>
      BY <1>0, <2>3, OwnedStay
    <2>. QED
      BY <1>18, <2>1, <2>2, <2>3 DEF Resume
  <1>19. CASE MintCrash
    <2>1. \A c \in Starts : starts'[c].stage \in {"new", "done"}
      BY <1>0, <1>19 DEF MintCrash, MayEnter
    <2>. QED
      BY <1>0, <1>19, <2>1 DEF MintCrash, OwnedBy
  <1>20. CASE Hydrate
    <2>1. \A j \in {job', jobFile', row'} \cup upserts' : j # NoJob => j.owner = o
      <3>1. jobFile # NoJob => Stored(jobFile).owner = o
        BY ZenonT(60), <1>0, JobsBuilt DEF AutoMintTypeOK
      <3>2. /\ job' \in {row, jobFile} /\ row' \in {row, Stored(jobFile)}
            /\ UNCHANGED <<jobFile, upserts>> /\ Stored(NoJob) = NoJob
        BY <1>20, JobsBuilt DEF Hydrate
      <3>. QED
        BY <1>0, <3>1, <3>2
    <2>. QED
      BY <1>0, <1>20, <2>1, OwnedStay DEF Hydrate
  <1>21. CASE (\E c \in Starts : ReleaseLands(c)) \/ (\E j \in upserts : UpsertLands(j))
              \/ MintLeaseExpires \/ WriteLost \/ Attested \/ Listen \/ UNCHANGED amVars
    <2>1. UNCHANGED <<job, jobFile, starts>> /\ upserts' \subseteq upserts /\ row' \in {row} \cup upserts
      BY <1>21 DEF ReleaseLands, UpsertLands, MintLeaseExpires, WriteLost, Attested, Listen, amVars
    <2>. QED
      BY <1>0, <2>1, OwnedStay
  <1>. QED
    BY <1>6, <1>7, <1>8, <1>9, <1>10, <1>11, <1>12, <1>13, <1>14, <1>15, <1>16, <1>17, <1>18,
      <1>19, <1>20, <1>21 DEF AutoMintNext

(* Where the owner is to be read while nothing has been left unanswered.     *)
LEMMA OwnerPlaces ==
  ASSUME JobInv, LeaseInv, OwnerInv, [AutoMintNext]_amVars, ~unheard'
  PROVE  IF leased' THEN row' = NoJob => job' = NoJob /\ Unclaimed'
         ELSE /\ row' = NoJob /\ upserts' = {}
              /\ server' # "booting" => (job' = NoJob => Unclaimed')
  <1>. DEFINE Places == IF leased THEN row = NoJob => job = NoJob /\ Unclaimed
                        ELSE /\ row = NoJob /\ upserts = {}
                             /\ server # "booting" => (job = NoJob => Unclaimed)
  <1>. SUFFICES Places'
    OBVIOUS
  <1>0. /\ AutoMintTypeOK /\ ~unheard /\ leased' = leased /\ leased \in BOOLEAN
        /\ \A c \in Starts : starts[c] \in StartRecord
        /\ leased => (row = NoJob => job = NoJob /\ Unclaimed)
        /\ ~leased => /\ row = NoJob /\ upserts = {} /\ Claiming = {}
                      /\ server # "booting" => (job = NoJob => Unclaimed)
    <2>1. ~unheard
      BY ZenonT(60) DEF AutoMintNext, amVars, Register, Wake, RowRead, RowUnread, RegisterSeen, RetryTimerFires,
        ClaimLease, ClaimUnanswered, Granted, Refused, ReleaseLands, PollBegin, PollFinds, PollNothing,
        LoopExhausted, Resume, UpsertLands, MintLeaseExpires, WriteLost, Attested, MintCrash, Hydrate,
        Listen, StartWorker, OnlyStart, NoTrouble, LoopUnchanged
    <2>. QED
      BY <2>1, ModeStays DEF JobInv, AutoMintTypeOK, OwnerInv, LeaseInv
  <1>. HIDE DEF Places
  <1>1. ASSUME NEW c \in Starts, NEW rec, Move(c, rec), rec.stage \notin {"granted", "refused", "polling"},
               UNCHANGED <<job, jobFile, row, upserts>>, server # "booting" \/ UNCHANGED server
        PROVE  Places'
    BY <1>0, <1>1, SetsMove DEF Places, Unclaimed
  <1>2. ASSUME leased => row' # NoJob, ~leased => row' = NoJob /\ upserts' = {} /\ job' # NoJob
        PROVE  Places'
    BY <1>0, <1>2 DEF Places
  <1>3. ASSUME NEW j \in Job, Persist(j), UNCHANGED row, leased => row # NoJob
        PROVE  Places'
    <2>1. job' = j /\ j # NoJob /\ (~leased => upserts' = upserts)
      BY <1>3, JobsBuilt DEF Persist
    <2>. QED
      BY <1>0, <1>2, <1>3, <2>1
  <1>4. ASSUME NEW c \in Starts, NEW p \in BurnOwners, StartWorker(c, p), server # "booting"
        PROVE  Places'
    <2>1. CASE ~leased /\ BeginLoop(c, p)
      BY <1>3, <2>1, JobsBuilt DEF BeginLoop
    <2>2. CASE OnlyStart(c, [stage |-> "done"])
      BY <1>1, <1>4, <2>2 DEF OnlyStart
    <2>3. CASE OnlyStart(c, [stage |-> "claiming", owner |-> p])
      BY <1>1, <1>4, <2>3 DEF OnlyStart
    <2>. QED
      BY <1>0, <1>4, <2>1, <2>2, <2>3, StartedCall
  <1>5. ASSUME NEW c \in Starts, NEW p \in BurnOwners, Register(c, p) \/ Wake(c, p)
        PROVE  Places'
    BY <1>1, <1>4, <1>5 DEF Register, Wake, OnlyStart
  <1>6. ASSUME NEW c \in Starts, RowRead(c) \/ RegisterSeen(c)
        PROVE  Places'
    <2>1. server # "booting"
      BY <1>6, ServerRuns DEF RowRead, RegisterSeen
    <2>2. CASE RowRead(c)
      BY <1>1, <2>1, <2>2 DEF RowRead, OnlyStart
    <2>3. CASE RegisterSeen(c)
      <3>1. starts[c].owner \in BurnOwners
        BY <1>0, <2>3, StartRecordStages DEF RegisterSeen
      <3>2. OnlyStart(c, [stage |-> "done"]) \/ StartWorker(c, starts[c].owner)
        BY <2>3 DEF RegisterSeen
      <3>. QED
        BY <1>1, <1>4, <2>1, <3>1, <3>2 DEF OnlyStart
    <2>. QED
      BY <1>6, <2>2, <2>3
  <1>7. ASSUME NEW c \in Starts, RowUnread(c) \/ ClaimUnanswered(c)
        PROVE  Places'
    BY <1>7 DEF RowUnread, ClaimUnanswered
  <1>8. ASSUME NEW c \in Starts, RetryTimerFires(c)
        PROVE  Places'
    <2>1. job \in Job /\ job # NoJob /\ job.owner \in BurnOwners /\ UNCHANGED row
      BY <1>8, TimerCall, JobsBuilt DEF Job
    <2>2. job' # NoJob /\ (~leased => upserts' = {})
      BY <1>0, <1>8, <2>1, TimerCall, JobsBuilt DEF BeginLoop, Persist
    <2>. QED
      BY <1>0, <1>2, <2>1, <2>2
  <1>9. ASSUME NEW c \in Starts, ClaimLease(c)
        PROVE  Places'
    <2>1. leased /\ starts[c].owner \in BurnOwners
      BY <1>0, <1>9, StartRecordStages DEF ClaimLease, Claiming
    <2>2. row' # NoJob
      BY <1>9, <2>1, JobsBuilt DEF ClaimLease
    <2>. QED
      BY <1>0, <1>2, <2>1, <2>2
  <1>10. ASSUME NEW c \in Starts, Granted(c) \/ Refused(c) \/ PollFinds(c)
         PROVE  Places'
    <2>1. UNCHANGED row /\ (leased => row # NoJob)
      BY <1>0, <1>10 DEF Granted, Refused, PollFinds, BeginLoop, LoopUnchanged, Unclaimed
    <2>2. \E j \in Job : Persist(j)
      BY <1>0, <1>10, StartRecordStages, JobsBuilt DEF Granted, BeginLoop, Refused, PollFinds
    <2>. QED
      BY <1>3, <2>1, <2>2
  <1>11. ASSUME NEW c \in Starts, PollBegin(c) \/ LoopExhausted(c)
         PROVE  Places'
    <2>1. job \in Job /\ job # NoJob /\ UNCHANGED row
      BY <1>0, <1>11
        DEF PollBegin, LoopExhausted, OnlyStart, LoopUnchanged, JobInv, Loops, AutoMintTypeOK
    <2>2. job' # NoJob /\ (~leased => upserts' = {})
      BY <1>0, <1>11, <2>1, JobsBuilt DEF PollBegin, LoopExhausted, OnlyStart, Persist
    <2>. QED
      BY <1>0, <1>2, <2>1, <2>2
  <1>12. ASSUME NEW c \in Starts, PollNothing(c)
         PROVE  Places'
    <2>1. starts[c].current \in Job /\ UNCHANGED row /\ (leased => row # NoJob)
      BY <1>0, <1>12, StartRecordStages DEF PollNothing, LoopUnchanged, Unclaimed
    <2>2. job' # NoJob /\ (~leased => upserts' = {})
      BY <1>0, <1>12, <2>1, JobsBuilt DEF PollNothing, Persist
    <2>. QED
      BY <1>0, <1>2, <2>1, <2>2
  <1>13. ASSUME NEW c \in Starts, Resume(c)
         PROVE  Places'
    <2>1. server # "booting"
      BY <1>13 DEF Resume
    <2>2. CASE Resumable
      <3>1. job \in Job /\ job # NoJob /\ job.owner \in BurnOwners
        BY <1>0, <2>2 DEF Resumable, AutoMintTypeOK, Job
      <3>. QED
        BY <1>0, <1>3, <1>4, <1>13, <2>1, <2>2, <3>1 DEF Resume
    <2>3. CASE ~Resumable
      BY <1>0, <1>13, <2>1, <2>3 DEF Resume, Places, Unclaimed
    <2>. QED
      BY <2>2, <2>3
  <1>14. CASE MintCrash
    <2>1. /\ \A c \in Starts : starts'[c].stage \in {"new", "done"}
          /\ job' = NoJob /\ upserts' \subseteq upserts /\ UNCHANGED <<jobFile, row>> /\ server' = "booting"
      BY <1>0, <1>14 DEF MintCrash, MayEnter
    <2>. QED
      BY <1>0, <2>1 DEF Places, Unclaimed
  <1>15. CASE Hydrate
    <2>1. \A c \in Starts : starts[c].stage \in {"new", "done"}
      BY <1>15 DEF Hydrate, JobInv
    <2>2. UNCHANGED <<starts, jobFile, upserts>>
      BY <1>15 DEF Hydrate
    <2>3. CASE leased
      <3>1. row' = NoJob => row = NoJob /\ job' = jobFile
        BY <1>0, <1>15, <2>3, JobsBuilt DEF Hydrate, AutoMintTypeOK
      <3>. QED
        BY <1>0, <2>2, <2>3, <3>1 DEF Places, Unclaimed
    <2>4. CASE ~leased
      <3>1. job' = jobFile /\ row' = row
        BY <1>15, <2>4, <1>0 DEF Hydrate
      <3>. QED
        BY <1>0, <2>1, <2>2, <2>4, <3>1 DEF Places, Unclaimed
    <2>. QED
      BY <2>3, <2>4
  <1>16. ASSUME NEW j \in upserts, UpsertLands(j)
         PROVE  Places'
    <2>1. leased /\ row' # NoJob
      BY <1>0, <1>16, JobsBuilt DEF UpsertLands, AutoMintTypeOK
    <2>. QED
      BY <1>0, <1>2, <2>1
  <1>17. CASE (\E c \in Starts : ReleaseLands(c)) \/ MintLeaseExpires \/ WriteLost \/ Attested
              \/ Listen \/ UNCHANGED amVars
    <2>1. /\ UNCHANGED <<job, jobFile, row, starts>> /\ upserts' \subseteq upserts
          /\ server' = server \/ server # "booting"
      BY <1>17 DEF ReleaseLands, MintLeaseExpires, WriteLost, Attested, Listen, amVars
    <2>. QED
      BY <1>0, <2>1 DEF Places, Unclaimed
  <1>. QED
    BY <1>5, <1>6, <1>7, <1>8, <1>9, <1>10, <1>11, <1>12, <1>13, <1>14, <1>15, <1>16, <1>17
      DEF AutoMintNext

LEMMA OwnerInvStep ==
  ASSUME JobInv, LeaseInv, OwnerInv, [AutoMintNext]_amVars
  PROVE  OwnerInv'
  <1>. SUFFICES ASSUME ~unheard' PROVE \E o \in BurnOwners : OwnedBy(o)'
    BY OwnerPlaces DEF OwnerInv
  <1>1. ~unheard
    BY ZenonT(60) DEF AutoMintNext, amVars, Register, Wake, RowRead, RowUnread, RegisterSeen, RetryTimerFires,
      ClaimLease, ClaimUnanswered, Granted, Refused, ReleaseLands, PollBegin, PollFinds, PollNothing,
      LoopExhausted, Resume, UpsertLands, MintLeaseExpires, WriteLost, Attested, MintCrash, Hydrate,
      Listen, StartWorker, OnlyStart, NoTrouble, LoopUnchanged
  <1>2. PICK o \in BurnOwners : OwnedBy(o)
    BY <1>1 DEF OwnerInv
  <1>. QED
    BY <1>1, <1>2, OwnerStep

(* A burn belongs to the wallet that registered it first (server.mjs:2948),   *)
(* whatever registrations, notifications, restarts and lapsed leases follow,  *)
(* until the database leaves a claim or a read without an answer.             *)
THEOREM SpecBurnOwnerKept == AutoMintSpec => BurnOwnerKept
  <1>. DEFINE Inv == JobInv /\ LeaseInv /\ (OwnerInv \/ BurnOwners = {})
  <1>1. AutoMintInit => Inv
    <2>. SUFFICES ASSUME AutoMintInit, NEW o \in BurnOwners PROVE OwnerInv
      BY AutoMintInit0
    <2>1. OwnedBy(o) /\ Unclaimed
      BY DEF AutoMintInit, OwnedBy, Unclaimed
    <2>. QED
      BY <2>1 DEF AutoMintInit, OwnerInv
  <1>2. Inv /\ [AutoMintNext]_amVars => Inv'
    BY JobStep, LeaseStep, OwnerInvStep
  <1>3. Inv /\ [AutoMintNext]_amVars =>
          [job # NoJob /\ job' # NoJob => job'.owner = job.owner \/ unheard]_amVars
    <2>. SUFFICES ASSUME Inv, [AutoMintNext]_amVars, job # NoJob, job' # NoJob, ~unheard
                  PROVE  job'.owner = job.owner
      OBVIOUS
    <2>0. BurnOwners # {}
      BY JobsBuilt DEF JobInv, AutoMintTypeOK, Job
    <2>1. PICK p \in BurnOwners : OwnedBy(p)
      BY <2>0 DEF OwnerInv
    <2>2. OwnedBy(p)' \/ job' = job
      BY <2>0, <2>1, OwnerStep
    <2>. QED
      BY <2>1, <2>2 DEF OwnedBy
  <1>. QED
    BY <1>1, <1>2, <1>3, PTL DEF AutoMintSpec, BurnOwnerKept

--------------------------------------------------------------------------------
(* The destination mint. *)

OpNames == Mints \cup {NoMint}
Outcomes == {"success", "rejected", "refused", "pending"}
Working == {"asking", "checking_lock", "checking_approval", "preparing", "submitting"}

(* What a request read of its approval. *)
SeenOK(kind, seen) ==
  kind = "request" => /\ seen.op \in OpNames
                      /\ seen.phase \in DestinationPhases \cup {"source_confirmed"}

(* A call at work names an operation, one whose status it asks for; one that  *)
(* answers says "success" of a used nonce only.                             *)
CallOK(c, used) ==
  /\ c.stage \in Working =>
       /\ {"stage", "kind", "seen", "op", "at", "row", "asked"} \subseteq DOMAIN c
       /\ c.op \in OpNames /\ SeenOK(c.kind, c.seen)
  /\ c.stage \in {"checking_lock", "checking_approval"} => c.op \in Mints
  /\ c.stage = "answering" =>
       /\ c.op \in OpNames /\ SeenOK(c.kind, c.seen)
       /\ c.outcome \in Outcomes
       /\ c.outcome = "success" => used

RowsOK == approvals \in Seq(MintApproval) /\ approvals # <<>>
CallsOK == DOMAIN mints = Mints /\ \A m \in Mints : CallOK(mints[m], nonceUsed)
Landed == DOMAIN mintOps = Mints /\ \A m \in Mints : mintOps[m] = "landed" => nonceUsed

(* Whatever says that the burn is minted says so of a used nonce: an answer,  *)
(* an approval, a mined operation, and the outcome a call is about to write.  *)
MintedInv ==
  /\ CallsOK
  /\ RowsOK
  /\ lock.op \in OpNames
  /\ Landed /\ SuccessMeansMinted

(* A call that leaves with a success leaves after the nonce.                 *)
LEMMA EndingOK ==
  ASSUME NEW kind, NEW n, NEW seen, NEW outcome \in Outcomes, NEW op \in OpNames, NEW used,
         outcome = "success" => used, SeenOK(kind, seen)
  PROVE  CallOK(Ending(kind, n, seen, outcome, op), used)
  BY DEF CallOK, Ending, Ended, Working

(* One call moves while the nonce is not given back. *)
LEMMA OneCallMoves ==
  ASSUME CallsOK, NEW m \in Mints, NEW c,
         nonceUsed => nonceUsed', CallOK(c, nonceUsed'),
         mints' = [mints EXCEPT ![m] = c]
  PROVE  CallsOK'
  BY DEF CallsOK, CallOK

LEMMA LeavesOK ==
  ASSUME CallsOK, NEW m \in Mints, NEW outcome \in Outcomes, NEW op \in OpNames,
         nonceUsed => nonceUsed', outcome = "success" => nonceUsed',
         mints[m].stage \in Working, Leaves(m, outcome, op)
  PROVE  CallsOK'
<1> DEFINE c == Ending(mints[m].kind, mints[m].asked, mints[m].seen, outcome, op)
<1>1. SeenOK(mints[m].kind, mints[m].seen) BY DEF CallsOK, CallOK
<1>2. CallOK(c, nonceUsed') BY <1>1, EndingOK
<1>3. mints' = [mints EXCEPT ![m] = c] BY DEF Leaves
<1> HIDE DEF c
<1>. QED BY <1>2, <1>3, OneCallMoves

LEMMA Refusal ==
  ASSUME CallsOK, NEW m \in Mints, nonceUsed => nonceUsed', mints[m].stage \in Working, Refuses(m)
  PROVE  CallsOK' /\ claimed' = claimed
<1>1. Leaves(m, "refused", NoMint) /\ claimed' = claimed BY DEF Refuses
<1>. QED BY <1>1, LeavesOK DEF Outcomes, OpNames

LEMMA Waiting ==
  ASSUME CallsOK, NEW m \in Mints, NEW op \in OpNames, nonceUsed => nonceUsed',
         mints[m].stage \in Working, Waits(m, op)
  PROVE  CallsOK' /\ claimed' = claimed
<1>1. claimed' = claimed BY DEF Waits
<1>2. CASE op = NoMint BY <1>1, <1>2, LeavesOK DEF Waits, Outcomes
<1>3. CASE op # NoMint BY <1>1, <1>3, LeavesOK DEF Waits, Outcomes
<1>. QED BY <1>2, <1>3

LEMMA Claim ==
  ASSUME CallsOK, NEW m \in Mints, NEW op \in OpNames, nonceUsed => nonceUsed', nonceUsed',
         mints[m].stage \in Working, Claims(m, op)
  PROVE  CallsOK'
<1>1. Leaves(m, "success", op) BY DEF Claims
<1>. QED BY <1>1, LeavesOK DEF Outcomes

(* A call at work goes to another stage of it. *)
LEMMA Works ==
  ASSUME CallsOK, NEW m \in Mints, mints[m].stage \in Working,
         NEW s \in {"preparing", "submitting"}, NEW r, nonceUsed' = nonceUsed,
         \/ mints' = [mints EXCEPT ![m].stage = s, ![m].row = r]
         \/ mints' = [mints EXCEPT ![m].stage = s]
  PROVE  CallsOK'
<1> DEFINE c == mints'[m]
<1>1. CallOK(mints[m], nonceUsed) BY DEF CallsOK
<1>2. /\ {"stage", "kind", "seen", "op", "at", "row", "asked"} \subseteq DOMAIN c
      /\ c.stage = s /\ c.kind = mints[m].kind /\ c.seen = mints[m].seen /\ c.op = mints[m].op
  BY <1>1 DEF CallsOK, CallOK
<1>3. CallOK(c, nonceUsed')
  <2> HIDE DEF c
  <2>. QED BY <1>1, <1>2 DEF CallOK, Working
<1>4. mints' = [mints EXCEPT ![m] = c] BY DEF CallsOK
<1> HIDE DEF c
<1>. QED BY <1>3, <1>4, OneCallMoves

Fields == {"stage", "kind", "seen", "op", "at", "row", "asked"}

LEMMA CheckRecord ==
  ASSUME NEW c, Fields \subseteq DOMAIN c, NEW s, NEW op, NEW n
  PROVE  /\ LET d == [c EXCEPT !.stage = s, !.op = op, !.at = n] IN
            Fields \subseteq DOMAIN d /\ d.stage = s /\ d.op = op /\ d.kind = c.kind /\ d.seen = c.seen
         /\ LET d == [c EXCEPT !.stage = s, !.op = op] IN
            Fields \subseteq DOMAIN d /\ d.stage = s /\ d.op = op /\ d.kind = c.kind /\ d.seen = c.seen
  BY DEF Fields

(* A call asks for the status of an operation. *)
LEMMA Checks ==
  ASSUME CallsOK, NEW m \in Mints, mints[m].stage \in Working, nonceUsed' = nonceUsed,
         NEW c, Fields \subseteq DOMAIN c, c.kind = mints[m].kind, c.seen = mints[m].seen,
         c.stage \in {"checking_lock", "checking_approval"}, c.op \in Mints,
         mints' = [mints EXCEPT ![m] = c]
  PROVE  CallsOK'
<1>1. CallOK(mints[m], nonceUsed) BY DEF CallsOK
<1>2. CallOK(c, nonceUsed') BY <1>1 DEF CallOK, Working, OpNames, Fields
<1>. QED BY <1>2, OneCallMoves

(* A call begins. *)
LEMMA Asking ==
  ASSUME CallsOK, NEW m \in Mints, NEW kind, NEW n,
         kind = "request" => n \in DOMAIN approvals, RowsOK,
         nonceUsed' = nonceUsed, Asks(m, kind, n)
  PROVE  CallsOK'
<1> DEFINE seen == IF kind = "request" THEN Shown(n) ELSE [phase |-> "none"]
           asking == [stage |-> "asking", kind |-> kind, row |-> n, asked |-> n, seen |-> seen,
                      op |-> NoMint, at |-> 0]
           ended == Ending(kind, n, seen, IF IrisSays = "rejected" THEN "rejected" ELSE "refused", NoMint)
<1>1. SeenOK(kind, seen)
  <2>. SUFFICES ASSUME kind = "request"
       PROVE  seen.op \in OpNames /\ seen.phase \in DestinationPhases \cup {"source_confirmed"}
    BY DEF SeenOK
  <2>1. approvals[n] \in MintApproval BY DOMAIN approvals = 1 .. Len(approvals) DEF RowsOK
  <2>2. seen = [phase |-> approvals[n].phase, op |-> approvals[n].op] BY DEF Shown
  <2>. QED BY <2>1, <2>2 DEF MintApproval, OpNames
<1>2. CallOK(asking, nonceUsed') BY <1>1 DEF CallOK, Working, OpNames
<1>3. CallOK(ended, nonceUsed') BY <1>1, EndingOK DEF Outcomes, OpNames
<1>4. mints' = [mints EXCEPT ![m] = asking] \/ mints' = [mints EXCEPT ![m] = ended]
  BY DEF Asks
<1> HIDE DEF asking, ended
<1>. QED BY <1>2, <1>3, <1>4, OneCallMoves

(* The oldest of some rows is one of them, and no row is older. *)
LEMMA FirstIsIn ==
  ASSUME NEW S, S \subseteq Nat, S # {}
  PROVE  FirstIn(S) \in S /\ \A j \in S : FirstIn(S) <= j
<1> DEFINE R == {ss \in Nat \X Nat : ss[1] < ss[2]}
<1>1. IsWellFoundedOn(R, Nat) BY NatLessThanWellFounded DEF OpToRel
<1>2. PICK x \in S : \A y \in S : ~(<<y, x>> \in R)
  <2> HIDE DEF R
  <2>. QED BY <1>1, WFMin
<1>3. ASSUME NEW y \in S PROVE x <= y
  <2>1. x \in Nat /\ y \in Nat OBVIOUS
  <2>2. y < x => <<y, x>> \in R BY <2>1
  <2>. QED BY <1>2, <2>1, <2>2
<1>. QED BY <1>3 DEF FirstIn

(* A write of one approval. *)
LEMMA RowWritten ==
  ASSUME RowsOK, SuccessMeansMinted, NEW n, NEW r,
         n \in DOMAIN approvals => /\ r \in MintApproval
                                   /\ r.status = "success" => nonceUsed',
         nonceUsed => nonceUsed', claimed' => claimed \/ nonceUsed',
         approvals' = [approvals EXCEPT ![n] = r]
  PROVE  RowsOK' /\ SuccessMeansMinted'
<1>1. RowsOK'
  <2>1. CASE n \in DOMAIN approvals BY <2>1, ExceptSeq DEF RowsOK
  <2>2. CASE n \notin DOMAIN approvals
    <3>1. approvals' = approvals BY <2>2 DEF RowsOK
    <3>. QED BY <3>1 DEF RowsOK
  <2>. QED BY <2>1, <2>2
<1>2. \A k \in DOMAIN approvals' : approvals'[k].status = "success" => nonceUsed'
  BY DOMAIN approvals' = DOMAIN approvals DEF SuccessMeansMinted
<1>. QED BY <1>1, <1>2 DEF SuccessMeansMinted

(* The approvals and the answers stay. *)
LEMMA RowsStay ==
  ASSUME RowsOK, SuccessMeansMinted,
         nonceUsed => nonceUsed', claimed' => claimed \/ nonceUsed', approvals' = approvals
  PROVE  RowsOK' /\ SuccessMeansMinted'
  BY DEF SuccessMeansMinted, RowsOK

(* findPendingBridgeMint writes no approval and claims nothing. *)
LEMMA PastLockOK ==
  ASSUME MintedInv, NEW m \in Mints, mints[m].stage \in Working, nonceUsed' = nonceUsed, PastLock(m)
  PROVE  CallsOK' /\ lock'.op \in OpNames /\ approvals' = approvals /\ claimed' = claimed
<1> DEFINE n == FirstIn(Submissions)
<1>. CallsOK /\ RowsOK /\ lock.op \in OpNames BY DEF MintedInv
<1>1. Submissions # {} => approvals[n].op \in OpNames
  <2>. SUFFICES ASSUME Submissions # {} PROVE approvals[n].op \in OpNames OBVIOUS
  <2>1. Submissions \subseteq DOMAIN approvals BY DEF Submissions
  <2>2. DOMAIN approvals \subseteq Nat BY DOMAIN approvals = 1 .. Len(approvals) DEF RowsOK
  <2>3. n \in Submissions BY <2>1, <2>2, FirstIsIn
  <2>4. approvals[n] \in MintApproval
    BY <2>1, <2>3, DOMAIN approvals = 1 .. Len(approvals) DEF RowsOK
  <2>. QED BY <2>4 DEF MintApproval, OpNames
<1> HIDE DEF n
<1>2. ASSUME TakeLock(m) PROVE CallsOK' /\ lock'.op \in OpNames /\ approvals' = approvals /\ claimed' = claimed
  <2>1. CallsOK' BY <1>2, Works DEF TakeLock
  <2>. QED BY <1>2, <2>1 DEF TakeLock, Lock, OpNames
<1>3. CASE TakeLock(m) BY <1>2, <1>3
<1>4. CASE Refuses(m) /\ lock' = Lock(m, NoMint, n) /\ approvals' = approvals
  <2>1. CallsOK' /\ claimed' = claimed BY <1>4, Refusal
  <2>. QED BY <1>4, <2>1 DEF Lock, OpNames
<1>5. CASE /\ Submissions # {} /\ approvals[n].op # NoMint
           /\ mints' = [mints EXCEPT ![m] = [mints[m] EXCEPT
                !.stage = "checking_approval", !.op = approvals[n].op, !.at = n]]
           /\ lock' = NoLock /\ UNCHANGED <<approvals, claimed, recovered>>
  <2> DEFINE c == [mints[m] EXCEPT
                     !.stage = "checking_approval", !.op = approvals[n].op, !.at = n]
  <2>1. approvals[n].op \in Mints BY <1>1, <1>5 DEF OpNames
  <2>2. Fields \subseteq DOMAIN mints[m] BY DEF CallsOK, CallOK, Fields
  <2>3. /\ Fields \subseteq DOMAIN c /\ c.stage = "checking_approval" /\ c.op = approvals[n].op
        /\ c.kind = mints[m].kind /\ c.seen = mints[m].seen
    BY <2>2, CheckRecord
  <2>4. mints' = [mints EXCEPT ![m] = c] BY <1>5
  <2> HIDE DEF c
  <2>5. CallsOK' BY <2>1, <2>3, <2>4, Checks
  <2>. QED BY <1>5, <2>5 DEF NoLock, OpNames
<1>. QED BY <1>3, <1>4, <1>5 DEF PastLock, n

LEMMA LandedStays ==
  ASSUME Landed, mintOps' = mintOps, nonceUsed => nonceUsed'
  PROVE  Landed'
  BY DEF Landed

(* A call begins: nothing but the call changes. *)
LEMMA AsksMinted ==
  ASSUME MintedInv, NEW m \in Mints,
         \/ AsksByExecution(m) \/ AsksByBurn(m) \/ Unproven(m)
         \/ \E n \in DOMAIN approvals : AsksByRequest(m, n)
  PROVE  MintedInv'
<1>. CallsOK /\ RowsOK /\ lock.op \in OpNames /\ Landed /\ SuccessMeansMinted
  BY DEF MintedInv
<1>1. /\ UNCHANGED <<iris, lock, approvals, mintOps, nonceUsed, claimed>>
  BY DEF AsksByExecution, AsksByBurn, Unproven, AsksByRequest, MintStays, AskedOnly
<1>2. ASSUME NEW n \in DOMAIN approvals, NEW outcome \in Outcomes \ {"success"},
             mints' = [mints EXCEPT ![m] = Ending("request", n, Shown(n), outcome, NoMint)]
      PROVE  CallsOK'
  <2>1. approvals[n] \in MintApproval BY DOMAIN approvals = 1 .. Len(approvals) DEF RowsOK
  <2>2. SeenOK("request", Shown(n)) BY <2>1 DEF SeenOK, Shown, MintApproval, OpNames
  <2>3. CallOK(Ending("request", n, Shown(n), outcome, NoMint), nonceUsed')
    BY <2>2, EndingOK DEF OpNames
  <2>. QED BY <1>1, <1>2, <2>3, OneCallMoves
<1>3. ASSUME AsksByExecution(m) PROVE CallsOK' BY <1>1, <1>3, Asking DEF AsksByExecution
<1>4. ASSUME AsksByBurn(m) PROVE CallsOK' BY <1>1, <1>4, Asking DEF AsksByBurn
<1>5. ASSUME Unproven(m) PROVE CallsOK'
  <2>1. 1 \in DOMAIN approvals BY DOMAIN approvals = 1 .. Len(approvals) DEF RowsOK
  <2>2. mints' = [mints EXCEPT ![m] = Ending("request", 1, Shown(1), "refused", NoMint)]
    BY <1>5 DEF Unproven
  <2>3. "refused" \in Outcomes \ {"success"} BY DEF Outcomes
  <2>. QED BY <1>2, <2>1, <2>2, <2>3
<1>6. ASSUME NEW n \in DOMAIN approvals, AsksByRequest(m, n) PROVE CallsOK'
  <2>1. CASE Asks(m, "request", n) BY <1>1, <2>1, Asking
  <2>2. CASE mints' = [mints EXCEPT ![m] = Ending("request", n, Shown(n), "rejected", NoMint)]
    BY <1>2, <2>2 DEF Outcomes
  <2>3. CASE mints' = [mints EXCEPT ![m] = Ending("request", n, Shown(n), "refused", NoMint)]
    BY <1>2, <2>3 DEF Outcomes
  <2>. QED BY <1>6, <2>1, <2>2, <2>3 DEF AsksByRequest
<1>7. CallsOK' BY <1>3, <1>4, <1>5, <1>6
<1>8. RowsOK' /\ SuccessMeansMinted' BY <1>1, RowsStay
<1>9. Landed' BY <1>1, LandedStays
<1>. QED BY <1>1, <1>7, <1>8, <1>9 DEF MintedInv

(* The looks at the nonce, at the lock and at an approval. *)
LEMMA NonceMinted ==
  ASSUME MintedInv, NEW m \in Mints, NonceUsed(m) \/ NonceUnread(m) \/ NonceFree(m)
  PROVE  MintedInv'
<1>. CallsOK /\ RowsOK /\ lock.op \in OpNames /\ Landed /\ SuccessMeansMinted
  BY DEF MintedInv
<1>1. mints[m].stage = "asking" /\ mints[m].stage \in Working
  BY DEF NonceUsed, NonceUnread, NonceFree, MintAt, Working
<1>2. UNCHANGED <<mintOps, nonceUsed>> BY DEF NonceUsed, NonceUnread, NonceFree
<1>3. Landed' BY <1>2, LandedStays
<1>4. ASSUME NonceUsed(m) PROVE MintedInv'
  <2>1. CallsOK'
    <3>1. nonceUsed /\ nonceUsed' /\ Claims(m, NoMint) /\ NoMint \in OpNames
      BY <1>2, <1>4 DEF NonceUsed, OpNames
    <3>. QED BY <1>1, <3>1, Claim
  <2>2. nonceUsed' /\ lock' = lock /\ approvals' = approvals BY <1>2, <1>4 DEF NonceUsed, MintStays
  <2>3. RowsOK' /\ SuccessMeansMinted' BY <2>2, RowsStay
  <2>. QED BY <1>3, <2>1, <2>2, <2>3 DEF MintedInv
<1>5. ASSUME CallsOK', lock'.op \in OpNames, approvals' = approvals, claimed' = claimed PROVE MintedInv'
  <2>1. RowsOK' /\ SuccessMeansMinted' BY <1>2, <1>5, RowsStay
  <2>. QED BY <1>3, <1>5, <2>1 DEF MintedInv
<1>6. ASSUME Refuses(m), MintStays PROVE MintedInv'
  <2>1. CallsOK' /\ claimed' = claimed BY <1>1, <1>2, <1>6, Refusal
  <2>. QED BY <1>5, <1>6, <2>1 DEF MintStays
<1>7. ASSUME PastLock(m) PROVE MintedInv'
  <2>1. CallsOK' /\ lock'.op \in OpNames /\ approvals' = approvals /\ claimed' = claimed
    BY <1>1, <1>2, <1>7, PastLockOK
  <2>. QED BY <1>5, <2>1
<1>8. ASSUME lock.op # NoMint, MintStays, UNCHANGED claimed,
             mints' = [mints EXCEPT ![m] = [mints[m] EXCEPT !.stage = "checking_lock", !.op = lock.op]]
      PROVE  MintedInv'
  <2> DEFINE c == [mints[m] EXCEPT !.stage = "checking_lock", !.op = lock.op]
  <2>1. lock.op \in Mints BY <1>8 DEF OpNames
  <2>2. Fields \subseteq DOMAIN mints[m] BY <1>1 DEF CallsOK, CallOK, Fields
  <2>3. /\ Fields \subseteq DOMAIN c /\ c.stage = "checking_lock" /\ c.op = lock.op
        /\ c.kind = mints[m].kind /\ c.seen = mints[m].seen
    BY <2>2, CheckRecord
  <2>4. mints' = [mints EXCEPT ![m] = c] BY <1>8
  <2> HIDE DEF c
  <2>5. CallsOK' BY <1>1, <1>2, <2>1, <2>3, <2>4, Checks
  <2>. QED BY <1>5, <1>8, <2>5 DEF MintStays
<1>9. ASSUME NonceUnread(m) PROVE MintedInv' BY <1>6, <1>9 DEF NonceUnread
<1>10. ASSUME NonceFree(m) PROVE MintedInv' BY <1>6, <1>7, <1>8, <1>10 DEF NonceFree
<1>. QED BY <1>4, <1>9, <1>10

(* An operation that has been mined used the nonce.                          *)
LEMMA LockCheckedMinted ==
  ASSUME MintedInv, NEW m \in Mints, LockChecked(m)
  PROVE  MintedInv'
<1> DEFINE op == mints[m].op
<1>. CallsOK /\ RowsOK /\ lock.op \in OpNames /\ Landed /\ SuccessMeansMinted
  BY DEF MintedInv
<1>1. mints[m].stage = "checking_lock" /\ mints[m].stage \in Working /\ op \in Mints /\ op \in OpNames
  BY DEF LockChecked, MintAt, Working, CallsOK, CallOK, OpNames
<1>2. UNCHANGED <<mintOps, nonceUsed>> BY DEF LockChecked
<1>3. Landed' BY <1>2, LandedStays
<1>4. ASSUME Waits(m, op), MintStays PROVE MintedInv'
  <2>1. CallsOK' /\ claimed' = claimed BY <1>1, <1>2, <1>4, Waiting
  <2>2. lock' = lock /\ approvals' = approvals BY <1>4 DEF MintStays
  <2>3. RowsOK' /\ SuccessMeansMinted' BY <1>2, <2>1, <2>2, RowsStay
  <2>. QED BY <1>3, <2>1, <2>2, <2>3 DEF MintedInv
<1>5. ASSUME Mined(op), Claims(m, op), lock' = NoLock, UNCHANGED approvals PROVE MintedInv'
  <2>1. nonceUsed /\ nonceUsed' BY <1>1, <1>2, <1>5 DEF Mined, Landed
  <2>2. CallsOK' BY <1>1, <1>2, <1>5, <2>1, Claim
  <2>3. RowsOK' /\ SuccessMeansMinted' BY <1>5, <2>1, RowsStay
  <2>4. lock'.op \in OpNames BY <1>5 DEF NoLock, OpNames
  <2>. QED BY <1>3, <2>2, <2>3, <2>4 DEF MintedInv
<1>6. ASSUME PastLock(m) PROVE MintedInv'
  <2>1. CallsOK' /\ lock'.op \in OpNames /\ approvals' = approvals /\ claimed' = claimed
    BY <1>1, <1>2, <1>6, PastLockOK
  <2>2. RowsOK' /\ SuccessMeansMinted' BY <1>2, <2>1, RowsStay
  <2>. QED BY <1>3, <2>1, <2>2 DEF MintedInv
<1>. QED BY <1>4, <1>5, <1>6 DEF LockChecked

LEMMA RowUpdated ==
  ASSUME RowsOK, SuccessMeansMinted, NEW n, NEW op,
         n \in DOMAIN approvals => op \in OpNames,
         NEW status \in {"pending_confirmation", "error", "success"}, NEW phase,
         phase = approvals[n].phase \/ phase \in DestinationPhases,
         status = "success" => nonceUsed', nonceUsed => nonceUsed',
         claimed' => claimed \/ nonceUsed', UpdateApproval(n, status, phase, op)
  PROVE  RowsOK' /\ SuccessMeansMinted'
<1> DEFINE r == [status |-> status, phase |-> phase, op |-> op, cool |-> FALSE]
<1>1. n \in DOMAIN approvals => r \in MintApproval
  <2>. SUFFICES ASSUME n \in DOMAIN approvals PROVE r \in MintApproval OBVIOUS
  <2>1. approvals[n] \in MintApproval BY DOMAIN approvals = 1 .. Len(approvals) DEF RowsOK
  <2>2. phase \in DestinationPhases \cup {"source_confirmed"} BY <2>1 DEF MintApproval
  <2>. QED BY <2>2 DEF MintApproval, OpNames
<1>2. r.status = status OBVIOUS
<1>3. approvals' = [approvals EXCEPT ![n] = r] BY DEF UpdateApproval
<1> HIDE DEF r
<1>. QED BY <1>1, <1>2, <1>3, RowWritten

LEMMA ApprovalCheckedMinted ==
  ASSUME MintedInv, NEW m \in Mints, ApprovalChecked(m)
  PROVE  MintedInv'
<1> DEFINE op == mints[m].op
           n == mints[m].at
<1>. CallsOK /\ RowsOK /\ lock.op \in OpNames /\ Landed /\ SuccessMeansMinted
  BY DEF MintedInv
<1>1. /\ mints[m].stage = "checking_approval" /\ mints[m].stage \in Working
      /\ op \in Mints /\ op \in OpNames
  BY DEF ApprovalChecked, MintAt, Working, CallsOK, CallOK, OpNames
<1>2. UNCHANGED <<mintOps, nonceUsed>> BY DEF ApprovalChecked
<1>3. Landed' BY <1>2, LandedStays
<1>4. ASSUME lock' = Lock(m, op, 0), Waits(m, op), approvals' = approvals PROVE MintedInv'
  <2>1. CallsOK' /\ claimed' = claimed BY <1>1, <1>2, <1>4, Waiting
  <2>2. RowsOK' /\ SuccessMeansMinted' BY <1>2, <1>4, <2>1, RowsStay
  <2>3. lock'.op \in OpNames BY <1>1, <1>4 DEF Lock
  <2>. QED BY <1>3, <2>1, <2>2, <2>3 DEF MintedInv
<1>5. n \in DOMAIN approvals => approvals[n].op \in OpNames
  <2>1. n \in DOMAIN approvals => approvals[n] \in MintApproval
    BY DOMAIN approvals = 1 .. Len(approvals) DEF RowsOK
  <2>. QED BY <2>1 DEF MintApproval, OpNames
<1>6. ASSUME Mined(op), Claims(m, op), lock' = lock,
             UpdateApproval(n, "success", approvals[n].phase, approvals[n].op)
      PROVE  MintedInv'
  <2>1. nonceUsed /\ nonceUsed' BY <1>1, <1>2, <1>6 DEF Mined, Landed
  <2>2. CallsOK' BY <1>1, <1>2, <1>6, <2>1, Claim
  <2>3. RowsOK' /\ SuccessMeansMinted' BY <1>5, <1>6, <2>1, RowUpdated
  <2>. QED BY <1>3, <1>6, <2>2, <2>3 DEF MintedInv
<1>7. ASSUME UpdateApproval(n, "error", approvals[n].phase, approvals[n].op), NEW open, GoesOn(m, open)
      PROVE  MintedInv'
  <2>1. CallsOK' /\ claimed' = claimed
    <3>1. CASE Refuses(m) BY <1>1, <1>2, <3>1, Refusal
    <3>2. CASE /\ mints' = [mints EXCEPT ![m].stage = "preparing", ![m].row = RowOf(m, open)]
               /\ claimed' = claimed
      <4>1. PICK r : r = RowOf(m, open) OBVIOUS
      <4>2. mints' = [mints EXCEPT ![m].stage = "preparing", ![m].row = r] BY <3>2, <4>1
      <4>. QED BY <1>1, <1>2, <3>2, <4>2, Works
    <3>. QED BY <1>7, <3>1, <3>2 DEF GoesOn
  <2>2. RowsOK' /\ SuccessMeansMinted' BY <1>2, <1>5, <1>7, <2>1, RowUpdated
  <2>3. lock'.op \in OpNames BY <1>7 DEF GoesOn, Lock, OpNames
  <2>. QED BY <1>3, <2>1, <2>2, <2>3 DEF MintedInv
<1>. QED BY <1>4, <1>6, <1>7 DEF ApprovalChecked

(* Every outcome of a submission; only a mined one claims.                   *)
LEMMA SubmittedMinted ==
  ASSUME MintedInv, NEW m \in Mints, Submitted(m)
  PROVE  MintedInv'
<1> DEFINE n == mints[m].row
<1>. CallsOK /\ RowsOK /\ lock.op \in OpNames /\ Landed /\ SuccessMeansMinted
  BY DEF MintedInv
<1>1. mints[m].stage \in Working /\ m \in OpNames /\ NoMint \in OpNames
  BY DEF Submitted, MintAt, Working, OpNames
<1>2. DropLock(m) => lock'.op \in OpNames BY <1>1 DEF DropLock, NoLock
<1>3. ASSUME UpdateApproval(n, "error", "destination_submission_failed", NoMint), DropLock(m), Refuses(m),
             UNCHANGED <<mintOps, nonceUsed>>
      PROVE  MintedInv'
  <2>1. CallsOK' /\ claimed' = claimed BY <1>1, <1>3, Refusal
  <2>2. RowsOK' /\ SuccessMeansMinted' BY <1>1, <1>3, <2>1, RowUpdated DEF DestinationPhases
  <2>3. Landed' BY <1>3, LandedStays
  <2>. QED BY <1>2, <1>3, <2>1, <2>2, <2>3 DEF MintedInv
<1>4. ASSUME nonceUsed' = TRUE, mintOps' = [mintOps EXCEPT ![m] = "landed"],
             UpdateApproval(n, "success", approvals[n].phase, m), DropLock(m), Claims(m, m)
      PROVE  MintedInv'
  <2>1. CallsOK' BY <1>1, <1>4, Claim
  <2>2. RowsOK' /\ SuccessMeansMinted' BY <1>1, <1>4, RowUpdated
  <2>3. Landed' BY <1>4 DEF Landed
  <2>. QED BY <1>2, <1>4, <2>1, <2>2, <2>3 DEF MintedInv
<1>5. ASSUME mintOps' = [mintOps EXCEPT ![m] = "reverted"], UNCHANGED nonceUsed,
             UpdateApproval(n, "error", approvals[n].phase, approvals[n].op), DropLock(m), Refuses(m)
      PROVE  MintedInv'
  <2>1. CallsOK' /\ claimed' = claimed BY <1>1, <1>5, Refusal
  <2>2. n \in DOMAIN approvals => approvals[n].op \in OpNames
    <3>1. n \in DOMAIN approvals => approvals[n] \in MintApproval
      BY DOMAIN approvals = 1 .. Len(approvals) DEF RowsOK
    <3>. QED BY <3>1 DEF MintApproval, OpNames
  <2>3. RowsOK' /\ SuccessMeansMinted'
    <3>1. CASE n \in DOMAIN approvals BY <1>5, <2>1, <2>2, <3>1, RowUpdated
    <3>2. CASE n \notin DOMAIN approvals
      <4>1. approvals' = approvals BY <1>5, <3>2 DEF UpdateApproval, RowsOK
      <4>. QED BY <1>5, <2>1, <4>1, RowsStay
    <3>. QED BY <3>1, <3>2
  <2>4. Landed' BY <1>5 DEF Landed
  <2>. QED BY <1>2, <1>5, <2>1, <2>3, <2>4 DEF MintedInv
<1>6. ASSUME mintOps' = [mintOps EXCEPT ![m] = "inflight"], UNCHANGED nonceUsed,
             UpdateApproval(n, "pending_confirmation", "destination_submitted", m),
             lock' = Lock(m, m, n), Waits(m, m)
      PROVE  MintedInv'
  <2>1. CallsOK' /\ claimed' = claimed BY <1>1, <1>6, Waiting
  <2>2. RowsOK' /\ SuccessMeansMinted' BY <1>1, <1>6, <2>1, RowUpdated DEF DestinationPhases
  <2>3. Landed' BY <1>6 DEF Landed
  <2>4. lock'.op \in OpNames BY <1>1, <1>6 DEF Lock
  <2>. QED BY <2>1, <2>2, <2>3, <2>4 DEF MintedInv
<1>7. ASSUME NEW s \in {"none", "inflight"}, NEW r, mintOps' = [mintOps EXCEPT ![m] = s],
             UpdateApproval(r, "pending_confirmation", "submission_unknown", NoMint),
             lock' = Lock(m, NoMint, r), Refuses(m), UNCHANGED nonceUsed
      PROVE  MintedInv'
  <2>1. CallsOK' /\ claimed' = claimed BY <1>1, <1>7, Refusal
  <2>2. RowsOK' /\ SuccessMeansMinted' BY <1>1, <1>7, <2>1, RowUpdated DEF DestinationPhases
  <2>3. Landed' BY <1>7 DEF Landed
  <2>4. lock'.op \in OpNames BY <1>1, <1>7 DEF Lock
  <2>. QED BY <2>1, <2>2, <2>3, <2>4 DEF MintedInv
<1>. QED BY <1>3, <1>4, <1>5, <1>6, <1>7 DEF Submitted

LEMMA PreparedMinted ==
  ASSUME MintedInv, NEW m \in Mints, NotReady(m) \/ Announce(m)
  PROVE  MintedInv'
<1>. CallsOK /\ RowsOK /\ lock.op \in OpNames /\ Landed /\ SuccessMeansMinted
  BY DEF MintedInv
<1>1. mints[m].stage \in Working /\ NoMint \in OpNames
  BY DEF NotReady, Announce, MintAt, Working, OpNames
<1>2. UNCHANGED <<mintOps, nonceUsed>> /\ Landed'
  <2>1. UNCHANGED <<mintOps, nonceUsed>> BY DEF NotReady, Announce
  <2>. QED BY <2>1, LandedStays
<1>3. ASSUME NotReady(m) PROVE MintedInv'
  <2>1. approvals' = approvals /\ lock'.op \in OpNames BY <1>1, <1>3 DEF NotReady, DropLock, NoLock
  <2>2. CallsOK' /\ claimed' = claimed BY <1>1, <1>2, <1>3, Refusal DEF NotReady
  <2>3. RowsOK' /\ SuccessMeansMinted' BY <1>2, <2>1, <2>2, RowsStay
  <2>. QED BY <1>2, <2>1, <2>2, <2>3 DEF MintedInv
<1>4. ASSUME Announce(m) PROVE MintedInv'
  <2> DEFINE n == IF mints[m].row = 0 THEN Len(approvals) + 1 ELSE mints[m].row
             op == IF n > Len(approvals) THEN NoMint ELSE approvals[n].op
             rec == [status |-> "pending_confirmation", phase |-> "submission_unknown", op |-> op,
                     cool |-> FALSE]
  <2>1. /\ approvals' = IF n > Len(approvals) THEN Append(approvals, rec)
                        ELSE [approvals EXCEPT ![n] = rec]
        /\ mints' = [mints EXCEPT ![m].stage = "submitting", ![m].row = n]
        /\ lock' = Lock(m, NoMint, n) /\ claimed' = claimed
    BY <1>4 DEF Announce
  <2> HIDE DEF n
  <2>2. CallsOK' BY <1>1, <1>2, <2>1, Works
  <2>3. lock'.op \in OpNames BY <1>1, <2>1 DEF Lock
  <2>4. CASE n > Len(approvals)
    <3>1. rec \in MintApproval BY <2>4 DEF MintApproval, DestinationPhases
    <3>2. rec.status # "success" OBVIOUS
    <3> HIDE DEF rec
    <3>3. approvals' = Append(approvals, rec) BY <2>1, <2>4
    <3>4. RowsOK' BY <3>1, <3>3 DEF RowsOK
    <3>5. \A k \in DOMAIN approvals' :
            \/ k \in DOMAIN approvals /\ approvals'[k] = approvals[k]
            \/ approvals'[k] = rec
      BY <3>1, <3>3 DEF RowsOK
    <3>6. SuccessMeansMinted' BY <1>2, <2>1, <3>2, <3>5 DEF SuccessMeansMinted
    <3>. QED BY <1>2, <2>2, <2>3, <3>4, <3>6 DEF MintedInv
  <2>5. CASE ~(n > Len(approvals))
    <3>1. n \in DOMAIN approvals => rec \in MintApproval
      <4>. SUFFICES ASSUME n \in DOMAIN approvals PROVE rec \in MintApproval OBVIOUS
      <4>1. approvals[n] \in MintApproval BY DOMAIN approvals = 1 .. Len(approvals) DEF RowsOK
      <4>2. op \in OpNames BY <2>5, <4>1 DEF MintApproval, OpNames
      <4>. QED BY <4>2 DEF MintApproval, OpNames, DestinationPhases
    <3>2. rec.status # "success" OBVIOUS
    <3> HIDE DEF rec
    <3>3. approvals' = [approvals EXCEPT ![n] = rec] BY <2>1, <2>5
    <3>4. RowsOK' /\ SuccessMeansMinted' BY <1>2, <2>1, <3>1, <3>2, <3>3, RowWritten
    <3>. QED BY <1>2, <2>2, <2>3, <3>4 DEF MintedInv
  <2>. QED BY <2>4, <2>5
<1>. QED BY <1>3, <1>4

(* What a request, an execution or the retry tool writes at last.            *)
LEMMA AnsweredMinted ==
  ASSUME MintedInv, NEW m \in Mints, Answered(m)
  PROVE  MintedInv'
<1> DEFINE c == mints[m]
           n == c.row
           r == Written(m)
<1>. CallsOK /\ RowsOK /\ lock.op \in OpNames /\ Landed /\ SuccessMeansMinted
  BY DEF MintedInv
<1>1. /\ c.op \in OpNames /\ SeenOK(c.kind, c.seen) /\ c.outcome \in Outcomes
      /\ c.outcome = "success" => nonceUsed
  BY DEF Answered, MintAt, CallsOK, CallOK
<1>2. UNCHANGED <<lock, mintOps, nonceUsed, claimed>> BY DEF Answered
<1>3. /\ mints' = [mints EXCEPT ![m] = Ended(c.kind)]
      /\ approvals' = [approvals EXCEPT ![n] = r]
  BY DEF Answered
<1>4. CallsOK'
  <2>1. CallOK(Ended(c.kind), nonceUsed') BY DEF CallOK, Ended, Working
  <2>. QED BY <1>2, <1>3, <2>1, OneCallMoves
<1>5. n \in DOMAIN approvals => r \in MintApproval /\ (r.status = "success" => nonceUsed)
  <2>. SUFFICES ASSUME n \in DOMAIN approvals
       PROVE  r \in MintApproval /\ (r.status = "success" => nonceUsed)
    OBVIOUS
  <2>1. approvals[n] \in MintApproval BY DOMAIN approvals = 1 .. Len(approvals) DEF RowsOK
  <2>2. CASE c.kind = "request"
    <3> DEFINE op == IF c.op = NoMint THEN c.seen.op ELSE c.op
               status == [success |-> "success", rejected |-> "error",
                          refused |-> "pending_confirmation", pending |-> "pending_confirmation"]
    <3>1. op \in OpNames /\ c.seen.phase \in DestinationPhases \cup {"source_confirmed"}
      BY <1>1, <2>2 DEF SeenOK
    <3>2. status[c.outcome] \in {"pending_confirmation", "error", "success"}
      BY <1>1 DEF Outcomes
    <3>3. status[c.outcome] = "success" => nonceUsed BY <1>1 DEF Outcomes
    <3>4. r = [status |-> status[c.outcome], phase |-> c.seen.phase, op |-> op, cool |-> FALSE]
      BY <2>2 DEF Written
    <3> HIDE DEF op, status, r
    <3>. QED BY <3>1, <3>2, <3>3, <3>4 DEF MintApproval, OpNames
  <2>3. CASE c.kind # "request"
    <3>1. CASE c.outcome = "success" BY <1>1, <2>1, <2>3, <3>1 DEF Written, MintApproval
    <3>2. CASE c.outcome # "success"
      BY <2>1, <2>3, <3>2 DEF Written, MintApproval, DestinationPhases
    <3>. QED BY <3>1, <3>2
  <2>. QED BY <2>2, <2>3
<1> HIDE DEF r, n
<1>6. RowsOK' /\ SuccessMeansMinted' BY <1>2, <1>3, <1>5, RowWritten
<1>7. Landed' BY <1>2, LandedStays
<1>. QED BY <1>2, <1>4, <1>6, <1>7 DEF MintedInv

(* Iris, the chain, the clock and a restart. *)
LEMMA SurroundingsMinted ==
  ASSUME MintedInv,
         \/ \E m \in Mints : StatusAnswered(m) \/ MintMined(m)
         \/ \E n \in DOMAIN approvals : CooldownPasses(n)
         \/ IrisIndexes \/ Relayed \/ MintRestart
  PROVE  MintedInv'
<1>. CallsOK /\ RowsOK /\ lock.op \in OpNames /\ Landed /\ SuccessMeansMinted
  BY DEF MintedInv
<1>1. ASSUME NEW m \in Mints, StatusAnswered(m) PROVE MintedInv'
  <2>1. /\ nonceUsed /\ UNCHANGED <<lock, approvals, mintOps, nonceUsed>>
        /\ mints' = [mints EXCEPT ![m] = Ended("status")]
    BY <1>1 DEF StatusAnswered, MintStays
  <2>2. CallOK(Ended("status"), nonceUsed') BY DEF CallOK, Ended, Working
  <2>3. CallsOK' BY <2>1, <2>2, OneCallMoves
  <2>4. RowsOK' /\ SuccessMeansMinted' BY <2>1, RowsStay
  <2>5. Landed' BY <2>1, LandedStays
  <2>. QED BY <2>1, <2>3, <2>4, <2>5 DEF MintedInv
<1>2. ASSUME nonceUsed => nonceUsed', mints' = mints, lock' = lock, approvals' = approvals, claimed' = claimed
      PROVE  CallsOK' /\ RowsOK' /\ SuccessMeansMinted'
  <2>1. CallsOK' BY <1>2 DEF CallsOK, CallOK
  <2>2. RowsOK' /\ SuccessMeansMinted' BY <1>2, RowsStay
  <2>. QED BY <2>1, <2>2
<1>3. ASSUME NEW m \in Mints, MintMined(m) PROVE MintedInv'
  <2>1. (nonceUsed => nonceUsed') /\ UNCHANGED <<mints, lock, approvals, claimed>>
    BY <1>3 DEF MintMined, MintStays
  <2>2. Landed' BY <1>3 DEF MintMined, Landed
  <2>3. CallsOK' /\ RowsOK' /\ SuccessMeansMinted' BY <1>2, <2>1
  <2>. QED BY <2>1, <2>2, <2>3 DEF MintedInv
<1>4. ASSUME NEW n \in DOMAIN approvals, CooldownPasses(n) PROVE MintedInv'
  <2> DEFINE r == [approvals[n] EXCEPT !.cool = TRUE]
  <2>1. approvals[n] \in MintApproval BY DOMAIN approvals = 1 .. Len(approvals) DEF RowsOK
  <2>2. r \in MintApproval /\ r.status = approvals[n].status BY <2>1 DEF MintApproval
  <2>3. approvals' = [approvals EXCEPT ![n] = r] /\ UNCHANGED <<mints, lock, mintOps, nonceUsed, claimed>>
    BY <1>4 DEF CooldownPasses
  <2> HIDE DEF r
  <2>4. r.status = "success" => nonceUsed BY <2>2 DEF SuccessMeansMinted
  <2>5. RowsOK' /\ SuccessMeansMinted' BY <2>2, <2>3, <2>4, RowWritten
  <2>6. Landed' BY <2>3, LandedStays
  <2>7. CallsOK' BY <2>3 DEF CallsOK, CallOK
  <2>. QED BY <2>3, <2>5, <2>6, <2>7 DEF MintedInv
<1>5. ASSUME IrisIndexes PROVE MintedInv'
  <2>1. UNCHANGED <<mints, lock, approvals, mintOps, nonceUsed, claimed>> BY <1>5 DEF IrisIndexes
  <2>2. CallsOK' /\ RowsOK' /\ SuccessMeansMinted' BY <1>2, <2>1
  <2>3. Landed' BY <2>1, LandedStays
  <2>. QED BY <2>1, <2>2, <2>3 DEF MintedInv
<1>6. ASSUME Relayed PROVE MintedInv'
  <2>1. UNCHANGED <<mints, lock, approvals, mintOps, claimed>> /\ nonceUsed'
    BY <1>6 DEF Relayed, MintStays
  <2>2. CallsOK' /\ RowsOK' /\ SuccessMeansMinted' BY <1>2, <2>1
  <2>3. Landed' BY <2>1, LandedStays
  <2>. QED BY <2>1, <2>2, <2>3 DEF MintedInv
<1>7. ASSUME MintRestart PROVE MintedInv'
  <2>1. /\ lock' = NoLock /\ UNCHANGED <<approvals, nonceUsed, claimed>>
        /\ mints' = [m \in Mints |-> IF MintAt(m, "new") \/ MintAt(m, "done") THEN mints[m]
                                     ELSE Ended(mints[m].kind)]
    BY <1>7 DEF MintRestart
  <2>2. lock'.op \in OpNames BY <2>1 DEF NoLock, OpNames
  <2>3. CallsOK'
    <3>1. ASSUME NEW m \in Mints PROVE CallOK(mints'[m], nonceUsed')
      <4>1. CallOK(mints[m], nonceUsed) BY DEF CallsOK
      <4>2. CallOK(Ended(mints[m].kind), nonceUsed') BY DEF CallOK, Ended, Working
      <4>3. mints'[m] = mints[m] \/ mints'[m] = Ended(mints[m].kind) BY <2>1
      <4>. QED BY <2>1, <4>1, <4>2, <4>3
    <3>. QED BY <2>1, <3>1 DEF CallsOK
  <2>4. PICK lost \in SUBSET {m \in Mints : MintAt(m, "submitting")} :
          mintOps' = [m \in Mints |-> IF m \in lost THEN "inflight" ELSE mintOps[m]]
    BY <1>7 DEF MintRestart
  <2>5. Landed' BY <2>1, <2>4 DEF Landed
  <2>6. RowsOK' /\ SuccessMeansMinted' BY <2>1, RowsStay
  <2>. QED BY <2>2, <2>3, <2>5, <2>6 DEF MintedInv
<1>. QED BY <1>1, <1>3, <1>4, <1>5, <1>6, <1>7

THEOREM MintedInvHolds == BridgeMintSpec => []MintedInv
<1>1. BridgeMintInit => MintedInv
  <2>. SUFFICES ASSUME BridgeMintInit PROVE MintedInv OBVIOUS
  <2>. USE DEF BridgeMintInit
  <2>1. CallsOK BY DEF CallsOK, CallOK, Working
  <2>2. RowsOK BY DEF RowsOK, MintApproval, DestinationPhases
  <2>3. lock.op \in OpNames BY DEF NoLock, OpNames
  <2>4. Landed /\ SuccessMeansMinted BY DEF Landed, SuccessMeansMinted
  <2>. QED BY <2>1, <2>2, <2>3, <2>4 DEF MintedInv
<1>2. MintedInv /\ [BridgeMintNext]_mintVars => MintedInv'
  <2>. SUFFICES ASSUME MintedInv, [BridgeMintNext]_mintVars PROVE MintedInv' OBVIOUS
  <2>1. CASE BridgeMintNext
    BY <2>1, AsksMinted, NonceMinted, LockCheckedMinted, ApprovalCheckedMinted,
       PreparedMinted, SubmittedMinted, AnsweredMinted, SurroundingsMinted
    DEF BridgeMintNext
  <2>2. CASE UNCHANGED mintVars
    BY <2>2 DEF mintVars, MintedInv, CallsOK, CallOK, RowsOK, Landed, SuccessMeansMinted
  <2>. QED BY <2>1, <2>2
<1>. QED BY <1>1, <1>2, PTL DEF BridgeMintSpec

(* SuccessMeansMinted for any number of calls and faults: neither an answer   *)
(* nor an approval of mintDestinationViaMsca reports a mint before the nonce  *)
(* of the message has been used (mcpServer.mjs:2134).                    *)
THEOREM SpecSuccessMeansMinted == BridgeMintSpec => []SuccessMeansMinted
<1>1. MintedInv => SuccessMeansMinted BY DEF MintedInv
<1>. QED BY <1>1, MintedInvHolds, PTL

(* A call works for an approval there is, or for none yet.                   *)
RowNumbers == \A m \in Mints : mints[m].stage \in Working => mints[m].row \in 0 .. Len(approvals)

OnItsWay == {"checking_lock", "checking_approval", "preparing", "submitting"}
Checking == {m \in Mints : mints[m].stage \in {"checking_lock", "checking_approval"}}
Entering == {m \in Mints : mints[m].stage \in {"preparing", "submitting"}}
InFlight == {m \in Mints : mintOps[m] = "inflight"}
Named == {k \in Submissions : approvals[k].op # NoMint}

(* At most one call prepares or submits, or has an operation in flight.      *)
OneAttempt ==
  /\ \A a, b \in Entering : a = b
  /\ \A a, b \in InFlight : a = b
  /\ Entering = {} \/ InFlight = {}

(* The call that prepares or submits holds the lock, which names no hash.    *)
LockedBy ==
  \A x \in Entering :
    /\ lock.held /\ lock.by = x /\ lock.op = NoMint
    /\ mints[x].stage = "submitting" => lock.row = mints[x].row /\ mints[x].row \in DOMAIN approvals

(* The approval that findPendingBridgeMint returns shows what is in flight,   *)
(* or has no hash.                                                          *)
RowShows ==
  (~nonceUsed /\ InFlight # {}) =>
    \E k \in Submissions : /\ \A j \in Submissions : k <= j
                           /\ approvals[k].op \in InFlight \cup {NoMint}

(* While a call prepares no approval names a hash, and while it submits only  *)
(* its own; never do two.                                                   *)
NamedByEntering == \A x \in Entering, k \in Named : mints[x].stage = "submitting" /\ k = mints[x].row
OneNamed == \A j, k \in Named : j = k

(* A call that asks for the status of an operation, and finds no other lock   *)
(* afterwards, has asked for the one in flight; so has the lock named it.    *)
CheckersSee == \A m \in Checking : ~AnotherLock(mints[m].op) => InFlight \subseteq {mints[m].op}
LockNames == (lock.held /\ lock.op # NoMint) => InFlight \subseteq {lock.op}

Guarded == /\ OneAttempt /\ LockedBy /\ RowShows /\ NamedByEntering /\ OneNamed
           /\ CheckersSee /\ LockNames

Undisturbed == recovered \cup released = {}
GuardInv == Undisturbed => Guarded

LEMMA SubmissionsAreNumbers ==
  ASSUME RowsOK
  PROVE  Submissions \subseteq DOMAIN approvals /\ DOMAIN approvals \subseteq Nat \ {0}
  BY DOMAIN approvals = 1 .. Len(approvals) DEF RowsOK, Submissions

(* The history only grows. *)
LEMMA Marks ==
  ASSUME NEW m, NEW slip, Marked(m, slip), Undisturbed'
  PROVE  ~slip
  BY DEF Marked, Undisturbed

(* A step that moves no call into the mint, starts no operation and lets the  *)
(* approvals show what they showed, or less once the nonce is used.          *)
LEMMA Quiet ==
  ASSUME Guarded, nonceUsed => nonceUsed', lock' = lock, mintOps' = mintOps,
         DOMAIN approvals \subseteq DOMAIN approvals',
         Submissions' \subseteq Submissions, nonceUsed' \/ Submissions' = Submissions,
         \A k \in Submissions : approvals'[k].op = approvals[k].op,
         \A x \in Mints : mints'[x] = mints[x] \/ mints'[x].stage \notin OnItsWay
  PROVE  Guarded'
<1>1. /\ Entering' \subseteq Entering /\ Checking' \subseteq Checking /\ InFlight' = InFlight
      /\ \A x \in Entering' \cup Checking' : mints'[x] = mints[x]
  BY DEF Entering, Checking, InFlight, OnItsWay
<1>2. /\ Named' \subseteq Named
  BY DEF Named
<1>3. OneAttempt' BY <1>1 DEF Guarded, OneAttempt
<1>4. LockedBy' BY <1>1 DEF Guarded, LockedBy
<1>5. RowShows' BY <1>1 DEF Guarded, RowShows
<1>6. NamedByEntering' BY <1>1, <1>2 DEF Guarded, NamedByEntering
<1>7. OneNamed' BY <1>2 DEF Guarded, OneNamed
<1>8. CheckersSee' BY <1>1 DEF Guarded, CheckersSee, AnotherLock
<1>9. LockNames' BY <1>1 DEF Guarded, LockNames
<1>. QED BY <1>3, <1>4, <1>5, <1>6, <1>7, <1>8, <1>9 DEF Guarded

(* Nothing is under way. *)
LEMMA Emptied ==
  ASSUME Entering' = {}, InFlight' = {}, OneNamed'
  PROVE  Guarded'
  BY DEF Guarded, OneAttempt, LockedBy, RowShows, NamedByEntering, CheckersSee, LockNames

(* One call has the lock, and nothing is in flight. *)
LEMMA Entered ==
  ASSUME NEW m \in Mints, Entering' \subseteq {m}, InFlight' = {},
         lock'.held, lock'.by = m, lock'.op = NoMint, Named' = {}, mints'[m].stage # "submitting"
  PROVE  Guarded'
  BY DEF Guarded, OneAttempt, LockedBy, RowShows, NamedByEntering, OneNamed, CheckersSee, LockNames

(* A lock that names an operation, or none, is no lock of a call at work.     *)
LEMMA NobodyEnters ==
  ASSUME Guarded, ~lock.held \/ lock.op # NoMint
  PROVE  Entering = {}
  BY DEF Guarded, LockedBy

(* A move of one call. *)
LEMMA SetsAfter ==
  ASSUME DOMAIN mints = Mints, NEW m \in Mints, NEW c, mints' = [mints EXCEPT ![m] = c]
  PROVE  /\ mints'[m] = c /\ \A x \in Mints \ {m} : mints'[x] = mints[x]
         /\ c.stage \in {"preparing", "submitting"} => Entering' = Entering \cup {m}
         /\ c.stage \notin {"preparing", "submitting"} => Entering' = Entering \ {m}
         /\ c.stage \in {"checking_lock", "checking_approval"} => Checking' = Checking \cup {m}
         /\ c.stage \notin {"checking_lock", "checking_approval"} => Checking' = Checking \ {m}
<1>1. mints'[m] = c /\ \A x \in Mints \ {m} : mints'[x] = mints[x] OBVIOUS
<1>. QED BY <1>1 DEF Entering, Checking

(* A call that leaves the mint is at no stage of it. *)
LEMMA LeavesStage ==
  ASSUME NEW kind, NEW n, NEW seen, NEW outcome, NEW op
  PROVE  Ending(kind, n, seen, outcome, op).stage \notin OnItsWay
  BY DEF Ending, Ended, OnItsWay

LEMMA LeavesMint ==
  ASSUME CallsOK, NEW m \in Mints, NEW outcome, NEW op, Leaves(m, outcome, op)
  PROVE  /\ mints'[m].stage \notin OnItsWay /\ \A x \in Mints \ {m} : mints'[x] = mints[x]
         /\ Entering' = Entering \ {m} /\ Checking' = Checking \ {m}
<1> DEFINE c == Ending(mints[m].kind, mints[m].asked, mints[m].seen, outcome, op)
<1>1. mints' = [mints EXCEPT ![m] = c] /\ DOMAIN mints = Mints BY DEF Leaves, CallsOK
<1>2. c.stage \notin OnItsWay BY LeavesStage
<1> HIDE DEF c
<1>3. mints'[m] = c /\ \A x \in Mints \ {m} : mints'[x] = mints[x] BY <1>1
<1>. QED BY <1>2, <1>3 DEF Entering, Checking, OnItsWay

LEMMA LeavesInAll ==
  ASSUME CallsOK, NEW m \in Mints, NEW op, Refuses(m) \/ Waits(m, op) \/ Claims(m, op)
  PROVE  /\ mints'[m].stage \notin OnItsWay /\ \A x \in Mints \ {m} : mints'[x] = mints[x]
         /\ Entering' = Entering \ {m} /\ Checking' = Checking \ {m}
<1>1. PICK outcome, o : Leaves(m, outcome, o)
  BY DEF Refuses, Waits, Claims
<1>. QED BY <1>1, LeavesMint

(* A call joins those that ask for the status of an operation.               *)
LEMMA CheckerJoins ==
  ASSUME Guarded, DOMAIN mints = Mints, NEW m \in Mints, m \notin Entering,
         NEW c, mints' = [mints EXCEPT ![m] = c], c.stage \in {"checking_lock", "checking_approval"},
         InFlight \subseteq {c.op}, UNCHANGED <<approvals, mintOps, nonceUsed>>,
         \/ lock' = lock
         \/ lock' = NoLock /\ Entering = {} /\ (~lock.held \/ InFlight = {})
  PROVE  Guarded'
<1>1. /\ mints'[m] = c /\ \A x \in Mints \ {m} : mints'[x] = mints[x]
      /\ Entering' = Entering \ {m} /\ Checking' = Checking \cup {m} /\ m \notin Entering
  BY SetsAfter DEF Entering, OnItsWay
<1>2. Submissions' = Submissions /\ Named' = Named /\ InFlight' = InFlight
  BY DEF Submissions, Named, InFlight
<1>3. OneAttempt' BY <1>1, <1>2 DEF Guarded, OneAttempt
<1>4. LockedBy' BY <1>1 DEF Guarded, LockedBy, Entering
<1>5. RowShows' BY <1>2 DEF Guarded, RowShows
<1>6. NamedByEntering' BY <1>1, <1>2 DEF Guarded, NamedByEntering, Entering
<1>7. OneNamed' BY <1>2 DEF Guarded, OneNamed
<1>8. CheckersSee'
  <2>. SUFFICES ASSUME NEW x \in Checking', ~AnotherLock(mints[x].op)' PROVE InFlight' \subseteq {mints'[x].op}
    BY DEF CheckersSee
  <2>1. CASE x = m BY <1>1, <1>2, <2>1
  <2>2. CASE x # m
    <3>1. x \in Checking /\ mints'[x] = mints[x] BY <1>1, <2>2 DEF Checking
    <3>2. CASE InFlight = {} BY <1>2, <3>2
    <3>3. CASE InFlight # {}
      <4>1. ~AnotherLock(mints[x].op) BY <3>1, <3>3 DEF AnotherLock
      <4>. QED BY <1>2, <3>1, <4>1 DEF Guarded, CheckersSee
    <3>. QED BY <3>2, <3>3
  <2>. QED BY <2>1, <2>2
<1>9. LockNames' BY <1>2 DEF Guarded, LockNames, NoLock
<1>. QED BY <1>3, <1>4, <1>5, <1>6, <1>7, <1>8, <1>9 DEF Guarded

(* What findPendingBridgeMint finds decides what a call that passed the lock   *)
(* does: it may prepare only when nothing is under way.                     *)
LEMMA PastLockGuarded ==
  ASSUME MintedInv, Guarded, NEW m \in Mints, mints[m].stage \in {"asking", "checking_lock"}, PastLock(m),
         UNCHANGED <<mintOps, nonceUsed>>, Entering = {}, Undisturbed',
         InFlight = {} \/ (~lock.held /\ ~nonceUsed)
  PROVE  Guarded'
<1> DEFINE n == FirstIn(Submissions)
<1>1. CallsOK /\ RowsOK /\ DOMAIN mints = Mints BY DEF MintedInv, CallsOK
<1>2. Submissions # {} => n \in Submissions /\ \A j \in Submissions : n <= j
  BY <1>1, SubmissionsAreNumbers, FirstIsIn
<1>3. CASE Submissions = {} /\ TakeLock(m)
  <2>1. PICK r : r = RowOf(m, OpenRows) OBVIOUS
  <2>2. /\ lock' = Lock(m, NoMint, r) /\ approvals' = approvals
        /\ mints' = [mints EXCEPT ![m].stage = "preparing", ![m].row = r]
    BY <1>3, <2>1 DEF TakeLock
  <2>3. Entering' \subseteq {m} BY <1>1, <2>2 DEF Entering
  <2>4. mints'[m].stage = "preparing"
    <3>1. "stage" \in DOMAIN mints[m] BY <1>1 DEF CallsOK, CallOK, Working
    <3>. QED BY <1>1, <2>2, <3>1
  <2>5. InFlight' = {}
    <3>1. InFlight = {} BY <1>3 DEF Guarded, RowShows
    <3>. QED BY <3>1 DEF InFlight
  <2>6. Named' = {} BY <1>3, <2>2 DEF Named, Submissions
  <2>. QED BY <2>2, <2>3, <2>4, <2>5, <2>6, Entered DEF Lock
<1>4. CASE /\ Submissions # {} /\ Refuses(m) /\ lock' = Lock(m, NoMint, n)
           /\ approvals' = approvals
  <2>1. Entering' = {} /\ Checking' \subseteq Checking /\ \A x \in Checking' : mints'[x] = mints[x]
    BY <1>1, <1>4, LeavesInAll DEF Checking
  <2>2. Submissions' = Submissions /\ Named' = Named /\ InFlight' = InFlight
    BY <1>4 DEF Submissions, Named, InFlight
  <2>3. CheckersSee'
    <3>1. \A x \in Checking : mints[x].op \in Mints BY <1>1 DEF Checking, CallsOK, CallOK
    <3>2. \A x \in Checking' : AnotherLock(mints[x].op)'
      BY <1>4, <2>1, <3>1, BridgeMintAssumption DEF AnotherLock, Lock, BridgeMintAssumption
    <3>. QED BY <3>2 DEF CheckersSee
  <2>4. LockNames' BY <1>4 DEF LockNames, Lock
  <2>5. OneAttempt' /\ LockedBy' /\ RowShows' /\ NamedByEntering' /\ OneNamed'
    BY <1>4, <2>1, <2>2 DEF Guarded, OneAttempt, LockedBy, RowShows, NamedByEntering, OneNamed
  <2>. QED BY <2>3, <2>4, <2>5 DEF Guarded
<1>5. CASE /\ Submissions # {} /\ approvals[n].op # NoMint
           /\ mints' = [mints EXCEPT ![m] = [mints[m] EXCEPT
                !.stage = "checking_approval", !.op = approvals[n].op, !.at = n]]
           /\ lock' = NoLock /\ UNCHANGED <<approvals, claimed, recovered>>
  <2> DEFINE c == [mints[m] EXCEPT
                     !.stage = "checking_approval", !.op = approvals[n].op, !.at = n]
  <2>1. Fields \subseteq DOMAIN mints[m] BY <1>1 DEF CallsOK, CallOK, Fields, Working
  <2>2. c.stage = "checking_approval" /\ c.op = approvals[n].op
    BY <2>1, CheckRecord
  <2>3. mints' = [mints EXCEPT ![m] = c] BY <1>5
  <2>4. InFlight \subseteq {approvals[n].op}
    <3>1. CASE InFlight = {} BY <3>1
    <3>2. CASE InFlight # {}
      <4>1. PICK k \in Submissions : /\ \A j \in Submissions : k <= j
                                     /\ approvals[k].op \in InFlight \cup {NoMint}
        BY <3>2 DEF Guarded, RowShows
      <4>2. k = n
        <5>1. k \in Nat /\ n \in Nat /\ k <= n /\ n <= k
          BY <1>1, <1>2, <1>5, <4>1, SubmissionsAreNumbers
        <5>. QED BY <5>1
      <4>3. approvals[n].op \in InFlight BY <1>5, <4>1, <4>2
      <4>. QED BY <4>3 DEF Guarded, OneAttempt
    <3>. QED BY <3>1, <3>2
  <2> HIDE DEF c, n
  <2>5. m \notin Entering OBVIOUS
  <2>. QED BY <1>1, <1>5, <2>2, <2>3, <2>4, <2>5, CheckerJoins
<1>6. ~(m \in recovered')  BY DEF Undisturbed
<1>. QED BY <1>3, <1>4, <1>5, <1>6 DEF PastLock

(* A step that touches calls only, outside the mint. *)
LEMMA CallsOnly ==
  ASSUME Guarded, nonceUsed => nonceUsed', UNCHANGED <<lock, approvals, mintOps>>,
         \A x \in Mints : mints'[x] = mints[x] \/ mints'[x].stage \notin OnItsWay
  PROVE  Guarded'
<1>1. Submissions' = Submissions BY DEF Submissions
<1>. QED BY <1>1, Quiet

LEMMA NonceGuarded ==
  ASSUME MintedInv, Guarded, Undisturbed', NEW m \in Mints,
         NonceUsed(m) \/ NonceUnread(m) \/ NonceFree(m)
  PROVE  Guarded'
<1>1. CallsOK /\ DOMAIN mints = Mints BY DEF MintedInv, CallsOK
<1>2. mints[m].stage = "asking" BY DEF NonceUsed, NonceUnread, NonceFree, MintAt
<1>3. m \notin Entering BY <1>2 DEF Entering
<1>4. ASSUME Refuses(m) \/ Claims(m, NoMint), MintStays, UNCHANGED <<mintOps, nonceUsed>>
      PROVE  Guarded'
  <2>1. \A x \in Mints : mints'[x] = mints[x] \/ mints'[x].stage \notin OnItsWay
    BY <1>1, <1>4, LeavesInAll
  <2>. QED BY <1>4, <2>1, CallsOnly DEF MintStays
<1>5. CASE NonceUsed(m) \/ NonceUnread(m) BY <1>4, <1>5 DEF NonceUsed, NonceUnread
<1>6. ASSUME NonceFree(m), ~lock.held, PastLock(m) PROVE Guarded'
  <2>1. UNCHANGED <<mintOps, nonceUsed>> /\ ~nonceUsed BY <1>6 DEF NonceFree
  <2>2. Entering = {} BY <1>6, NobodyEnters
  <2>. QED BY <1>2, <1>6, <2>1, <2>2, PastLockGuarded
<1>7. ASSUME NonceFree(m), lock.held, lock.op # NoMint,
             mints' = [mints EXCEPT ![m] = [mints[m] EXCEPT !.stage = "checking_lock", !.op = lock.op]],
             MintStays
      PROVE  Guarded'
  <2> DEFINE c == [mints[m] EXCEPT !.stage = "checking_lock", !.op = lock.op]
  <2>1. Fields \subseteq DOMAIN mints[m] BY <1>1, <1>2 DEF CallsOK, CallOK, Fields, Working
  <2>2. c.stage = "checking_lock" /\ c.op = lock.op BY <2>1, CheckRecord
  <2>3. mints' = [mints EXCEPT ![m] = c] BY <1>7
  <2> HIDE DEF c
  <2>4. UNCHANGED <<lock, approvals, mintOps, nonceUsed>> BY <1>7 DEF NonceFree, MintStays
  <2>5. InFlight \subseteq {c.op} BY <1>7, <2>2 DEF Guarded, LockNames
  <2>. QED BY <1>1, <1>3, <2>2, <2>3, <2>4, <2>5, CheckerJoins
<1>8. ASSUME NonceFree(m) PROVE Guarded'
  <2>1. UNCHANGED <<mintOps, nonceUsed>> BY <1>8 DEF NonceFree
  <2>2. CASE ~lock.held /\ PastLock(m) BY <1>6, <1>8, <2>2
  <2>3. CASE Refuses(m) /\ MintStays BY <1>4, <2>1, <2>3
  <2>4. CASE released' = released \cup {m} BY <2>4 DEF Undisturbed
  <2>5. CASE /\ lock.held /\ lock.op # NoMint
             /\ mints' = [mints EXCEPT ![m] = [mints[m] EXCEPT !.stage = "checking_lock", !.op = lock.op]]
             /\ MintStays
    BY <1>7, <1>8, <2>5
  <2>. QED BY <1>8, <2>2, <2>3, <2>4, <2>5 DEF NonceFree, Held
<1>. QED BY <1>5, <1>8

(* A call that asks for a status and finds no other lock sees what is under    *)
(* way: nothing, once the operation has an end.                             *)
LEMMA CheckerFacts ==
  ASSUME MintedInv, Guarded, NEW m \in Mints, mints[m].stage \in {"checking_lock", "checking_approval"},
         ~AnotherLock(mints[m].op)
  PROVE  /\ mints[m].op \in Mints /\ mints[m].op # NoMint
         /\ InFlight \subseteq {mints[m].op} /\ Entering = {}
         /\ mintOps[mints[m].op] # "inflight" => InFlight = {}
<1>1. mints[m].op \in Mints /\ mints[m].op # NoMint
  BY BridgeMintAssumption DEF MintedInv, CallsOK, CallOK, BridgeMintAssumption
<1>2. InFlight \subseteq {mints[m].op} BY DEF Guarded, CheckersSee, Checking
<1>3. Entering = {} BY <1>1, NobodyEnters DEF AnotherLock
<1>. QED BY <1>1, <1>2, <1>3 DEF InFlight

LEMMA LockCheckedGuarded ==
  ASSUME MintedInv, Guarded, Undisturbed', NEW m \in Mints, LockChecked(m)
  PROVE  Guarded'
<1> DEFINE op == mints[m].op
<1>1. CallsOK BY DEF MintedInv
<1>2. mints[m].stage = "checking_lock" /\ UNCHANGED <<mintOps, nonceUsed>>
  BY DEF LockChecked, MintAt
<1>3. CASE Waits(m, op) /\ MintStays
  <2>1. \A x \in Mints : mints'[x] = mints[x] \/ mints'[x].stage \notin OnItsWay
    BY <1>1, <1>3, LeavesInAll
  <2>. QED BY <1>2, <1>3, <2>1, CallsOnly DEF MintStays
<1>4. CASE Mined(op) /\ Claims(m, op) /\ approvals' = approvals /\ Marked(m, AnotherLock(op))
  <2>1. ~AnotherLock(op) BY <1>4, Marks
  <2>2. Entering = {} /\ InFlight = {} BY <1>2, <1>4, <2>1, CheckerFacts DEF Mined
  <2>3. Entering' = {} BY <1>1, <1>4, <2>2, LeavesInAll
  <2>4. InFlight' = {} BY <1>2, <2>2 DEF InFlight
  <2>5. OneNamed' BY <1>4 DEF Guarded, OneNamed, Named, Submissions
  <2>. QED BY <2>3, <2>4, <2>5, Emptied
<1>5. CASE mintOps[op] = "reverted" /\ PastLock(m) /\ Marked(m, AnotherLock(op))
  <2>1. ~AnotherLock(op) BY <1>5, Marks
  <2>2. Entering = {} /\ InFlight = {} BY <1>2, <1>5, <2>1, CheckerFacts
  <2>. QED BY <1>2, <1>5, <2>2, PastLockGuarded
<1>. QED BY <1>3, <1>4, <1>5 DEF LockChecked

(* A write of one approval. *)
LEMMA Rewrites ==
  ASSUME RowsOK, NEW n, NEW r, approvals' = [approvals EXCEPT ![n] = r]
  PROVE  /\ DOMAIN approvals' = DOMAIN approvals
         /\ \A k \in DOMAIN approvals : k # n => approvals'[k] = approvals[k]
         /\ n \in DOMAIN approvals => approvals'[n] = r
         /\ Submissions' \ {n} = Submissions \ {n}
         /\ ~Shows(r) => Submissions' = Submissions \ {n}
         /\ n \in DOMAIN approvals /\ Shows(r) => Submissions' = Submissions \cup {n}
<1>1. /\ DOMAIN approvals' = DOMAIN approvals
      /\ \A k \in DOMAIN approvals : k # n => approvals'[k] = approvals[k]
      /\ n \in DOMAIN approvals => approvals'[n] = r
  BY DEF RowsOK
<1>. QED BY <1>1 DEF Submissions

LEMMA ApprovalCheckedGuarded ==
  ASSUME MintedInv, Guarded, Undisturbed', NEW m \in Mints, ApprovalChecked(m)
  PROVE  Guarded'
<1> DEFINE op == mints[m].op
           n == mints[m].at
<1>1. CallsOK /\ RowsOK /\ DOMAIN mints = Mints BY DEF MintedInv, CallsOK
<1>2. mints[m].stage = "checking_approval" /\ UNCHANGED <<mintOps, nonceUsed>>
  BY DEF ApprovalChecked, MintAt
<1>3. ASSUME lock' = Lock(m, op, 0), Waits(m, op), Marked(m, AnotherLock(op)), approvals' = approvals
      PROVE  Guarded'
  <2>1. ~AnotherLock(op) BY <1>3, Marks
  <2>2. Entering = {} /\ InFlight \subseteq {op} BY <1>2, <2>1, CheckerFacts
  <2>3. /\ Entering' = {} /\ Checking' \subseteq Checking
        /\ \A x \in Checking' : mints'[x] = mints[x]
    BY <1>1, <1>3, <2>2, LeavesInAll DEF Checking
  <2>4. Submissions' = Submissions /\ Named' = Named /\ InFlight' = InFlight
    BY <1>2, <1>3 DEF Submissions, Named, InFlight
  <2>5. CheckersSee' /\ LockNames'
    BY <1>3, <2>2, <2>3, <2>4 DEF CheckersSee, LockNames, AnotherLock, Lock
  <2>6. OneAttempt' /\ LockedBy' /\ RowShows' /\ NamedByEntering' /\ OneNamed'
    BY <1>2, <1>3, <2>3, <2>4 DEF Guarded, OneAttempt, LockedBy, RowShows, NamedByEntering, OneNamed
  <2>. QED BY <2>5, <2>6 DEF Guarded
<1>4. ASSUME Mined(op), Claims(m, op), lock' = lock,
             UpdateApproval(n, "success", approvals[n].phase, approvals[n].op)
      PROVE  Guarded'
  <2> DEFINE r == [status |-> "success", phase |-> approvals[n].phase, op |-> approvals[n].op, cool |-> FALSE]
  <2>1. nonceUsed /\ nonceUsed'
    <3>1. op \in Mints BY <1>2 DEF MintedInv, CallsOK, CallOK
    <3>. QED BY <1>2, <1>4, <3>1 DEF Mined, MintedInv, Landed
  <2>2. approvals' = [approvals EXCEPT ![n] = r] /\ ~Shows(r) BY <1>4 DEF UpdateApproval, Shows
  <2> HIDE DEF r, n
  <2>3. /\ DOMAIN approvals' = DOMAIN approvals /\ Submissions' = Submissions \ {n}
        /\ \A k \in DOMAIN approvals : k # n => approvals'[k] = approvals[k]
    BY <1>1, <2>2, Rewrites
  <2>4. \A x \in Mints : mints'[x] = mints[x] \/ mints'[x].stage \notin OnItsWay
    BY <1>1, <1>4, LeavesInAll
  <2>5. \A k \in Submissions : approvals'[k].op = approvals[k].op
    BY <2>2, <2>3 DEF r, Submissions
  <2>. QED BY <1>2, <1>4, <2>1, <2>3, <2>4, <2>5, Quiet
<1>5. ASSUME mintOps[op] = "reverted", NEW open, GoesOn(m, open),
             UpdateApproval(n, "error", approvals[n].phase, approvals[n].op),
             Marked(m, AnotherLock(op) \/ n \notin Submissions \/ approvals[n].op # op)
      PROVE  Guarded'
  <2> DEFINE r == [status |-> "error", phase |-> approvals[n].phase, op |-> approvals[n].op, cool |-> FALSE]
  <2>1. ~AnotherLock(op) /\ n \in Submissions /\ approvals[n].op = op BY <1>5, Marks
  <2>2. Entering = {} /\ InFlight = {} /\ op # NoMint BY <1>2, <1>5, <2>1, CheckerFacts
  <2>3. Named = {n} BY <2>1, <2>2 DEF Named, Guarded, OneNamed
  <2>4. approvals' = [approvals EXCEPT ![n] = r] /\ ~Shows(r) BY <1>5 DEF UpdateApproval, Shows
  <2> HIDE DEF r, n
  <2>5. /\ Submissions' = Submissions \ {n}
        /\ \A k \in DOMAIN approvals : k # n => approvals'[k] = approvals[k]
    BY <1>1, <2>4, Rewrites
  <2>6. Named' = {} BY <2>3, <2>5 DEF Named, Submissions
  <2>7. InFlight' = {} BY <1>2, <2>2 DEF InFlight
  <2>8. CASE Refuses(m)
    <3>1. Entering' = {} BY <1>1, <2>2, <2>8, LeavesInAll
    <3>. QED BY <2>6, <2>7, <3>1, Emptied DEF OneNamed
  <2>9. CASE mints' = [mints EXCEPT ![m].stage = "preparing", ![m].row = RowOf(m, open)]
    <3>1. PICK w : w = RowOf(m, open) OBVIOUS
    <3>2. mints' = [mints EXCEPT ![m].stage = "preparing", ![m].row = w] BY <2>9, <3>1
    <3>3. "stage" \in DOMAIN mints[m] BY <1>1, <1>2 DEF CallsOK, CallOK, Working
    <3>4. mints'[m].stage = "preparing" BY <1>1, <3>2, <3>3
    <3>5. Entering' \subseteq {m} BY <1>1, <2>2, <3>2 DEF Entering
    <3>6. lock'.held /\ lock'.by = m /\ lock'.op = NoMint BY <1>5 DEF GoesOn, Lock
    <3>. QED BY <2>6, <2>7, <3>4, <3>5, <3>6, Entered
  <2>. QED BY <1>5, <2>8, <2>9 DEF GoesOn
<1>. QED BY <1>3, <1>4, <1>5 DEF ApprovalChecked

(* The call at work is the only attempt.                                     *)
LEMMA OnlyAttempt ==
  ASSUME Guarded, NEW m \in Mints, mints[m].stage \in {"preparing", "submitting"}
  PROVE  Entering = {m} /\ InFlight = {} /\ lock.held /\ lock.by = m /\ lock.op = NoMint
<1>1. m \in Entering BY DEF Entering
<1>. QED BY <1>1 DEF Guarded, OneAttempt, LockedBy

LEMMA NotReadyGuarded ==
  ASSUME MintedInv, Guarded, NEW m \in Mints, NotReady(m)
  PROVE  Guarded'
<1>1. CallsOK BY DEF MintedInv
<1>2. Entering = {m} /\ InFlight = {} BY OnlyAttempt DEF NotReady, MintAt
<1>3. Entering' = {} BY <1>1, <1>2, LeavesInAll DEF NotReady
<1>4. InFlight' = {} BY <1>2 DEF NotReady, InFlight
<1>5. OneNamed' BY DEF Guarded, OneNamed, Named, Submissions, NotReady
<1>. QED BY <1>3, <1>4, <1>5, Emptied

LEMMA AnnounceGuarded ==
  ASSUME MintedInv, Guarded, RowNumbers, NEW m \in Mints, Announce(m)
  PROVE  Guarded'
<1> DEFINE n == IF mints[m].row = 0 THEN Len(approvals) + 1 ELSE mints[m].row
           op == IF n > Len(approvals) THEN NoMint ELSE approvals[n].op
           rec == [status |-> "pending_confirmation", phase |-> "submission_unknown", op |-> op,
                   cool |-> FALSE]
<1>1. CallsOK /\ RowsOK /\ DOMAIN mints = Mints BY DEF MintedInv, CallsOK
<1>2. /\ mints[m].stage = "preparing"
      /\ approvals' = IF n > Len(approvals) THEN Append(approvals, rec)
                      ELSE [approvals EXCEPT ![n] = rec]
      /\ mints' = [mints EXCEPT ![m].stage = "submitting", ![m].row = n]
      /\ lock' = Lock(m, NoMint, n) /\ mintOps' = mintOps
  BY DEF Announce, MintAt
<1>3. Entering = {m} /\ InFlight = {} BY <1>2, OnlyAttempt
<1>4. Named = {} BY <1>2, <1>3 DEF Guarded, NamedByEntering
<1>5. n \in Nat \ {0}
  <2>1. mints[m].row \in 0 .. Len(approvals) BY <1>2 DEF RowNumbers, Working
  <2>2. Len(approvals) \in Nat BY <1>1 DEF RowsOK
  <2>. QED BY <2>1, <2>2
<1>6. mints'[m].stage = "submitting" /\ mints'[m].row = n
  <2>1. {"stage", "row"} \subseteq DOMAIN mints[m] BY <1>1, <1>2 DEF CallsOK, CallOK, Working
  <2> HIDE DEF n
  <2>. QED BY <1>1, <1>2, <2>1
<1> HIDE DEF n, rec
<1>7. n \in DOMAIN approvals' /\ \A k \in DOMAIN approvals' : k # n => k \in DOMAIN approvals /\ approvals'[k] = approvals[k]
  <2>1. DOMAIN approvals = 1 .. Len(approvals) /\ Len(approvals) \in Nat BY <1>1 DEF RowsOK
  <2>2. CASE n > Len(approvals)
    <3>1. n = Len(approvals) + 1
      <4>1. mints[m].row \in 0 .. Len(approvals) BY <1>2 DEF RowNumbers, Working
      <4>. QED BY <2>1, <2>2, <4>1 DEF n
    <3>. QED BY <1>1, <1>2, <2>1, <2>2, <3>1 DEF RowsOK
  <2>3. CASE ~(n > Len(approvals))
    <3>1. n \in DOMAIN approvals BY <1>5, <2>1, <2>3
    <3>2. approvals' = [approvals EXCEPT ![n] = rec] BY <1>2, <2>3
    <3>. QED BY <1>1, <3>1, <3>2, Rewrites
  <2>. QED BY <2>2, <2>3
<1>8. Named' \subseteq {n} BY <1>4, <1>7 DEF Named, Submissions
<1>9. Entering' \subseteq {m} BY <1>1, <1>2, <1>3 DEF Entering
<1>10. InFlight' = {} BY <1>2, <1>3 DEF InFlight
<1>11. LockedBy' BY <1>2, <1>6, <1>7, <1>9 DEF LockedBy, Lock
<1>12. OneAttempt' /\ RowShows' /\ CheckersSee' /\ LockNames'
  BY <1>9, <1>10 DEF OneAttempt, RowShows, CheckersSee, LockNames
<1>13. NamedByEntering' /\ OneNamed' BY <1>6, <1>8, <1>9 DEF NamedByEntering, OneNamed
<1>. QED BY <1>11, <1>12, <1>13 DEF Guarded

LEMMA SubmittedGuarded ==
  ASSUME MintedInv, Guarded, MintedInv', NEW m \in Mints, Submitted(m)
  PROVE  Guarded'
<1> DEFINE n == mints[m].row
<1>1. CallsOK /\ RowsOK /\ DOMAIN mints = Mints /\ DOMAIN mintOps = Mints /\ RowsOK'
  BY DEF MintedInv, CallsOK, Landed
<1>2. mints[m].stage = "submitting" BY DEF Submitted, MintAt
<1>3. Entering = {m} /\ InFlight = {} /\ lock.op = NoMint BY <1>2, OnlyAttempt
<1>4. n \in DOMAIN approvals /\ lock.row = n /\ n # 0 /\ Named \subseteq {n}
  <2>1. n \in DOMAIN approvals /\ lock.row = n BY <1>2, <1>3 DEF Guarded, LockedBy
  <2>2. Named \subseteq {n} BY <1>2, <1>3 DEF Guarded, NamedByEntering
  <2>. QED BY <1>1, <2>1, <2>2, SubmissionsAreNumbers
<1>5. \A r : approvals' = [approvals EXCEPT ![n] = r] =>
        /\ approvals'[n] = r /\ (~Shows(r) => n \notin Submissions') /\ (Shows(r) => n \in Submissions')
        /\ Named' \subseteq {n} /\ (n \notin Submissions' \/ r.op = NoMint => Named' = {})
  <2> TAKE r
  <2> HAVE approvals' = [approvals EXCEPT ![n] = r]
  <2> HIDE DEF n
  <2>1. /\ approvals'[n] = r /\ \A k \in DOMAIN approvals : k # n => approvals'[k] = approvals[k]
        /\ Submissions' \ {n} = Submissions \ {n} /\ (~Shows(r) => Submissions' = Submissions \ {n})
        /\ (Shows(r) => Submissions' = Submissions \cup {n})
    BY <1>1, <1>4, Rewrites
  <2>2. Named' \subseteq {n} BY <1>4, <2>1 DEF Named, Submissions
  <2>. QED BY <2>1, <2>2 DEF Named
<1> HIDE DEF n
<1>6. (\E op : Refuses(m) \/ Waits(m, op) \/ Claims(m, op)) => Entering' = {}
  BY <1>1, <1>3, LeavesInAll
<1>6a. Submissions' # {} => \E k \in Submissions' : \A j \in Submissions' : k <= j
  <2>1. PICK S : S = Submissions' OBVIOUS
  <2>2. S \subseteq Nat
    <3>1. DOMAIN approvals' = 1 .. Len(approvals') /\ Len(approvals') \in Nat BY <1>1 DEF RowsOK
    <3>. QED BY <2>1, <3>1 DEF Submissions
  <2>3. S # {} => \E k \in S : \A j \in S : k <= j BY <2>2, FirstIsIn
  <2>. QED BY <2>1, <2>3
<1>7. ASSUME NEW status \in {"error", "success"}, NEW phase, NEW op, UpdateApproval(n, status, phase, op),
             Refuses(m) \/ Claims(m, m),
             \/ mintOps' = mintOps
             \/ mintOps' = [mintOps EXCEPT ![m] = "landed"]
             \/ mintOps' = [mintOps EXCEPT ![m] = "reverted"]
      PROVE  Guarded'
  <2> DEFINE r == [status |-> status, phase |-> phase, op |-> op, cool |-> FALSE]
  <2>1. approvals' = [approvals EXCEPT ![n] = r] /\ ~Shows(r) BY <1>7 DEF UpdateApproval, Shows
  <2> HIDE DEF r
  <2>2. Named' = {} BY <1>5, <2>1
  <2>3. InFlight' = {} BY <1>1, <1>3, <1>7 DEF InFlight
  <2>. QED BY <1>6, <1>7, <2>2, <2>3, Emptied DEF OneNamed
<1>8. ASSUME mintOps' = [mintOps EXCEPT ![m] = "inflight"], Waits(m, m), lock' = Lock(m, m, n),
             UpdateApproval(n, "pending_confirmation", "destination_submitted", m)
      PROVE  Guarded'
  <2> DEFINE r == [status |-> "pending_confirmation", phase |-> "destination_submitted", op |-> m, cool |-> FALSE]
  <2>1. approvals' = [approvals EXCEPT ![n] = r] /\ Shows(r) /\ r.op = m
    BY <1>8 DEF UpdateApproval, Shows, DestinationPhases
  <2> HIDE DEF r
  <2>2. Named' \subseteq {n} /\ n \in Submissions' /\ approvals'[n].op = m BY <1>5, <2>1
  <2>3. InFlight' = {m} BY <1>1, <1>3, <1>8 DEF InFlight
  <2>4. Entering' = {} BY <1>6, <1>8
  <2>5. RowShows'
    <3>1. PICK k \in Submissions' : \A j \in Submissions' : k <= j BY <1>6a, <2>2
    <3>2. approvals'[k].op \in InFlight' \cup {NoMint} BY <2>2, <2>3 DEF Named
    <3>. QED BY <3>1, <3>2 DEF RowShows
  <2>6. CheckersSee' /\ LockNames' BY <1>8, <2>3 DEF CheckersSee, LockNames, AnotherLock, Lock
  <2>7. OneAttempt' /\ LockedBy' /\ NamedByEntering' /\ OneNamed'
    BY <2>2, <2>3, <2>4 DEF OneAttempt, LockedBy, NamedByEntering, OneNamed
  <2>. QED BY <2>5, <2>6, <2>7 DEF Guarded
<1>9. ASSUME NEW s \in {"none", "inflight"}, mintOps' = [mintOps EXCEPT ![m] = s], Refuses(m),
             lock' = Lock(m, NoMint, n),
             UpdateApproval(n, "pending_confirmation", "submission_unknown", NoMint)
      PROVE  Guarded'
  <2> DEFINE r == [status |-> "pending_confirmation", phase |-> "submission_unknown", op |-> NoMint, cool |-> FALSE]
  <2>1. approvals' = [approvals EXCEPT ![n] = r] /\ Shows(r) /\ r.op = NoMint
    BY <1>9 DEF UpdateApproval, Shows, DestinationPhases
  <2> HIDE DEF r
  <2>2. Named' = {} /\ n \in Submissions' BY <1>5, <2>1
  <2>3. InFlight' \subseteq {m} BY <1>1, <1>3, <1>9 DEF InFlight
  <2>4. Entering' = {} BY <1>6, <1>9
  <2>5. RowShows'
    <3>1. PICK k \in Submissions' : \A j \in Submissions' : k <= j BY <1>6a, <2>2
    <3>2. approvals'[k].op = NoMint BY <2>2 DEF Named
    <3>. QED BY <3>1, <3>2 DEF RowShows
  <2>6. \A x \in Checking' : mints'[x].op \in Mints BY DEF Checking, MintedInv, CallsOK, CallOK
  <2>7. CheckersSee' /\ LockNames'
    BY <1>9, <2>6, BridgeMintAssumption DEF CheckersSee, LockNames, AnotherLock, Lock, BridgeMintAssumption
  <2>8. OneAttempt' /\ LockedBy' /\ NamedByEntering' /\ OneNamed'
    BY <2>2, <2>3, <2>4 DEF OneAttempt, LockedBy, NamedByEntering, OneNamed
  <2>. QED BY <2>5, <2>7, <2>8 DEF Guarded
<1>10. (IF lock.row # 0 THEN lock.row ELSE n) = n BY <1>4
<1>. QED BY <1>7, <1>8, <1>9, <1>10 DEF Submitted, n

(* What a tool writes at last hides nothing and restores nothing.            *)
LEMMA AnsweredGuarded ==
  ASSUME MintedInv, MintedInv', Guarded, Undisturbed', NEW m \in Mints, Answered(m)
  PROVE  Guarded'
<1> DEFINE n == mints[m].row
           w == Written(m)
<1>1. CallsOK /\ RowsOK /\ DOMAIN mints = Mints BY DEF MintedInv, CallsOK
<1>2. /\ mints' = [mints EXCEPT ![m] = Ended(mints[m].kind)]
      /\ approvals' = [approvals EXCEPT ![n] = w]
      /\ UNCHANGED <<lock, mintOps, nonceUsed>>
      /\ Marked(m, Hides(n, w) \/ Restores(n, w))
  BY DEF Answered
<1>3. ~Hides(n, w) /\ ~Restores(n, w) BY <1>2, Marks
<1>4. \A x \in Mints : mints'[x] = mints[x] \/ mints'[x].stage \notin OnItsWay
  BY <1>1, <1>2 DEF Ended, OnItsWay
<1> HIDE DEF w, n
<1>5. /\ DOMAIN approvals' = DOMAIN approvals
      /\ \A k \in DOMAIN approvals : k # n => approvals'[k] = approvals[k]
      /\ n \in DOMAIN approvals => approvals'[n] = w
      /\ Submissions' \ {n} = Submissions \ {n} /\ (~Shows(w) => Submissions' = Submissions \ {n})
      /\ (n \in DOMAIN approvals /\ Shows(w) => Submissions' = Submissions \cup {n})
  BY <1>1, <1>2, Rewrites
<1>6. Submissions \subseteq DOMAIN approvals /\ DOMAIN approvals \subseteq Nat BY <1>1, SubmissionsAreNumbers
<1>7. \A k \in Named' : k \in Named
  BY <1>3, <1>5, <1>6 DEF Named, Restores, Submissions
<1>8. /\ Entering' \subseteq Entering /\ Checking' \subseteq Checking /\ InFlight' = InFlight
      /\ \A x \in Entering' \cup Checking' : mints'[x] = mints[x]
  BY <1>2, <1>4 DEF Entering, Checking, InFlight, OnItsWay
<1>9. RowShows'
  <2>. SUFFICES ASSUME ~nonceUsed', InFlight' # {}
       PROVE  \E k \in Submissions' : /\ \A j \in Submissions' : k <= j
                                      /\ approvals'[k].op \in InFlight' \cup {NoMint}
    BY DEF RowShows
  <2>1. PICK k \in Submissions : /\ \A j \in Submissions : k <= j
                                 /\ approvals[k].op \in InFlight \cup {NoMint}
    BY <1>2, <1>8 DEF Guarded, RowShows
  <2>2. CASE n \notin DOMAIN approvals
    <3>1. Submissions' = Submissions BY <1>5, <1>6, <2>2 DEF Submissions
    <3>. QED BY <1>5, <1>6, <1>8, <2>1, <2>2, <3>1
  <2>3. CASE n \in DOMAIN approvals /\ Shows(w)
    <3>1. Submissions' = Submissions \cup {n} /\ approvals'[n] = w BY <1>5, <2>3
    <3>2. CASE n \in Submissions
      <4>1. w.op = NoMint \/ w.op = approvals[n].op BY <1>3, <2>3 DEF Restores
      <4>. QED BY <1>5, <1>6, <1>8, <2>1, <3>1, <3>2, <4>1
    <3>3. CASE n \notin Submissions
      <4>1. w.op = NoMint BY <1>3, <2>3, <3>3 DEF Restores
      <4>2. n \in Nat /\ k \in Nat /\ \A j \in Submissions : j \in Nat BY <1>6, <2>1, <2>3
      <4>3. CASE n <= k
        <5>1. \A j \in Submissions' : n <= j BY <2>1, <3>1, <4>2, <4>3
        <5>. QED BY <3>1, <4>1, <5>1
      <4>4. CASE k <= n
        <5>1. \A j \in Submissions' : k <= j BY <2>1, <3>1, <4>2, <4>4
        <5>2. approvals'[k] = approvals[k] BY <1>5, <1>6, <2>1, <3>3
        <5>. QED BY <1>8, <2>1, <3>1, <5>1, <5>2
      <4>. QED BY <4>2, <4>3, <4>4
    <3>. QED BY <3>2, <3>3
  <2>4. CASE n \in DOMAIN approvals /\ ~Shows(w)
    <3>1. w.status # "success"
      BY <1>5, <2>4 DEF MintedInv, SuccessMeansMinted
    <3>2. k # n
      <4>. SUFFICES ASSUME k = n PROVE FALSE OBVIOUS
      <4>1. approvals[n].op # NoMint /\ mintOps[approvals[n].op] # "inflight"
        BY <1>3, <2>1, <2>4, <3>1 DEF Hides
      <4>. QED BY <2>1, <4>1 DEF InFlight
    <3>3. k \in Submissions' /\ approvals'[k] = approvals[k] /\ Submissions' \subseteq Submissions
      BY <1>5, <1>6, <2>1, <2>4, <3>2
    <3>. QED BY <1>8, <2>1, <3>3
  <2>. QED BY <2>2, <2>3, <2>4
<1>10. OneAttempt' BY <1>8 DEF Guarded, OneAttempt
<1>11. LockedBy' BY <1>2, <1>5, <1>8 DEF Guarded, LockedBy
<1>12. NamedByEntering' /\ OneNamed' BY <1>7, <1>8 DEF Guarded, NamedByEntering, OneNamed
<1>13. CheckersSee' /\ LockNames' BY <1>2, <1>8 DEF Guarded, CheckersSee, LockNames, AnotherLock
<1>. QED BY <1>9, <1>10, <1>11, <1>12, <1>13 DEF Guarded

(* The chain mines the operation in flight: nothing is under way any more.    *)
LEMMA MinedGuarded ==
  ASSUME MintedInv, Guarded, NEW m \in Mints, MintMined(m)
  PROVE  Guarded'
<1>1. DOMAIN mintOps = Mints BY DEF MintedInv, Landed
<1>2. m \in InFlight BY DEF MintMined, InFlight
<1>3. InFlight = {m} /\ Entering = {} BY <1>2 DEF Guarded, OneAttempt
<1>4. UNCHANGED <<approvals, mints>> BY DEF MintMined, MintStays
<1>5. InFlight' = {}
  <2>1. mintOps'[m] # "inflight" /\ \A x \in Mints \ {m} : mintOps'[x] = mintOps[x]
    BY <1>1 DEF MintMined
  <2>. QED BY <1>3, <2>1 DEF InFlight
<1>6. Entering' = {} BY <1>3, <1>4 DEF Entering
<1>7. OneNamed' BY <1>4 DEF Guarded, OneNamed, Named, Submissions
<1>. QED BY <1>5, <1>6, <1>7, Emptied

(* What a restart cuts is announced: the next call finds it.                 *)
LEMMA RestartGuarded ==
  ASSUME MintedInv, Guarded, Undisturbed', MintRestart
  PROVE  Guarded'
<1>1. PICK lost \in SUBSET {m \in Mints : MintAt(m, "submitting")} :
        /\ mintOps' = [m \in Mints |-> IF m \in lost THEN "inflight" ELSE mintOps[m]]
        /\ released' = released \cup
             {m \in lost : mints[m].row \notin Submissions \/ approvals[mints[m].row].op # NoMint}
  BY DEF MintRestart
<1>2. /\ lock' = NoLock /\ UNCHANGED <<approvals, nonceUsed>>
      /\ mints' = [m \in Mints |-> IF MintAt(m, "new") \/ MintAt(m, "done") THEN mints[m]
                                   ELSE Ended(mints[m].kind)]
  BY DEF MintRestart
<1>3. Entering' = {} /\ Checking' = {}
  <2>1. \A m \in Mints : mints'[m].stage \in {"new", "done"} BY <1>2 DEF MintAt, Ended
  <2>. QED BY <2>1 DEF Entering, Checking
<1>4. Submissions' = Submissions /\ Named' = Named BY <1>2 DEF Submissions, Named
<1>5. lost \subseteq Entering BY DEF Entering, MintAt
<1>6. InFlight' = InFlight \cup lost BY <1>1 DEF InFlight
<1>7. /\ OneAttempt' /\ LockedBy' /\ NamedByEntering' /\ OneNamed' /\ CheckersSee' /\ LockNames'
  BY <1>2, <1>3, <1>4, <1>5, <1>6
  DEF Guarded, OneAttempt, LockedBy, NamedByEntering, OneNamed, CheckersSee, LockNames, NoLock
<1>8. RowShows'
  <2>1. CASE lost = {} BY <1>2, <1>4, <1>6, <2>1 DEF Guarded, RowShows
  <2>2. CASE lost # {}
    <3>1. PICK x \in lost : TRUE BY <2>2
    <3>2. mints[x].row \in Submissions /\ approvals[mints[x].row].op = NoMint
      BY <1>1, <3>1 DEF Undisturbed
    <3>3. mints[x].stage = "submitting" /\ x \in Entering BY <1>5, <3>1 DEF MintAt
    <3>4. Named = {} BY <3>2, <3>3 DEF Guarded, NamedByEntering, Named
    <3>5. Submissions \subseteq Nat BY SubmissionsAreNumbers DEF MintedInv
    <3>6. PICK k \in Submissions : \A j \in Submissions : k <= j BY <3>2, <3>5, FirstIsIn
    <3>7. approvals[k].op = NoMint BY <3>4, <3>6 DEF Named
    <3>. QED BY <1>2, <1>4, <3>6, <3>7 DEF RowShows
  <2>. QED BY <2>1, <2>2
<1>. QED BY <1>3, <1>4, <1>7, <1>8 DEF Guarded

(* A tool that asks, the status tool, Iris, the cooldown and other relayers     *)
(* leave the lock and the operations as they are.                           *)
LEMMA OutsideGuarded ==
  ASSUME MintedInv, Guarded,
         \/ \E m \in Mints :
              \/ AsksByExecution(m) \/ AsksByBurn(m) \/ Unproven(m) \/ StatusAnswered(m)
              \/ \E n \in DOMAIN approvals : AsksByRequest(m, n)
         \/ \E n \in DOMAIN approvals : CooldownPasses(n)
         \/ IrisIndexes \/ Relayed
  PROVE  Guarded'
<1>1. CallsOK /\ RowsOK /\ DOMAIN mints = Mints BY DEF MintedInv, CallsOK
<1>2. ASSUME NEW m \in Mints, NEW c, mints' = [mints EXCEPT ![m] = c], c.stage \notin OnItsWay,
             UNCHANGED <<lock, approvals, mintOps>>, nonceUsed' = nonceUsed
      PROVE  Guarded'
  <2>1. \A x \in Mints : mints'[x] = mints[x] \/ mints'[x].stage \notin OnItsWay
    BY <1>1, <1>2
  <2>. QED BY <1>2, <2>1, CallsOnly
<1>3. ASSUME NEW m \in Mints, NEW kind, NEW n, Asks(m, kind, n), MintStays, AskedOnly
      PROVE  Guarded'
  <2> DEFINE seen == IF kind = "request" THEN Shown(n) ELSE [phase |-> "none"]
             asking == [stage |-> "asking", kind |-> kind, row |-> n, asked |-> n, seen |-> seen,
                        op |-> NoMint, at |-> 0]
             ended == Ending(kind, n, seen, IF IrisSays = "rejected" THEN "rejected" ELSE "refused", NoMint)
  <2>1. mints' = [mints EXCEPT ![m] = asking] \/ mints' = [mints EXCEPT ![m] = ended]
    BY <1>3 DEF Asks
  <2>2. asking.stage \notin OnItsWay /\ ended.stage \notin OnItsWay BY LeavesStage DEF OnItsWay
  <2>3. UNCHANGED <<lock, approvals, mintOps, nonceUsed>> BY <1>3 DEF MintStays, AskedOnly
  <2> HIDE DEF asking, ended
  <2>. QED BY <1>2, <2>1, <2>2, <2>3
<1>4. ASSUME NEW m \in Mints, NEW n, NEW outcome,
             mints' = [mints EXCEPT ![m] = Ending("request", n, Shown(n), outcome, NoMint)],
             MintStays, AskedOnly
      PROVE  Guarded'
  <2> DEFINE c == Ending("request", n, Shown(n), outcome, NoMint)
  <2>1. c.stage \notin OnItsWay BY LeavesStage
  <2>2. UNCHANGED <<lock, approvals, mintOps, nonceUsed>> BY <1>4 DEF MintStays, AskedOnly
  <2>3. mints' = [mints EXCEPT ![m] = c] BY <1>4
  <2> HIDE DEF c
  <2>. QED BY <1>2, <2>1, <2>2, <2>3
<1>5. ASSUME NEW m \in Mints, AsksByExecution(m) \/ AsksByBurn(m) \/ Unproven(m) PROVE Guarded'
  <2>1. MintStays /\ AskedOnly BY <1>5 DEF AsksByExecution, AsksByBurn, Unproven
  <2>2. CASE AsksByExecution(m) BY <1>3, <2>1, <2>2 DEF AsksByExecution
  <2>3. CASE AsksByBurn(m) BY <1>3, <2>1, <2>3 DEF AsksByBurn
  <2>4. CASE Unproven(m) BY <1>4, <2>1, <2>4 DEF Unproven
  <2>. QED BY <1>5, <2>2, <2>3, <2>4
<1>6. ASSUME NEW m \in Mints, NEW n \in DOMAIN approvals, AsksByRequest(m, n) PROVE Guarded'
  <2>1. MintStays /\ AskedOnly BY <1>6 DEF AsksByRequest
  <2>2. \/ Asks(m, "request", n)
        \/ mints' = [mints EXCEPT ![m] = Ending("request", n, Shown(n), "rejected", NoMint)]
        \/ mints' = [mints EXCEPT ![m] = Ending("request", n, Shown(n), "refused", NoMint)]
    BY <1>6 DEF AsksByRequest
  <2>. QED BY <1>3, <1>4, <2>1, <2>2
<1>7. ASSUME NEW m \in Mints, StatusAnswered(m) PROVE Guarded'
  <2>1. Ended("status").stage \notin OnItsWay BY DEF Ended, OnItsWay
  <2>. QED BY <1>2, <1>7, <2>1 DEF StatusAnswered, MintStays
<1>8. ASSUME NEW n \in DOMAIN approvals, CooldownPasses(n) PROVE Guarded'
  <2> DEFINE r == [approvals[n] EXCEPT !.cool = TRUE]
  <2>1. approvals' = [approvals EXCEPT ![n] = r] /\ UNCHANGED <<lock, mints, mintOps, nonceUsed>>
        /\ n \in Submissions
    BY <1>8 DEF CooldownPasses
  <2>2. r.op = approvals[n].op /\ Shows(r)
    <3>1. approvals[n] \in MintApproval BY <1>1, DOMAIN approvals = 1 .. Len(approvals) DEF RowsOK
    <3>. QED BY <2>1, <3>1 DEF MintApproval, Shows, Submissions
  <2> HIDE DEF r
  <2>3. /\ DOMAIN approvals' = DOMAIN approvals /\ Submissions' = Submissions \cup {n}
        /\ \A k \in DOMAIN approvals : k # n => approvals'[k] = approvals[k]
        /\ approvals'[n] = r
    BY <1>1, <2>1, <2>2, Rewrites
  <2>4. \A k \in Submissions : approvals'[k].op = approvals[k].op
    BY <2>2, <2>3 DEF Submissions
  <2>. QED BY <2>1, <2>3, <2>4, Quiet
<1>9. CASE IrisIndexes \/ Relayed
  <2>1. (nonceUsed => nonceUsed') /\ UNCHANGED <<lock, approvals, mintOps, mints>>
    BY <1>9 DEF IrisIndexes, Relayed, MintStays
  <2>. QED BY <2>1, CallsOnly
<1>. QED BY <1>5, <1>6, <1>7, <1>8, <1>9

(* The approvals become more, never fewer. *)
LEMMA RowsGrow ==
  ASSUME MintedInv, RowNumbers, BridgeMintNext
  PROVE  Len(approvals) \in Nat /\ Len(approvals') \in Nat /\ Len(approvals) <= Len(approvals')
<1>1. approvals \in Seq(MintApproval) BY DEF MintedInv, RowsOK
<1>2. ASSUME approvals' = approvals \/ \E n, r : approvals' = [approvals EXCEPT ![n] = r]
      PROVE  Len(approvals') = Len(approvals)
  BY <1>1, <1>2
<1>3. ASSUME NEW r, approvals' = Append(approvals, r)
      PROVE  Len(approvals') = Len(approvals) + 1
  <2>1. approvals \in Seq(MintApproval \cup {r}) BY <1>1
  <2>. QED BY <1>3, <2>1
<1>4. ASSUME NEW m \in Mints, PastLock(m) PROVE approvals' = approvals
  BY <1>4 DEF PastLock, TakeLock
<1>5. ASSUME NEW m \in Mints, NonceUsed(m) \/ NonceUnread(m) \/ NonceFree(m) \/ LockChecked(m) \/ NotReady(m)
      PROVE  approvals' = approvals
  BY <1>4, <1>5 DEF NonceUsed, NonceUnread, NonceFree, LockChecked, NotReady, MintStays
<1>6. ASSUME NEW m \in Mints, ApprovalChecked(m) \/ Submitted(m) \/ Answered(m)
      PROVE  approvals' = approvals \/ \E n, r : approvals' = [approvals EXCEPT ![n] = r]
  BY <1>6 DEF ApprovalChecked, Submitted, Answered, UpdateApproval
<1>7. ASSUME NEW m \in Mints, Announce(m)
      PROVE  \/ \E n, r : approvals' = [approvals EXCEPT ![n] = r]
             \/ \E r : approvals' = Append(approvals, r)
  BY <1>7 DEF Announce
<1>8. ASSUME NEW m \in Mints,
             \/ AsksByExecution(m) \/ AsksByBurn(m) \/ Unproven(m) \/ StatusAnswered(m) \/ MintMined(m)
             \/ \E n \in DOMAIN approvals : AsksByRequest(m, n)
      PROVE  approvals' = approvals
  BY <1>8 DEF AsksByExecution, AsksByBurn, Unproven, StatusAnswered, MintMined, AsksByRequest, MintStays
<1>9. ASSUME IrisIndexes \/ Relayed \/ MintRestart PROVE approvals' = approvals
  BY <1>9 DEF IrisIndexes, Relayed, MintRestart, MintStays
<1>10. ASSUME NEW n \in DOMAIN approvals, CooldownPasses(n)
       PROVE  \E k, r : approvals' = [approvals EXCEPT ![k] = r]
  <2>1. approvals' = [approvals EXCEPT ![n] = [approvals[n] EXCEPT !.cool = TRUE]]
    BY <1>10 DEF CooldownPasses
  <2>. QED BY <2>1
<1>11. \/ approvals' = approvals
       \/ \E n, r : approvals' = [approvals EXCEPT ![n] = r]
       \/ \E r : approvals' = Append(approvals, r)
  BY <1>5, <1>6, <1>7, <1>8, <1>9, <1>10 DEF BridgeMintNext
<1>12. Len(approvals) \in Nat BY <1>1
<1>13. Len(approvals') = Len(approvals) \/ Len(approvals') = Len(approvals) + 1
  BY <1>2, <1>3, <1>11
<1>. QED BY <1>12, <1>13

(* One call moves, to a row there is.                                        *)
LEMMA RowOfOne ==
  ASSUME CallsOK, RowNumbers, Len(approvals) \in Nat, Len(approvals') \in Nat,
         Len(approvals) <= Len(approvals'),
         NEW m \in Mints, NEW c, mints' = [mints EXCEPT ![m] = c],
         c.stage \in Working => c.row \in 0 .. Len(approvals')
  PROVE  RowNumbers'
<1>1. ASSUME NEW x \in Mints, mints'[x].stage \in Working
      PROVE  mints'[x].row \in 0 .. Len(approvals')
  <2>1. CASE x = m BY <1>1, <2>1 DEF CallsOK
  <2>2. CASE x # m
    <3>1. mints'[x] = mints[x] BY <2>2 DEF CallsOK
    <3>2. mints[x].row \in 0 .. Len(approvals) BY <1>1, <3>1 DEF RowNumbers
    <3>. QED BY <3>1, <3>2
  <2>. QED BY <2>1, <2>2
<1>. QED BY <1>1 DEF RowNumbers

(* The row that a call works for is one there is. *)
LEMMA RowOfIsRow ==
  ASSUME RowsOK, RowNumbers, NEW m \in Mints, mints[m].stage \in Working,
         NEW open, open \subseteq DOMAIN approvals
  PROVE  RowOf(m, open) \in 0 .. Len(approvals)
<1>1. DOMAIN approvals = 1 .. Len(approvals) /\ Len(approvals) \in Nat BY DEF RowsOK
<1>2. mints[m].row \in 0 .. Len(approvals) BY DEF RowNumbers
<1>3. CASE open = {} BY <1>1, <1>2, <1>3 DEF RowOf
<1>4. CASE open # {}
  <2>1. open \subseteq Nat BY <1>1
  <2>2. FirstIn(open) \in open BY <1>4, <2>1, FirstIsIn
  <2>3. FirstIn(open) \in 0 .. Len(approvals) BY <1>1, <2>2
  <2>. QED BY <1>2, <2>3 DEF RowOf
<1>. QED BY <1>3, <1>4

LEMMA RowsKept ==
  ASSUME MintedInv, RowNumbers, BridgeMintNext
  PROVE  RowNumbers'
<1>1. /\ CallsOK /\ RowsOK /\ DOMAIN mints = Mints
      /\ Len(approvals) \in Nat /\ Len(approvals') \in Nat /\ Len(approvals) <= Len(approvals')
  BY RowsGrow DEF MintedInv, CallsOK
<1>2. DOMAIN approvals = 1 .. Len(approvals) /\ 1 \in DOMAIN approvals
  <2>1. DOMAIN approvals = 1 .. Len(approvals) BY <1>1 DEF RowsOK
  <2>2. Len(approvals) # 0 BY <1>1 DEF RowsOK
  <2>. QED BY <1>1, <2>1, <2>2
<1>3. ASSUME mints' = mints PROVE RowNumbers'
  <2>1. ASSUME NEW x \in Mints, mints[x].stage \in Working PROVE mints[x].row \in 0 .. Len(approvals')
    <3>1. mints[x].row \in 0 .. Len(approvals) BY <2>1 DEF RowNumbers
    <3>. QED BY <1>1, <3>1
  <2>. QED BY <1>3, <2>1 DEF RowNumbers
<1>4. ASSUME NEW m \in Mints, NEW c, mints' = [mints EXCEPT ![m] = c], c.stage \notin Working
      PROVE  RowNumbers'
  BY <1>1, <1>4, RowOfOne
<1>5. ASSUME NEW kind PROVE Ended(kind).stage \notin Working BY DEF Ended, Working
<1>6. ASSUME NEW kind, NEW n, NEW seen, NEW outcome, NEW op
      PROVE  Ending(kind, n, seen, outcome, op).stage \notin Working
  BY DEF Ending, Ended, Working
<1>7. ASSUME NEW m \in Mints, NEW op, Refuses(m) \/ Waits(m, op) \/ Claims(m, op) PROVE RowNumbers'
  <2>1. PICK outcome, o : Leaves(m, outcome, o) BY <1>7 DEF Refuses, Waits, Claims
  <2> DEFINE c == Ending(mints[m].kind, mints[m].asked, mints[m].seen, outcome, o)
  <2>2. mints' = [mints EXCEPT ![m] = c] BY <2>1 DEF Leaves
  <2>3. c.stage \notin Working BY <1>6
  <2> HIDE DEF c
  <2>. QED BY <1>4, <2>2, <2>3
<1>8. ASSUME NEW m \in Mints, NEW kind, NEW n \in 0 .. Len(approvals), Asks(m, kind, n) PROVE RowNumbers'
  <2> DEFINE seen == IF kind = "request" THEN Shown(n) ELSE [phase |-> "none"]
             asking == [stage |-> "asking", kind |-> kind, row |-> n, asked |-> n, seen |-> seen,
                        op |-> NoMint, at |-> 0]
             ended == Ending(kind, n, seen, IF IrisSays = "rejected" THEN "rejected" ELSE "refused", NoMint)
  <2>1. mints' = [mints EXCEPT ![m] = asking] \/ mints' = [mints EXCEPT ![m] = ended]
    BY <1>8 DEF Asks
  <2>2. asking.row = n /\ n \in 0 .. Len(approvals') BY <1>1
  <2>3. ended.stage \notin Working BY <1>6
  <2> HIDE DEF asking, ended
  <2>4. CASE mints' = [mints EXCEPT ![m] = asking] BY <1>1, <2>2, <2>4, RowOfOne
  <2>. QED BY <1>4, <2>1, <2>3, <2>4
<1>9. ASSUME NEW m \in Mints, mints[m].stage \in Working, NEW c,
             mints' = [mints EXCEPT ![m] = c], c.row = mints[m].row
      PROVE  RowNumbers'
  <2>1. mints[m].row \in 0 .. Len(approvals') BY <1>1, <1>9 DEF RowNumbers
  <2>. QED BY <1>1, <1>9, <2>1, RowOfOne
<1>9a. ASSUME NEW m \in Mints, mints[m].stage \in Working, NEW s, NEW op, NEW n
       PROVE  /\ [mints[m] EXCEPT !.stage = s, !.op = op, !.at = n].row = mints[m].row
              /\ [mints[m] EXCEPT !.stage = s, !.op = op].row = mints[m].row
  <2>1. Fields \subseteq DOMAIN mints[m] BY <1>1, <1>9a DEF CallsOK, CallOK, Fields
  <2>. QED BY <2>1 DEF Fields
<1>10. ASSUME NEW m \in Mints, mints[m].stage \in Working, NEW s, NEW r \in 0 .. Len(approvals'),
              mints' = [mints EXCEPT ![m].stage = s, ![m].row = r]
       PROVE  RowNumbers'
  <2>1. Fields \subseteq DOMAIN mints[m] BY <1>1, <1>10 DEF CallsOK, CallOK, Fields
  <2>2. mints'[m].row = r BY <1>1, <1>10, <2>1 DEF Fields
  <2> DEFINE c == mints'[m]
  <2>3. mints' = [mints EXCEPT ![m] = c] BY <1>1, <1>10
  <2> HIDE DEF c
  <2>4. c.row = r BY <2>2 DEF c
  <2>. QED BY <1>1, <2>3, <2>4, RowOfOne
<1>11. ASSUME NEW m \in Mints, mints[m].stage \in Working, NEW open, open \subseteq DOMAIN approvals
       PROVE  RowOf(m, open) \in 0 .. Len(approvals')
  <2>1. RowOf(m, open) \in 0 .. Len(approvals) BY <1>1, <1>11, RowOfIsRow
  <2>. QED BY <1>1, <2>1
<1>12. OpenRows \subseteq DOMAIN approvals BY DEF OpenRows
<1>13. ASSUME NEW m \in Mints, mints[m].stage \in Working, NEW open, open \subseteq DOMAIN approvals, NEW s,
              mints' = [mints EXCEPT ![m].stage = s, ![m].row = RowOf(m, open)]
       PROVE  RowNumbers'
  <2>1. PICK r : r = RowOf(m, open) OBVIOUS
  <2>2. r \in 0 .. Len(approvals') BY <1>11, <1>13, <2>1
  <2>. QED BY <1>10, <1>13, <2>1, <2>2
<1>14. ASSUME NEW m \in Mints, mints[m].stage \in Working, PastLock(m) PROVE RowNumbers'
  <2>1. CASE TakeLock(m) BY <1>12, <1>13, <1>14, <2>1 DEF TakeLock
  <2>2. CASE Refuses(m) BY <1>7, <2>2
  <2> DEFINE n == FirstIn(Submissions)
  <2>3. CASE mints' = [mints EXCEPT ![m] = [mints[m] EXCEPT
                !.stage = "checking_approval", !.op = approvals[n].op, !.at = n]]
    <3> DEFINE c == [mints[m] EXCEPT !.stage = "checking_approval", !.op = approvals[n].op, !.at = n]
    <3>1. c.row = mints[m].row BY <1>14, <1>9a
    <3>2. mints' = [mints EXCEPT ![m] = c] BY <2>3
    <3> HIDE DEF c
    <3>. QED BY <1>9, <1>14, <3>1, <3>2
  <2>. QED BY <1>14, <2>1, <2>2, <2>3 DEF PastLock
<1>15. ASSUME NEW m \in Mints, NonceUsed(m) \/ NonceUnread(m) \/ NonceFree(m) \/ LockChecked(m)
       PROVE  RowNumbers'
  <2>1. mints[m].stage \in Working
    BY <1>15 DEF NonceUsed, NonceUnread, NonceFree, LockChecked, MintAt, Working
  <2>2. \/ PastLock(m) \/ \E op : Refuses(m) \/ Waits(m, op) \/ Claims(m, op)
        \/ mints' = [mints EXCEPT ![m] = [mints[m] EXCEPT !.stage = "checking_lock", !.op = lock.op]]
    BY <1>15 DEF NonceUsed, NonceUnread, NonceFree, LockChecked
  <2>3. CASE mints' = [mints EXCEPT ![m] = [mints[m] EXCEPT !.stage = "checking_lock", !.op = lock.op]]
    <3> DEFINE c == [mints[m] EXCEPT !.stage = "checking_lock", !.op = lock.op]
    <3>1. c.row = mints[m].row BY <1>9a, <2>1
    <3>2. mints' = [mints EXCEPT ![m] = c] BY <2>3
    <3> HIDE DEF c
    <3>. QED BY <1>9, <2>1, <3>1, <3>2
  <2>. QED BY <1>7, <1>14, <2>1, <2>2, <2>3
<1>16. ASSUME NEW m \in Mints, ApprovalChecked(m) PROVE RowNumbers'
  <2>1. mints[m].stage \in Working BY <1>16 DEF ApprovalChecked, MintAt, Working
  <2>2. \/ \E op : Refuses(m) \/ Waits(m, op) \/ Claims(m, op)
        \/ mints' = [mints EXCEPT ![m].stage = "preparing",
                                  ![m].row = RowOf(m, OpenRows \ {mints[m].at})]
    BY <1>16 DEF ApprovalChecked, GoesOn
  <2>3. OpenRows \ {mints[m].at} \subseteq DOMAIN approvals BY <1>12
  <2>. QED BY <1>7, <1>13, <2>1, <2>2, <2>3
<1>17. ASSUME NEW m \in Mints, Announce(m) PROVE RowNumbers'
  <2> DEFINE n == IF mints[m].row = 0 THEN Len(approvals) + 1 ELSE mints[m].row
  <2>1. mints[m].stage \in Working BY <1>17 DEF Announce, MintAt, Working
  <2>2. mints' = [mints EXCEPT ![m].stage = "submitting", ![m].row = n] BY <1>17 DEF Announce
  <2>3. n \in 0 .. Len(approvals')
    <3>1. mints[m].row \in 0 .. Len(approvals) BY <2>1 DEF RowNumbers
    <3>2. CASE mints[m].row = 0
      <4>1. PICK r : approvals' = Append(approvals, r) BY <1>1, <1>17, <3>2 DEF Announce
      <4>2. Len(approvals') = Len(approvals) + 1
        <5>1. approvals \in Seq(MintApproval \cup {r}) BY <1>1 DEF RowsOK
        <5>. QED BY <4>1, <5>1
      <4>. QED BY <1>1, <3>2, <4>2
    <3>. QED BY <1>1, <3>1, <3>2
  <2> HIDE DEF n
  <2>. QED BY <1>10, <2>1, <2>2, <2>3
<1>18. ASSUME NEW m \in Mints, NotReady(m) \/ Submitted(m) PROVE RowNumbers'
  <2>1. \E op : Refuses(m) \/ Waits(m, op) \/ Claims(m, op) BY <1>18 DEF NotReady, Submitted
  <2>. QED BY <1>7, <2>1
<1>19. ASSUME NEW m \in Mints, Answered(m) \/ StatusAnswered(m) PROVE RowNumbers'
  <2>1. PICK kind : mints' = [mints EXCEPT ![m] = Ended(kind)] BY <1>19 DEF Answered, StatusAnswered
  <2>. QED BY <1>4, <1>5, <2>1
<1>20. ASSUME NEW m \in Mints, AsksByExecution(m) \/ AsksByBurn(m) \/ Unproven(m) PROVE RowNumbers'
  <2>1. Submissions # {} => FirstIn(Submissions) \in 0 .. Len(approvals)
    <3>1. Submissions \subseteq Nat /\ Submissions \subseteq DOMAIN approvals
      BY <1>1, SubmissionsAreNumbers
    <3>2. PICK S : S = Submissions OBVIOUS
    <3>3. S # {} => FirstIn(S) \in S BY <3>1, <3>2, FirstIsIn
    <3>4. DOMAIN approvals \subseteq 0 .. Len(approvals) BY <1>2
    <3>. QED BY <3>1, <3>2, <3>3, <3>4
  <2>2. CASE AsksByExecution(m) BY <1>2, <1>8, <2>2 DEF AsksByExecution
  <2>3. CASE AsksByBurn(m) BY <1>1, <1>8, <2>1, <2>3 DEF AsksByBurn
  <2>4. CASE Unproven(m) BY <1>4, <1>6, <2>4 DEF Unproven
  <2>. QED BY <1>20, <2>2, <2>3, <2>4
<1>21. ASSUME NEW m \in Mints, NEW n \in DOMAIN approvals, AsksByRequest(m, n) PROVE RowNumbers'
  <2>1. n \in 0 .. Len(approvals) BY <1>2
  <2>2. \/ Asks(m, "request", n)
        \/ mints' = [mints EXCEPT ![m] = Ending("request", n, Shown(n), "rejected", NoMint)]
        \/ mints' = [mints EXCEPT ![m] = Ending("request", n, Shown(n), "refused", NoMint)]
    BY <1>21 DEF AsksByRequest
  <2>. QED BY <1>4, <1>6, <1>8, <2>1, <2>2
<1>22. ASSUME MintRestart PROVE RowNumbers'
  <2>1. mints' = [m \in Mints |-> IF MintAt(m, "new") \/ MintAt(m, "done") THEN mints[m]
                                  ELSE Ended(mints[m].kind)]
    BY <1>22 DEF MintRestart
  <2>2. \A m \in Mints : mints'[m].stage \notin Working BY <1>5, <2>1 DEF MintAt, Working
  <2>. QED BY <2>2 DEF RowNumbers
<1>23. ASSUME \/ \E m \in Mints : MintMined(m)
              \/ \E n \in DOMAIN approvals : CooldownPasses(n)
              \/ IrisIndexes \/ Relayed
       PROVE  RowNumbers'
  BY <1>3, <1>23 DEF MintMined, CooldownPasses, IrisIndexes, Relayed
<1>. QED BY <1>15, <1>16, <1>17, <1>18, <1>19, <1>20, <1>21, <1>22, <1>23 DEF BridgeMintNext

(* Once a history is marked it stays. *)
LEMMA HistoryStays ==
  ASSUME BridgeMintNext
  PROVE  recovered \subseteq recovered' /\ released \subseteq released'
<1>1. ASSUME NEW m, NEW slip, Marked(m, slip) PROVE released \subseteq released' BY <1>1 DEF Marked
<1>2. ASSUME NEW m, PastLock(m) PROVE recovered \subseteq recovered' BY <1>2 DEF PastLock
<1>3. ASSUME NEW m, NonceUsed(m) \/ NonceUnread(m) \/ NonceFree(m) \/ LockChecked(m)
      PROVE  recovered \subseteq recovered' /\ released \subseteq released'
  BY <1>1, <1>2, <1>3 DEF NonceUsed, NonceUnread, NonceFree, LockChecked
<1>4. ASSUME NEW m, ApprovalChecked(m) \/ NotReady(m) \/ Announce(m) \/ Submitted(m) \/ Answered(m)
      PROVE  recovered \subseteq recovered' /\ released \subseteq released'
  BY <1>1, <1>4 DEF ApprovalChecked, NotReady, Announce, Submitted, Answered, DropLock
<1>5. ASSUME NEW m, \/ AsksByExecution(m) \/ AsksByBurn(m) \/ Unproven(m) \/ StatusAnswered(m)
                    \/ MintMined(m) \/ \E n \in DOMAIN approvals : AsksByRequest(m, n)
      PROVE  recovered \subseteq recovered' /\ released \subseteq released'
  BY <1>5 DEF AsksByExecution, AsksByBurn, Unproven, StatusAnswered, MintMined, AsksByRequest, AskedOnly
<1>6. ASSUME (\E n \in DOMAIN approvals : CooldownPasses(n)) \/ IrisIndexes \/ Relayed \/ MintRestart
      PROVE  recovered \subseteq recovered' /\ released \subseteq released'
  BY <1>6 DEF CooldownPasses, IrisIndexes, Relayed, MintRestart
<1>. QED BY <1>3, <1>4, <1>5, <1>6 DEF BridgeMintNext

LEMMA GuardNext ==
  ASSUME MintedInv, RowNumbers, GuardInv, BridgeMintNext, MintedInv'
  PROVE  GuardInv'
<1>. SUFFICES ASSUME Undisturbed' PROVE Guarded' BY DEF GuardInv
<1>1. Guarded BY HistoryStays DEF GuardInv, Undisturbed
<1>2. ASSUME NEW m \in Mints,
             \/ NonceUsed(m) \/ NonceUnread(m) \/ NonceFree(m) \/ LockChecked(m)
             \/ ApprovalChecked(m) \/ NotReady(m) \/ Announce(m)
      PROVE  Guarded'
  BY <1>1, <1>2, NonceGuarded, LockCheckedGuarded, ApprovalCheckedGuarded, NotReadyGuarded, AnnounceGuarded
<1>3. ASSUME NEW m \in Mints, Submitted(m) \/ Answered(m) \/ MintMined(m) PROVE Guarded'
  BY <1>1, <1>3, SubmittedGuarded, AnsweredGuarded, MinedGuarded
<1>4. CASE MintRestart BY <1>1, <1>4, RestartGuarded
<1>5. CASE \/ \E m \in Mints :
                \/ AsksByExecution(m) \/ AsksByBurn(m) \/ Unproven(m) \/ StatusAnswered(m)
                \/ \E n \in DOMAIN approvals : AsksByRequest(m, n)
           \/ \E n \in DOMAIN approvals : CooldownPasses(n)
           \/ IrisIndexes \/ Relayed
  BY <1>1, <1>5, OutsideGuarded
<1>. QED BY <1>2, <1>3, <1>4, <1>5 DEF BridgeMintNext

(* OneMintInFlight for any number of calls and faults: while no call recovers  *)
(* a hashless submission and none is marked in released, no two             *)
(* receiveMessage operations of the burn are under way (mcpServer.mjs:2331).  *)
THEOREM SpecOneMintInFlight == BridgeMintSpec => []OneMintInFlight
<1>1. BridgeMintInit => RowNumbers /\ GuardInv
  <2>. SUFFICES ASSUME BridgeMintInit PROVE RowNumbers /\ GuardInv OBVIOUS
  <2>1. \A m \in Mints : mints[m].stage = "new" /\ mintOps[m] = "none" BY DEF BridgeMintInit
  <2>2. Entering = {} /\ Checking = {} /\ InFlight = {} BY <2>1 DEF Entering, Checking, InFlight
  <2>3. Named = {} BY DEF BridgeMintInit, Named, Submissions
  <2>4. Guarded
    BY <2>2, <2>3
    DEF Guarded, OneAttempt, LockedBy, RowShows, NamedByEntering, OneNamed, CheckersSee, LockNames
  <2>. QED BY <2>1, <2>4 DEF RowNumbers, Working, GuardInv
<1>2. MintedInv /\ MintedInv' /\ RowNumbers /\ GuardInv /\ [BridgeMintNext]_mintVars
      => RowNumbers' /\ GuardInv'
  <2>. SUFFICES ASSUME MintedInv, MintedInv', RowNumbers, GuardInv, [BridgeMintNext]_mintVars
       PROVE  RowNumbers' /\ GuardInv'
    OBVIOUS
  <2>1. CASE BridgeMintNext BY <2>1, RowsKept, GuardNext
  <2>2. CASE UNCHANGED mintVars
    <3>1. RowNumbers' BY <2>2 DEF mintVars, RowNumbers
    <3>2. Undisturbed' = Undisturbed BY <2>2 DEF mintVars, Undisturbed
    <3>3. Guarded => Guarded'
      <4>. SUFFICES ASSUME Guarded PROVE Guarded' OBVIOUS
      <4>. QED BY <2>2, CallsOnly DEF mintVars
    <3>. QED BY <3>1, <3>2, <3>3 DEF GuardInv
  <2>. QED BY <2>1, <2>2
<1>3. GuardInv => OneMintInFlight
  <2>. SUFFICES ASSUME Guarded, NEW a \in MayBeMinting, NEW b \in MayBeMinting PROVE a = b
    BY DEF GuardInv, Undisturbed, OneMintInFlight
  <2>1. MayBeMinting \subseteq Entering \cup InFlight BY DEF MayBeMinting, MintAt, Entering, InFlight
  <2>. QED BY <2>1 DEF Guarded, OneAttempt
<1>. QED BY <1>1, <1>2, <1>3, MintedInvHolds, PTL DEF BridgeMintSpec

(* The lock names calls and an approval there is, or none yet. *)
LockOK == lock \in [held : BOOLEAN, by : OpNames, op : OpNames, row : 0 .. Len(approvals)]

MintRest ==
  /\ iris \in Range(Listings)
  /\ mintOps \in [Mints -> {"none", "inflight", "landed", "reverted"}]
  /\ nonceUsed \in BOOLEAN /\ claimed \in BOOLEAN
  /\ recovered \cup released \subseteq Mints /\ mintFaults \in 0 .. MintFaults

LEMMA LockStays ==
  ASSUME LockOK, RowsOK, RowsOK', Len(approvals) <= Len(approvals'), lock' = lock \/ lock' = NoLock
  PROVE  LockOK'
<1>1. Len(approvals) \in Nat /\ Len(approvals') \in Nat BY DEF RowsOK
<1>2. 0 .. Len(approvals) \subseteq 0 .. Len(approvals') /\ 0 \in 0 .. Len(approvals') BY <1>1
<1>3. PICK rows, after : rows = 0 .. Len(approvals) /\ after = 0 .. Len(approvals') OBVIOUS
<1>4. NoLock \in [held : BOOLEAN, by : OpNames, op : OpNames, row : after]
  BY <1>2, <1>3 DEF NoLock, OpNames
<1>5. lock \in [held : BOOLEAN, by : OpNames, op : OpNames, row : rows] BY <1>3 DEF LockOK
<1>6. lock \in [held : BOOLEAN, by : OpNames, op : OpNames, row : after] BY <1>2, <1>3, <1>5
<1>. QED BY <1>3, <1>4, <1>6 DEF LockOK

LEMMA LockTaken ==
  ASSUME RowsOK, RowsOK', Len(approvals) <= Len(approvals'),
         NEW m \in Mints, NEW op \in OpNames, NEW n,
         n \in 0 .. Len(approvals) \/ n \in 0 .. Len(approvals'), lock' = Lock(m, op, n)
  PROVE  LockOK'
<1>1. Len(approvals) \in Nat /\ Len(approvals') \in Nat BY DEF RowsOK
<1>2. n \in 0 .. Len(approvals') BY <1>1
<1>. QED BY <1>2 DEF LockOK, Lock, OpNames

LEMMA LockStep ==
  ASSUME MintedInv, MintedInv', RowNumbers, LockOK, BridgeMintNext
  PROVE  LockOK'
<1>1. /\ RowsOK /\ RowsOK' /\ CallsOK /\ Len(approvals) \in Nat /\ Len(approvals') \in Nat
      /\ Len(approvals) <= Len(approvals') /\ NoMint \in OpNames
  BY RowsGrow DEF MintedInv, OpNames
<1>2. ASSUME lock' = lock \/ lock' = NoLock PROVE LockOK' BY <1>1, <1>2, LockStays
<1>3. ASSUME NEW m \in Mints, NEW op \in OpNames, NEW n \in 0 .. Len(approvals), lock' = Lock(m, op, n)
      PROVE  LockOK'
  BY <1>1, <1>3, LockTaken
<1>4. ASSUME NEW m \in Mints, mints[m].stage \in Working,
             NEW open, open \subseteq DOMAIN approvals, lock' = Lock(m, NoMint, RowOf(m, open))
      PROVE  LockOK'
  <2>1. RowOf(m, open) \in 0 .. Len(approvals) BY <1>1, <1>4, RowOfIsRow
  <2>. QED BY <1>1, <1>3, <1>4, <2>1
<1>5. OpenRows \subseteq DOMAIN approvals BY DEF OpenRows
<1>6. ASSUME NEW m \in Mints, mints[m].stage \in Working, PastLock(m) PROVE LockOK'
  <2>1. CASE TakeLock(m) BY <1>4, <1>5, <1>6, <2>1 DEF TakeLock
  <2>2. CASE Submissions # {} /\ lock' = Lock(m, NoMint, FirstIn(Submissions))
    <3>1. Submissions \subseteq DOMAIN approvals /\ Submissions \subseteq Nat
      BY <1>1, SubmissionsAreNumbers
    <3>2. FirstIn(Submissions) \in Submissions BY <2>2, <3>1, FirstIsIn
    <3>3. FirstIn(Submissions) \in 0 .. Len(approvals)
      <4>1. DOMAIN approvals = 1 .. Len(approvals) BY <1>1 DEF RowsOK
      <4>. QED BY <1>1, <3>1, <3>2, <4>1
    <3>. QED BY <1>1, <1>3, <2>2, <3>3
  <2>3. CASE lock' = NoLock BY <1>2, <2>3
  <2>. QED BY <1>6, <2>1, <2>2, <2>3 DEF PastLock
<1>7. ASSUME NEW m \in Mints, NonceUsed(m) \/ NonceUnread(m) \/ NonceFree(m) \/ LockChecked(m)
      PROVE  LockOK'
  <2>1. mints[m].stage \in Working
    BY <1>7 DEF NonceUsed, NonceUnread, NonceFree, LockChecked, MintAt, Working
  <2>2. PastLock(m) \/ lock' = lock \/ lock' = NoLock
    BY <1>7 DEF NonceUsed, NonceUnread, NonceFree, LockChecked, MintStays
  <2>. QED BY <1>2, <1>6, <2>1, <2>2
<1>8. ASSUME NEW m \in Mints, ApprovalChecked(m) PROVE LockOK'
  <2>1. mints[m].stage \in Working /\ mints[m].op \in OpNames
    BY <1>1, <1>8 DEF ApprovalChecked, MintAt, Working, CallsOK, CallOK
  <2>2. \/ lock' = Lock(m, mints[m].op, 0) \/ lock' = lock
        \/ lock' = Lock(m, NoMint, RowOf(m, OpenRows \ {mints[m].at}))
    BY <1>8 DEF ApprovalChecked, GoesOn
  <2>3. OpenRows \ {mints[m].at} \subseteq DOMAIN approvals BY <1>5
  <2>4. 0 \in 0 .. Len(approvals) BY <1>1
  <2>. QED BY <1>2, <1>3, <1>4, <2>1, <2>2, <2>3, <2>4
<1>9. ASSUME NEW m \in Mints, Announce(m) PROVE LockOK'
  <2> DEFINE n == IF mints[m].row = 0 THEN Len(approvals) + 1 ELSE mints[m].row
  <2>1. mints[m].stage \in Working BY <1>9 DEF Announce, MintAt, Working
  <2>2. lock' = Lock(m, NoMint, n) BY <1>9 DEF Announce
  <2>3. n \in 0 .. Len(approvals) \/ n \in 0 .. Len(approvals')
    <3>1. mints[m].row \in 0 .. Len(approvals) BY <2>1 DEF RowNumbers
    <3>2. CASE mints[m].row = 0
      <4>1. PICK r : approvals' = Append(approvals, r) BY <1>1, <1>9, <3>2 DEF Announce
      <4>2. approvals \in Seq(MintApproval \cup {r}) BY <1>1 DEF RowsOK
      <4>3. Len(approvals') = Len(approvals) + 1 BY <4>1, <4>2
      <4>. QED BY <1>1, <3>2, <4>3
    <3>. QED BY <1>1, <3>1, <3>2
  <2> HIDE DEF n
  <2>. QED BY <1>1, <2>2, <2>3, LockTaken
<1>10. ASSUME NEW m \in Mints, Submitted(m) PROVE LockOK'
  <2> DEFINE n == mints[m].row
             noted == IF lock.row # 0 THEN lock.row ELSE n
  <2>1. n \in 0 .. Len(approvals) BY <1>10 DEF Submitted, MintAt, Working, RowNumbers
  <2>2. noted \in 0 .. Len(approvals) BY <2>1 DEF LockOK
  <2>3. \/ lock' = NoLock \/ lock' = Lock(m, m, n) \/ lock' = Lock(m, NoMint, noted)
    BY <1>10 DEF Submitted, DropLock
  <2>4. m \in OpNames BY DEF OpNames
  <2> HIDE DEF n, noted
  <2>. QED BY <1>1, <1>2, <1>3, <2>1, <2>2, <2>3, <2>4
<1>11. ASSUME NEW m \in Mints,
              \/ AsksByExecution(m) \/ AsksByBurn(m) \/ Unproven(m) \/ StatusAnswered(m) \/ MintMined(m)
              \/ Answered(m) \/ NotReady(m) \/ \E n \in DOMAIN approvals : AsksByRequest(m, n)
       PROVE  LockOK'
  <2>1. lock' = lock \/ lock' = NoLock
    BY <1>11 DEF AsksByExecution, AsksByBurn, Unproven, StatusAnswered, MintMined, AsksByRequest,
                 Answered, NotReady, DropLock, MintStays
  <2>. QED BY <1>2, <2>1
<1>12. ASSUME IrisIndexes \/ Relayed \/ MintRestart \/ \E n \in DOMAIN approvals : CooldownPasses(n)
       PROVE  LockOK'
  <2>1. lock' = lock \/ lock' = NoLock
    BY <1>12 DEF IrisIndexes, Relayed, MintRestart, CooldownPasses, MintStays
  <2>. QED BY <1>2, <2>1
<1>. QED BY <1>7, <1>8, <1>9, <1>10, <1>11, <1>12 DEF BridgeMintNext

(* The history marks calls, and the faults are counted up to their bound.     *)
LEMMA MintRestStep ==
  ASSUME MintedInv, MintRest, BridgeMintNext
  PROVE  MintRest'
<1> DEFINE Counted == mintFaults' = mintFaults \/ MintFault
           Noted == /\ recovered' \cup released' \subseteq Mints
                    /\ claimed' \in BOOLEAN
           Used == nonceUsed' \in BOOLEAN /\ mintOps' \in [Mints -> {"none", "inflight", "landed", "reverted"}]
<1>1. ASSUME Counted PROVE mintFaults' \in 0 .. MintFaults
  BY <1>1, BridgeMintAssumption DEF BridgeMintAssumption, MintRest, MintFault
<1>2. ASSUME NEW m \in Mints, NEW slip, Marked(m, slip) PROVE released' \subseteq Mints
  BY <1>2 DEF Marked, MintRest
<1>3. ASSUME NEW m \in Mints, NEW op, Refuses(m) \/ Waits(m, op) \/ Claims(m, op)
      PROVE  claimed' \in BOOLEAN
  BY <1>3 DEF Refuses, Waits, Claims, MintRest
<1>4. ASSUME NEW m \in Mints, PastLock(m) PROVE recovered' \subseteq Mints /\ claimed' \in BOOLEAN
  <2>1. claimed' = claimed \/ Refuses(m) BY <1>4 DEF PastLock, TakeLock
  <2>2. recovered' = recovered \/ recovered' = recovered \cup {m} BY <1>4 DEF PastLock
  <2>. QED BY <1>3, <2>1, <2>2 DEF MintRest
<1>5. ASSUME Counted, Noted, Used, iris' \in Range(Listings) PROVE MintRest'
  BY <1>1, <1>5 DEF MintRest
<1>6. ASSUME NEW m \in Mints, NonceUsed(m) \/ NonceUnread(m) \/ NonceFree(m) \/ LockChecked(m)
      PROVE  MintRest'
  <2>1. UNCHANGED <<iris, mintOps, nonceUsed>> /\ Counted
    BY <1>6 DEF NonceUsed, NonceUnread, NonceFree, LockChecked, MintStays
  <2>2. released' \subseteq Mints
    <3>1. released' = released \/ released' = released \cup {m} \/ \E slip : Marked(m, slip)
      BY <1>6 DEF NonceUsed, NonceUnread, NonceFree, LockChecked
    <3>. QED BY <1>2, <3>1 DEF MintRest
  <2>3. recovered' \subseteq Mints /\ claimed' \in BOOLEAN
    <3>1. \/ PastLock(m)
          \/ recovered' = recovered /\ \E op : Refuses(m) \/ Waits(m, op) \/ Claims(m, op) \/ claimed' = claimed
      BY <1>6 DEF NonceUsed, NonceUnread, NonceFree, LockChecked
    <3>. QED BY <1>3, <1>4, <3>1 DEF MintRest
  <2>. QED BY <1>5, <2>1, <2>2, <2>3 DEF MintRest
<1>7. ASSUME NEW m \in Mints, ApprovalChecked(m) \/ NotReady(m) \/ Announce(m) \/ Answered(m)
      PROVE  MintRest'
  <2>1. UNCHANGED <<iris, mintOps, nonceUsed, recovered>> /\ Counted
    BY <1>7 DEF ApprovalChecked, NotReady, Announce, Answered
  <2>2. released' = released \/ \E slip : Marked(m, slip)
    BY <1>7 DEF ApprovalChecked, NotReady, Announce, Answered, DropLock
  <2>3. claimed' = claimed \/ \E op : Refuses(m) \/ Waits(m, op) \/ Claims(m, op)
    BY <1>7 DEF ApprovalChecked, NotReady, Announce, Answered, GoesOn
  <2>. QED BY <1>2, <1>3, <1>5, <2>1, <2>2, <2>3 DEF MintRest
<1>8. ASSUME NEW m \in Mints, Submitted(m) PROVE MintRest'
  <2>1. UNCHANGED <<iris, recovered>> /\ Counted BY <1>8 DEF Submitted
  <2>2. released' = released \/ \E slip : Marked(m, slip) BY <1>8 DEF Submitted, DropLock
  <2>3. \E op : Refuses(m) \/ Waits(m, op) \/ Claims(m, op) BY <1>8 DEF Submitted
  <2>4. Used BY <1>8 DEF Submitted, MintRest
  <2>. QED BY <1>2, <1>3, <1>5, <2>1, <2>2, <2>3, <2>4 DEF MintRest
<1>9. ASSUME NEW m \in Mints,
             \/ AsksByExecution(m) \/ AsksByBurn(m) \/ Unproven(m) \/ StatusAnswered(m)
             \/ \E n \in DOMAIN approvals : AsksByRequest(m, n)
      PROVE  MintRest'
  <2>1. UNCHANGED <<iris, mintOps, nonceUsed, recovered, released>> /\ Counted
        /\ (claimed' = claimed \/ claimed' = TRUE)
    BY <1>9 DEF AsksByExecution, AsksByBurn, Unproven, StatusAnswered, AsksByRequest, AskedOnly, MintStays
  <2>. QED BY <1>5, <2>1 DEF MintRest
<1>10. ASSUME NEW m \in Mints, MintMined(m) PROVE MintRest'
  <2>1. UNCHANGED <<iris, recovered, released, claimed, mintFaults>> BY <1>10 DEF MintMined, MintStays
  <2>2. Used BY <1>10 DEF MintMined, MintRest
  <2>. QED BY <1>5, <2>1, <2>2 DEF MintRest
<1>11. CASE IrisIndexes
  BY <1>5, <1>11 DEF IrisIndexes, MintRest, Range
<1>12. CASE Relayed \/ \E n \in DOMAIN approvals : CooldownPasses(n)
  <2>1. UNCHANGED <<iris, mintOps, recovered, released, claimed>> /\ Counted
        /\ (nonceUsed' = nonceUsed \/ nonceUsed' = TRUE)
    BY <1>12 DEF Relayed, CooldownPasses, MintStays
  <2>. QED BY <1>5, <2>1 DEF MintRest
<1>13. CASE MintRestart
  <2>1. UNCHANGED <<iris, nonceUsed, recovered, claimed>> /\ Counted BY <1>13 DEF MintRestart
  <2>2. PICK lost \in SUBSET {m \in Mints : MintAt(m, "submitting")} :
          /\ mintOps' = [m \in Mints |-> IF m \in lost THEN "inflight" ELSE mintOps[m]]
          /\ released' = released \cup
               {m \in lost : mints[m].row \notin Submissions \/ approvals[mints[m].row].op # NoMint}
    BY <1>13 DEF MintRestart
  <2>3. Used /\ released' \subseteq Mints BY <2>1, <2>2 DEF MintRest
  <2>. QED BY <1>5, <2>1, <2>3 DEF MintRest
<1>. QED BY <1>6, <1>7, <1>8, <1>9, <1>10, <1>11, <1>12, <1>13 DEF BridgeMintNext

(* BridgeMintTypeOK for any number of calls and faults: the lock of the nonce *)
(* names calls, and an approval that exists (destinationMintLocks).          *)
THEOREM MintTypesHold == BridgeMintSpec => []BridgeMintTypeOK
<1>1. BridgeMintInit => RowNumbers /\ LockOK /\ MintRest
  <2>. SUFFICES ASSUME BridgeMintInit PROVE RowNumbers /\ LockOK /\ MintRest OBVIOUS
  <2>1. RowNumbers BY DEF BridgeMintInit, RowNumbers, Working
  <2>2. LockOK BY DEF BridgeMintInit, LockOK, NoLock, OpNames
  <2>3. iris = Listings[1] /\ 1 \in DOMAIN Listings BY DEF BridgeMintInit, Listings
  <2>4. MintRest
    <3>1. iris \in Range(Listings) BY <2>3 DEF Range
    <3>2. mintOps \in [Mints -> {"none", "inflight", "landed", "reverted"}] BY DEF BridgeMintInit
    <3>3. nonceUsed = FALSE /\ claimed = FALSE /\ recovered = {} /\ released = {} /\ mintFaults = 0
      BY DEF BridgeMintInit
    <3>4. 0 \in 0 .. MintFaults BY BridgeMintAssumption DEF BridgeMintAssumption
    <3>. QED BY <3>1, <3>2, <3>3, <3>4 DEF MintRest
  <2>. QED BY <2>1, <2>2, <2>4
<1>2. MintedInv /\ MintedInv' /\ RowNumbers /\ LockOK /\ MintRest /\ [BridgeMintNext]_mintVars
      => RowNumbers' /\ LockOK' /\ MintRest'
  <2>. SUFFICES ASSUME MintedInv, MintedInv', RowNumbers, LockOK, MintRest, [BridgeMintNext]_mintVars
       PROVE  RowNumbers' /\ LockOK' /\ MintRest'
    OBVIOUS
  <2>1. CASE BridgeMintNext BY <2>1, RowsKept, LockStep, MintRestStep
  <2>2. CASE UNCHANGED mintVars BY <2>2 DEF mintVars, RowNumbers, LockOK, MintRest
  <2>. QED BY <2>1, <2>2
<1>3. MintedInv /\ LockOK /\ MintRest => BridgeMintTypeOK
  <2>. SUFFICES ASSUME MintedInv, LockOK, MintRest PROVE BridgeMintTypeOK OBVIOUS
  <2>1. Range(approvals) \subseteq MintApproval BY DEF MintedInv, RowsOK, Range
  <2>. QED BY <2>1 DEF LockOK, MintRest, OpNames, BridgeMintTypeOK
<1>. QED BY <1>1, <1>2, <1>3, MintedInvHolds, PTL DEF BridgeMintSpec

--------------------------------------------------------------------------------
(* The source half. *)

Reading == {"polling", "watching"}
CallRecord ==
  [stage : {"new", "done"}] \cup [stage : {"checking"}, preview : Previews]
  \cup [stage : {"approving", "burning", "done"}, intent : Executions]
  \cup [stage : Reading, intent : Executions, seen : Intent]

SourceTypes ==
  /\ quotes \in [Previews -> {"none", "asked", "live", "gone"}]
  /\ intents \in Seq(Intent)
  /\ executions \in [Executions \cup Pollers -> CallRecord]
  /\ approveOps \in [Executions -> OpStates] /\ burnOps \in [Executions -> OpStates]
  /\ minted \cup superseded \cup crossed \cup resumed \cup reused \subseteq Executions
  /\ bridgeFaults \in 0 .. BridgeFaults

IntentIds == {intents[n].id : n \in DOMAIN intents}

(* Intents have ids of their own, and of the intents of one preview all but  *)
(* the first were begun on a quote used before.                              *)
IntentOrder ==
  \A n, m \in DOMAIN intents : n # m =>
    /\ intents[n].id # intents[m].id
    /\ n < m /\ intents[n].preview = intents[m].preview => intents[m].id \in reused

(* A record of an intent, whoever wrote it. *)
Genuine(i) ==
  /\ i.status = "pending_confirmation" => i.phase \in PendingPhases
  /\ i.approve \in {NoOperation, i.id}
  /\ i.burn # NoOperation => i.approve = i.id

(* An intent belongs to the call of its name. *)
OwnIntent(x) ==
  /\ executions[x].stage \in {"approving", "burning", "done"} /\ x \notin resumed
  /\ Genuine(Current(x))
  /\ executions[x].stage = "approving" => Current(x).approve = NoOperation

(* What a call holds. *)
CallHolds(c) ==
  /\ ExecAt(c, "approving") => executions[c].intent = c /\ c \in IntentIds
  /\ executions[c].stage \in Reading \cup {"burning"} =>
       /\ executions[c].intent \in IntentIds
       /\ ~ExecAt(executions[c].intent, "approving")
  /\ ExecAt(c, "burning") => Current(executions[c].intent).approve = executions[c].intent
  /\ executions[c].stage \in Reading =>
       LET i == executions[c].seen IN
         /\ i.id = executions[c].intent /\ i.preview = Current(i.id).preview
         /\ i.status = "pending_confirmation" /\ i.phase \in PendingPhases /\ i.approve = i.id
         /\ ExecAt(c, "watching") /\ i.burn = NoOperation => i.phase \in ApprovalPhases

(* What a call that burns, or has burned, is known to have done.             *)
Burner(c) ==
  /\ c \in resumed => executions[c] \in [stage : {"burning", "done"}, intent : Executions]
  /\ burnOps[c] # "none" => executions[c] \in [stage : {"done"}, intent : Executions]
  /\ (ExecAt(c, "burning") \/ burnOps[c] # "none") /\ c \notin resumed =>
       executions[c].intent = c /\ c \in IntentIds /\ approveOps[c] = "landed"

(* The record of a burn that may land and has not been minted.              *)
Holds(i, c) ==
  /\ i.status # "success"
  /\ \/ /\ i.burn = c
        /\ \/ i.burnTx
           \/ ~i.safe /\ (i.phase = "source_submission_failed"
                          \/ i.status = "pending_confirmation")
     \/ i.burn = NoOperation /\ i.phase = "source_submission_unknown"

BurnHolds(c) ==
  (/\ burnOps[c] \in {"inflight", "landed"} /\ c \notin minted \cup resumed
   /\ c \notin crossed \cup Resumed) => Holds(Current(c), c)

SourceInv ==
  /\ SourceTypes /\ IntentOrder
  /\ \A x \in IntentIds : OwnIntent(x)
  /\ \A c \in Executions \cup Pollers : CallHolds(c)
  /\ \A c \in Executions : Burner(c) /\ BurnHolds(c)

--------------------------------------------------------------------------------
(* Records and positions. *)

LEMMA PhasesKnown ==
  /\ ApprovalPhases \subseteq PendingPhases /\ PendingPhases \cap FailedPhases = {}
  /\ {"source_intent_created", "source_approval_submitted", "source_approval_confirmed",
      "source_approval_unknown", "source_submission_unknown", "source_submitted",
      "source_confirmed"} \subseteq PendingPhases
  /\ {"source_approval_failed", "source_submission_failed", "source_approval_superseded"}
       \subseteq FailedPhases
  /\ {"source_submission_unknown", "source_submission_failed"} \cap ApprovalPhases = {}
  BY DEF PendingPhases, FailedPhases, ApprovalPhases

(* The first of some positions is one of them. *)
LEMMA OldestIsIn ==
  ASSUME NEW S, S \subseteq Nat, S # {}
  PROVE  FirstOf(S) \in S
  BY FirstIsIn DEF FirstOf, FirstIn

(* An id names one position. *)
LEMMA IntentAt ==
  ASSUME SourceTypes, IntentOrder, NEW n \in DOMAIN intents
  PROVE  /\ intents[n] \in Intent /\ intents[n].id \in IntentIds
         /\ IndexOf(intents[n].id) = n /\ Current(intents[n].id) = intents[n]
<1>1. intents[n] \in Intent BY DEF SourceTypes
<1>2. IndexOf(intents[n].id) = n BY DEF IndexOf, IntentOrder
<1>. QED BY <1>1, <1>2 DEF Current, IntentIds

LEMMA IntentNamed ==
  ASSUME SourceTypes, IntentOrder, NEW x \in IntentIds
  PROVE  /\ IndexOf(x) \in DOMAIN intents /\ Current(x) = intents[IndexOf(x)]
         /\ Current(x) \in Intent /\ Current(x).id = x /\ x \in Executions
<1>1. PICK n \in DOMAIN intents : intents[n].id = x BY DEF IntentIds
<1>. QED BY <1>1, IntentAt DEF Intent

(* What a write leaves of the other records, and of its own. *)
IntentsKept ==
  /\ intents' \in Seq(Intent) /\ IntentIds' = IntentIds /\ IntentOrder'
  /\ \A x \in IntentIds : Current(x)'.preview = Current(x).preview /\ Current(x)' \in Intent

LEMMA IntentWritten ==
  ASSUME SourceTypes, IntentOrder, reused \subseteq reused',
         NEW rec \in Intent, rec.id \in IntentIds, rec.preview = Current(rec.id).preview,
         WriteIntent(rec)
  PROVE  /\ IntentsKept /\ Current(rec.id)' = rec
         /\ \A x \in IntentIds \ {rec.id} : Current(x)' = Current(x)
<1> DEFINE k == IndexOf(rec.id)
<1>1. /\ k \in DOMAIN intents /\ intents[k].id = rec.id /\ intents[k].preview = rec.preview
      /\ intents \in Seq(Intent)
  BY IntentNamed DEF SourceTypes
<1>2. intents' = [intents EXCEPT ![k] = rec] BY DEF WriteIntent
<1> HIDE DEF k
<1>3. /\ intents' \in Seq(Intent) /\ DOMAIN intents' = DOMAIN intents
      /\ \A n \in DOMAIN intents : intents'[n] = IF n = k THEN rec ELSE intents[n]
  BY <1>1, <1>2
<1>4. \A n \in DOMAIN intents : /\ intents'[n].id = intents[n].id
                                /\ intents'[n].preview = intents[n].preview
  BY <1>1, <1>3
<1>5. IntentIds' = IntentIds BY <1>3, <1>4 DEF IntentIds
<1>6. IntentOrder' BY <1>3, <1>4 DEF IntentOrder
<1>7. ASSUME NEW x \in IntentIds
      PROVE  /\ IndexOf(x)' = IndexOf(x) /\ Current(x)' = intents'[IndexOf(x)]
             /\ IndexOf(x) \in DOMAIN intents
  <2>1. IndexOf(x) \in DOMAIN intents /\ intents[IndexOf(x)].id = x BY IntentNamed
  <2>2. \A n \in DOMAIN intents' : intents'[n].id = x => n = IndexOf(x)
    BY <1>3, <1>4, <2>1 DEF IntentOrder
  <2>3. intents'[IndexOf(x)].id = x BY <1>4, <2>1
  <2>4. IndexOf(x)' = IndexOf(x)
    <3> DEFINE y == IndexOf(x)
    <3>1. y \in DOMAIN intents' BY <1>3, <2>1
    <3> HIDE DEF y
    <3>2. (CHOOSE n \in DOMAIN intents' : intents'[n].id = x) = y
      BY <2>2, <2>3, <3>1 DEF y
    <3>. QED BY <3>2 DEF IndexOf, y
  <2>. QED BY <2>1, <2>4 DEF Current
<1>8. Current(rec.id)' = rec BY <1>1, <1>3, <1>7 DEF k
<1>9. \A x \in IntentIds \ {rec.id} : Current(x)' = Current(x)
  <2>1. SUFFICES ASSUME NEW x \in IntentIds, x # rec.id PROVE Current(x)' = Current(x)
    OBVIOUS
  <2>2. IndexOf(x) # k BY <1>1, <2>1, IntentNamed
  <2>. QED BY <1>3, <1>7, <2>2, IntentNamed
<1>10. \A x \in IntentIds : Current(x)'.preview = Current(x).preview /\ Current(x)' \in Intent
  BY <1>8, <1>9, IntentNamed
<1>. QED BY <1>3, <1>5, <1>6, <1>8, <1>9, <1>10 DEF IntentsKept

LEMMA IntentsUntouched ==
  ASSUME SourceTypes, IntentOrder, reused \subseteq reused', UNCHANGED intents
  PROVE  IntentsKept /\ \A x \in IntentIds : Current(x)' = Current(x)
<1>1. IntentIds' = IntentIds /\ IntentOrder' BY DEF IntentIds, IntentOrder
<1>2. \A x : Current(x)' = Current(x) BY DEF Current, IndexOf
<1>3. \A x \in IntentIds : Current(x) \in Intent BY IntentNamed
<1>. QED BY <1>1, <1>2, <1>3 DEF IntentsKept, SourceTypes

(* A new intent of a name that has none. *)
LEMMA IntentAdded ==
  ASSUME SourceTypes, IntentOrder, NEW rec \in Intent, rec.id \notin IntentIds,
         reused \subseteq reused', intents' = Append(intents, rec),
         (\E n \in DOMAIN intents : intents[n].preview = rec.preview) => rec.id \in reused'
  PROVE  /\ intents' \in Seq(Intent) /\ IntentIds' = IntentIds \cup {rec.id} /\ IntentOrder'
         /\ Current(rec.id)' = rec /\ \A x \in IntentIds : Current(x)' = Current(x)
<1> DEFINE l == Len(intents) + 1
<1>1. /\ intents \in Seq(Intent) /\ Len(intents) \in Nat /\ DOMAIN intents = 1 .. Len(intents)
  BY DEF SourceTypes
<1>2. /\ intents' \in Seq(Intent) /\ DOMAIN intents' = DOMAIN intents \cup {l}
      /\ l \notin DOMAIN intents /\ intents'[l] = rec
      /\ \A n \in DOMAIN intents : intents'[n] = intents[n] /\ n < l
      /\ l \in Nat /\ DOMAIN intents \subseteq Nat
  BY <1>1
<1> HIDE DEF l
<1>3. IntentIds' = IntentIds \cup {rec.id} BY <1>2 DEF IntentIds
<1>4. \A n \in DOMAIN intents : intents[n].id # rec.id BY DEF IntentIds
<1>5. IntentOrder'
  <2>1. SUFFICES ASSUME NEW n \in DOMAIN intents', NEW m \in DOMAIN intents', n # m
                 PROVE  /\ intents'[n].id # intents'[m].id
                        /\ n < m /\ intents'[n].preview = intents'[m].preview
                             => intents'[m].id \in reused'
    BY DEF IntentOrder
  <2>2. CASE n \in DOMAIN intents /\ m \in DOMAIN intents
    BY <1>2, <2>1, <2>2 DEF IntentOrder
  <2>3. CASE m = l
    BY <1>2, <1>4, <2>1, <2>3
  <2>4. CASE n = l
    <3>1. m \in DOMAIN intents BY <1>2, <2>1, <2>4
    <3>2. ~(n < m) BY <1>2, <2>4, <3>1
    <3>. QED BY <1>2, <1>4, <2>4, <3>1, <3>2
  <2>. QED BY <1>2, <2>1, <2>2, <2>3, <2>4
<1>6. ASSUME NEW y, NEW n \in DOMAIN intents', intents'[n].id = y
      PROVE  IndexOf(y)' = n /\ Current(y)' = intents'[n]
  <2>1. \A m \in DOMAIN intents' : intents'[m].id = y => m = n BY <1>5, <1>6 DEF IntentOrder
  <2>2. (CHOOSE m \in DOMAIN intents' : intents'[m].id = y) = n BY <1>6, <2>1
  <2>3. IndexOf(y)' = n BY <2>2 DEF IndexOf
  <2>. QED BY <2>3 DEF Current
<1>7. Current(rec.id)' = rec BY <1>2, <1>6
<1>8. ASSUME NEW x \in IntentIds PROVE Current(x)' = Current(x)
  <2>1. PICK n \in DOMAIN intents : intents[n].id = x BY DEF IntentIds
  <2>2. Current(x) = intents[n] BY <2>1, IntentAt
  <2>3. Current(x)' = intents'[n] BY <1>2, <1>6, <2>1
  <2>. QED BY <1>2, <2>1, <2>2, <2>3
<1>. QED BY <1>2, <1>3, <1>5, <1>7, <1>8

--------------------------------------------------------------------------------
(* What steps leave alone. *)

Calls == Executions \cup Pollers

LEMMA CallRecordsBuilt ==
  /\ \A s \in {"new", "done"} : [stage |-> s] \in CallRecord
  /\ \A p \in Previews : [stage |-> "checking", preview |-> p] \in CallRecord
  /\ \A s \in {"approving", "burning", "done"}, x \in Executions :
       [stage |-> s, intent |-> x] \in CallRecord
  /\ \A s \in Reading, x \in Executions, i \in Intent :
       [stage |-> s, intent |-> x, seen |-> i] \in CallRecord
  BY DEF CallRecord

LEMMA CallFields ==
  ASSUME SourceTypes, NEW c \in Calls
  PROVE  /\ executions[c] \in CallRecord
         /\ ExecAt(c, "checking") => executions[c].preview \in Previews
         /\ executions[c].stage \in {"approving", "burning"} =>
              executions[c] \in [stage : {"approving", "burning", "done"}, intent : Executions]
         /\ executions[c].stage \in Reading =>
              executions[c].intent \in Executions /\ executions[c].seen \in Intent
<1>1. executions[c] \in CallRecord BY DEF SourceTypes, Calls
<1>. QED BY <1>1 DEF CallRecord, ExecAt, Reading

LEMMA CallMoved ==
  ASSUME SourceTypes, NEW e \in Calls, NEW v \in CallRecord, ExecGoes(e, v)
  PROVE  /\ executions' \in [Executions \cup Pollers -> CallRecord]
         /\ executions'[e] = v /\ \A c \in Calls \ {e} : executions'[c] = executions[c]
  BY DEF SourceTypes, ExecGoes, Calls

(* A call that keeps its place keeps what it holds. *)
LEMMA CallHoldsStays ==
  ASSUME SourceInv, NEW c \in Calls, executions'[c] = executions[c],
         \A x \in IntentIds :
           /\ x \in IntentIds' /\ Current(x)'.preview = Current(x).preview
           /\ Current(x).approve = x => Current(x)'.approve = x
           /\ executions'[x].stage = "approving" => executions[x].stage = "approving"
  PROVE  CallHolds(c)'
<1>1. CallHolds(c) BY DEF SourceInv, Calls
<1>2. ASSUME ExecAt(c, "approving") PROVE executions'[c].intent = c /\ c \in IntentIds'
  BY <1>1, <1>2 DEF CallHolds, ExecAt
<1>3. ASSUME executions[c].stage \in Reading \cup {"burning"}
      PROVE  /\ executions[c].intent \in IntentIds /\ executions[c].intent \in IntentIds'
             /\ ~(executions'[executions[c].intent].stage = "approving")
  BY <1>1, <1>3 DEF CallHolds, ExecAt
<1>4. ASSUME ExecAt(c, "burning")
      PROVE  Current(executions[c].intent)'.approve = executions[c].intent
  BY <1>1, <1>3, <1>4 DEF CallHolds, ExecAt
<1>5. ASSUME executions[c].stage \in Reading
      PROVE  /\ executions[c].seen.id = executions[c].intent
             /\ executions[c].seen.preview = Current(executions[c].seen.id)'.preview
             /\ executions[c].seen.status = "pending_confirmation"
             /\ executions[c].seen.phase \in PendingPhases
             /\ executions[c].seen.approve = executions[c].seen.id
             /\ ExecAt(c, "watching") /\ executions[c].seen.burn = NoOperation =>
                  executions[c].seen.phase \in ApprovalPhases
  BY <1>1, <1>3, <1>5 DEF CallHolds
<1>6. \A x, y : x = y => Current(x)' = Current(y)' OBVIOUS
<1>. QED BY <1>2, <1>3, <1>4, <1>5, <1>6 DEF CallHolds, ExecAt

LEMMA BurnerStays ==
  ASSUME SourceInv, NEW c \in Executions, executions'[c] = executions[c],
         burnOps'[c] # "none" => burnOps[c] # "none",
         approveOps[c] = "landed" => approveOps'[c] = "landed",
         c \in resumed' <=> c \in resumed, IntentIds \subseteq IntentIds'
  PROVE  Burner(c)'
<1>1. Burner(c) BY DEF SourceInv
<1>. QED BY <1>1 DEF Burner, ExecAt

LEMMA BurnHoldsStays ==
  ASSUME SourceInv, NEW c \in Executions,
         burnOps'[c] \in {"inflight", "landed"} => burnOps[c] \in {"inflight", "landed"},
         minted \subseteq minted', resumed \subseteq resumed', crossed \subseteq crossed',
         \A e \in resumed : executions'[e].intent = executions[e].intent,
         (/\ burnOps'[c] \in {"inflight", "landed"} /\ burnOps[c] \in {"inflight", "landed"}
          /\ c \in IntentIds /\ c \notin resumed /\ executions[c].intent = c
          /\ approveOps[c] = "landed"
          /\ Holds(Current(c), c) /\ c \notin minted' \cup resumed' \cup crossed' \cup Resumed')
           => Holds(Current(c), c)'
  PROVE  BurnHolds(c)'
<1>1. BurnHolds(c) /\ Burner(c) BY DEF SourceInv
<1>2. Resumed \subseteq Resumed' BY DEF Resumed, BurnedIntent
<1>. QED BY <1>1, <1>2 DEF BurnHolds, Burner

(* A step in which some calls move and some records are written keeps the     *)
(* invariant if those calls and those records are in order.                   *)
LEMMA SourceKept ==
  ASSUME SourceInv, SourceTypes', IntentsKept,
         \A c \in Calls :
           \/ executions'[c] = executions[c]
              /\ (c \in Executions => /\ burnOps'[c] # "none" => burnOps[c] # "none"
                                      /\ approveOps[c] = "landed" => approveOps'[c] = "landed"
                                      /\ c \in resumed' <=> c \in resumed)
           \/ /\ CallHolds(c)' /\ (c \in Executions => Burner(c)')
              /\ executions'[c].stage # "approving"
              /\ c \in IntentIds => executions'[c].stage \in {"burning", "done"} /\ c \notin resumed',
         \A x \in IntentIds :
           \/ Current(x)' = Current(x)
           \/ /\ Genuine(Current(x))'
              /\ Current(x).approve = x => Current(x)'.approve = x
              /\ executions'[x].stage = "approving" => Current(x)'.approve = NoOperation,
         \A c \in Executions : BurnHolds(c)'
  PROVE  SourceInv'
<1>1. \A x \in IntentIds : /\ x \in Executions /\ x \in Calls
                           /\ OwnIntent(x) /\ x \in IntentIds'
                           /\ Current(x)'.preview = Current(x).preview
                           /\ Current(x).approve = x => Current(x)'.approve = x
                           /\ executions'[x].stage = "approving" => executions[x].stage = "approving"
  BY IntentNamed DEF SourceInv, IntentsKept, Calls
<1>2. ASSUME NEW c \in Calls PROVE CallHolds(c)' /\ (c \in Executions => Burner(c)')
  <2>1. CASE executions'[c] = executions[c]
              /\ (c \in Executions => /\ burnOps'[c] # "none" => burnOps[c] # "none"
                                      /\ approveOps[c] = "landed" => approveOps'[c] = "landed"
                                      /\ c \in resumed' <=> c \in resumed)
    BY <1>1, <2>1, CallHoldsStays, BurnerStays
  <2>. QED BY <2>1
<1>3. ASSUME NEW x \in IntentIds PROVE OwnIntent(x)'
  <2>1. /\ executions'[x].stage \in {"approving", "burning", "done"} /\ x \notin resumed'
    BY <1>1 DEF OwnIntent
  <2>2. Genuine(Current(x))' /\ (executions'[x].stage = "approving" => Current(x)'.approve = NoOperation)
    <3>1. CASE Current(x)' = Current(x) BY <1>1, <3>1 DEF OwnIntent, Genuine
    <3>. QED BY <3>1
  <2>. QED BY <2>1, <2>2 DEF OwnIntent
<1>. QED BY <1>2, <1>3 DEF SourceInv, IntentsKept, Calls

--------------------------------------------------------------------------------
(* The actions. *)

(* What has an id has a record. *)
LEMMA RecordOf ==
  ASSUME SourceInv, NEW x \in IntentIds
  PROVE  /\ Current(x) \in Intent /\ Current(x).id = x /\ x \in Executions /\ x \in Calls
         /\ OwnIntent(x) /\ Genuine(Current(x))
  BY IntentNamed DEF SourceInv, OwnIntent, Calls

(* Who looks holds no intent of its own and has not burned. *)
LEMMA LookersHold ==
  ASSUME SourceInv, NEW e \in Calls, executions[e].stage \in {"new", "checking"} \cup Reading
  PROVE  e \notin IntentIds /\ e \notin resumed /\ (e \in Executions => burnOps[e] = "none")
<1>1. e \notin IntentIds BY DEF SourceInv, OwnIntent, Reading
<1>2. e \in Executions => e \notin resumed /\ burnOps[e] = "none"
  BY DEF SourceInv, Burner, Reading
<1>3. resumed \subseteq Executions BY DEF SourceInv, SourceTypes
<1>. QED BY <1>1, <1>2, <1>3

(* A call looks on. *)
LEMMA CallSteps ==
  ASSUME SourceInv, NEW e \in Calls, executions[e].stage \in {"new", "checking"} \cup Reading,
         NEW v \in CallRecord, ExecGoes(e, v), v.stage \notin {"approving", "burning"},
         UNCHANGED <<quotes, intents, approveOps, burnOps, minted, superseded, crossed, resumed,
                     reused, bridgeFaults>>,
         CallHolds(e)'
  PROVE  SourceInv'
<1>1. IntentsKept /\ \A x \in IntentIds : Current(x)' = Current(x)
  BY IntentsUntouched DEF SourceInv
<1>2. /\ executions' \in [Executions \cup Pollers -> CallRecord]
      /\ executions'[e] = v /\ \A c \in Calls \ {e} : executions'[c] = executions[c]
  BY CallMoved DEF SourceInv
<1>3. SourceTypes' BY <1>2 DEF SourceInv, SourceTypes
<1>4. e \notin IntentIds /\ e \notin resumed /\ (e \in Executions => burnOps[e] = "none")
  BY LookersHold
<1>5. e \in Executions => Burner(e)' BY <1>2, <1>4 DEF Burner, ExecAt
<1>6. ASSUME NEW c \in Executions PROVE BurnHolds(c)'
  <2>1. c \in IntentIds => Current(c)' = Current(c) BY <1>1
  <2>2. Holds(Current(c), c) /\ c \in IntentIds => Holds(Current(c), c)' BY <2>1 DEF Holds
  <2>3. \A x \in resumed : executions'[x].intent = executions[x].intent
    BY <1>2, <1>4 DEF SourceInv, SourceTypes, Calls
  <2>. QED BY <2>2, <2>3, BurnHoldsStays
<1>. QED BY <1>1, <1>2, <1>3, <1>4, <1>5, <1>6, SourceKept

(* A call writes back what it read, with its changes, and ends or burns. *)
LEMMA CallWrites ==
  ASSUME SourceInv, NEW e \in Calls, executions[e].stage \in Reading,
         NEW v \in CallRecord, ExecGoes(e, v), NEW rec \in Intent,
         rec.id = executions[e].intent, rec.preview = executions[e].seen.preview,
         rec.approve = rec.id, Genuine(rec), WriteBackIntent(executions[e].seen, rec),
         \/ v.stage = "done" /\ resumed' = resumed
         \/ v.stage = "burning" /\ v.intent = rec.id /\ e \in Executions /\ resumed' = resumed \cup {e},
         quotes' \in [Previews -> {"none", "asked", "live", "gone"}],
         UNCHANGED <<approveOps, burnOps, minted, superseded, reused, bridgeFaults>>,
         (/\ burnOps[rec.id] \in {"inflight", "landed"} /\ rec.id \notin minted
          /\ approveOps[rec.id] = "landed" /\ Holds(executions[e].seen, rec.id)
          /\ v.stage = "done") => Holds(rec, rec.id)
  PROVE  SourceInv'
<1>1. /\ rec.id \in IntentIds /\ executions[rec.id].stage # "approving"
      /\ executions[e].seen.id = rec.id /\ rec.preview = Current(rec.id).preview
  <2>1. CallHolds(e) BY DEF SourceInv, Calls
  <2>. QED BY <2>1 DEF CallHolds, ExecAt
<1>2. /\ WriteIntent(rec) /\ crossed \subseteq crossed' /\ crossed' \subseteq crossed \cup {rec.id}
      /\ Current(rec.id) # executions[e].seen => rec.id \in crossed'
  BY <1>1 DEF WriteBackIntent
<1>3. /\ IntentsKept /\ Current(rec.id)' = rec
      /\ \A x \in IntentIds \ {rec.id} : Current(x)' = Current(x)
  <2>1. SourceTypes /\ IntentOrder /\ reused \subseteq reused' BY DEF SourceInv
  <2>. QED BY <1>1, <1>2, <2>1, IntentWritten
<1>4. /\ executions' \in [Executions \cup Pollers -> CallRecord]
      /\ executions'[e] = v /\ \A c \in Calls \ {e} : executions'[c] = executions[c]
  BY CallMoved DEF SourceInv
<1>5. rec.id \in Executions /\ rec.id \in Calls BY <1>1, RecordOf
<1>6. SourceTypes' /\ resumed \subseteq resumed'
  <2>1. SourceTypes BY DEF SourceInv
  <2>2. minted' \cup superseded' \cup crossed' \cup resumed' \cup reused' \subseteq Executions
    BY <1>2, <1>5, <2>1 DEF SourceTypes
  <2>3. resumed \subseteq resumed' OBVIOUS
  <2>. QED BY <1>3, <1>4, <2>1, <2>2, <2>3 DEF SourceTypes, IntentsKept
<1>7. e \notin IntentIds /\ e \notin resumed /\ (e \in Executions => burnOps[e] = "none")
  BY LookersHold
<1>8. e # rec.id /\ executions'[rec.id] = executions[rec.id] BY <1>1, <1>4, <1>5, <1>7
<1>9. CallHolds(e)'
  <2>1. CASE v.stage = "done" BY <1>4, <2>1 DEF CallHolds, ExecAt, Reading
  <2>2. CASE v.stage = "burning" /\ v.intent = rec.id
    <3>1. rec.id \in IntentIds' /\ Current(rec.id)'.approve = rec.id
      BY <1>1, <1>3 DEF IntentsKept
    <3>2. executions'[e].intent = rec.id /\ executions'[e].stage = "burning" BY <1>4, <2>2
    <3>3. Current(executions[e].intent)'.approve = executions'[e].intent
      BY <3>1, <3>2
    <3>. QED BY <1>1, <1>8, <3>1, <3>2, <3>3 DEF CallHolds, ExecAt, Reading
  <2>. QED BY <2>1, <2>2
<1>10. e \in Executions => Burner(e)'
  <2>1. v.stage = "burning" => v \in [stage : {"burning", "done"}, intent : Executions]
    BY DEF CallRecord, Reading
  <2>. QED BY <1>4, <1>7, <2>1 DEF Burner, ExecAt
<1>11. ASSUME NEW c \in Executions PROVE BurnHolds(c)'
  <2>1. \A x \in resumed : executions'[x].intent = executions[x].intent
    BY <1>4, <1>7 DEF SourceInv, SourceTypes, Calls
  <2>2. ASSUME c \in IntentIds, burnOps[c] \in {"inflight", "landed"}, approveOps[c] = "landed",
               Holds(Current(c), c), c \notin minted' \cup crossed' \cup Resumed'
        PROVE  Holds(Current(c), c)'
    <3>1. CASE c # rec.id
      <4>1. Current(c)' = Current(c) BY <1>3, <2>2, <3>1
      <4>. QED BY <2>2, <4>1 DEF Holds
    <3>2. CASE c = rec.id
      <4>1. Current(c) = executions[e].seen BY <1>2, <2>2, <3>2
      <4>2. v.stage # "burning"
        <5>1. SUFFICES ASSUME v.stage = "burning" PROVE FALSE OBVIOUS
        <5>2. e \in resumed' /\ executions'[e].intent = rec.id BY <1>4, <5>1
        <5>3. rec.id \in Resumed' BY <5>2 DEF Resumed, BurnedIntent
        <5>. QED BY <2>2, <3>2, <5>3
      <4>3. Holds(rec, c) BY <2>2, <3>2, <4>1, <4>2
      <4>4. Current(c)' = rec BY <1>3, <3>2
      <4>. QED BY <4>3, <4>4 DEF Holds
    <3>. QED BY <3>1, <3>2
  <2>3. burnOps' = burnOps /\ minted \subseteq minted' OBVIOUS
  <2>. QED BY <1>2, <1>6, <2>1, <2>2, <2>3, BurnHoldsStays
<1>12. \A c \in Calls \ {e} : c \in resumed' <=> c \in resumed OBVIOUS
<1>13. ASSUME NEW x \in IntentIds, x = rec.id
       PROVE  /\ Genuine(Current(x))' /\ Current(x)'.approve = x
              /\ executions'[x].stage # "approving"
  <2>1. Current(x)' = rec BY <1>3, <1>13
  <2>. QED BY <1>1, <1>8, <1>13, <2>1 DEF Genuine
<1>14. v.stage # "approving" OBVIOUS
<1>. QED BY <1>3, <1>4, <1>6, <1>7, <1>9, <1>10, <1>11, <1>12, <1>13, <1>14, SourceKept

(* A record is written, or none, and no call moves. *)
LEMMA RecordWritten ==
  ASSUME SourceInv, UNCHANGED <<executions, approveOps, burnOps, minted, resumed, reused, bridgeFaults>>,
         quotes' \in [Previews -> {"none", "asked", "live", "gone"}],
         superseded' \subseteq Executions, crossed \subseteq crossed', crossed' \subseteq Executions,
         NEW rec \in Intent, rec.id \in IntentIds, rec.preview = Current(rec.id).preview,
         Genuine(rec), rec.approve = Current(rec.id).approve, WriteIntent(rec),
         (/\ burnOps[rec.id] \in {"inflight", "landed"} /\ rec.id \notin minted
          /\ approveOps[rec.id] = "landed" /\ Holds(Current(rec.id), rec.id))
           => Holds(rec, rec.id)
  PROVE  SourceInv'
<1>1. /\ IntentsKept /\ Current(rec.id)' = rec
      /\ \A x \in IntentIds \ {rec.id} : Current(x)' = Current(x)
  BY IntentWritten DEF SourceInv
<1>2. SourceTypes' BY <1>1 DEF SourceInv, SourceTypes, IntentsKept
<1>3. \A x \in IntentIds :
        \/ Current(x)' = Current(x)
        \/ /\ Genuine(Current(x))'
           /\ Current(x).approve = x => Current(x)'.approve = x
           /\ executions'[x].stage = "approving" => Current(x)'.approve = NoOperation
  <2>1. SUFFICES ASSUME NEW x \in IntentIds, x = rec.id
                 PROVE  /\ Genuine(Current(x))'
                        /\ Current(x).approve = x => Current(x)'.approve = x
                        /\ executions'[x].stage = "approving" => Current(x)'.approve = NoOperation
    BY <1>1
  <2>2. Current(x)' = rec /\ OwnIntent(x) BY <1>1, <2>1 DEF SourceInv
  <2>. QED BY <2>1, <2>2 DEF Genuine, OwnIntent
<1>4. ASSUME NEW c \in Executions PROVE BurnHolds(c)'
  <2>1. c # rec.id /\ c \in IntentIds => Current(c)' = Current(c) BY <1>1
  <2>2. c = rec.id => Current(c)' = rec BY <1>1
  <2>3. ASSUME c \in IntentIds, burnOps[c] \in {"inflight", "landed"}, approveOps[c] = "landed",
               Holds(Current(c), c), c \notin minted'
        PROVE  Holds(Current(c), c)'
    BY <2>1, <2>2, <2>3 DEF Holds
  <2>. QED BY <2>3, BurnHoldsStays
<1>. QED BY <1>1, <1>2, <1>3, <1>4, SourceKept

(* No record is written and no call moves. *)
LEMMA NothingWritten ==
  ASSUME SourceInv, UNCHANGED <<intents, executions, approveOps, burnOps, resumed, reused, bridgeFaults>>,
         quotes' \in [Previews -> {"none", "asked", "live", "gone"}],
         superseded' = superseded, crossed' = crossed, minted \subseteq minted',
         minted' \subseteq Executions
  PROVE  SourceInv'
<1>1. IntentsKept /\ \A x \in IntentIds : Current(x)' = Current(x)
  BY IntentsUntouched DEF SourceInv
<1>2. SourceTypes' BY DEF SourceInv, SourceTypes
<1>4. ASSUME NEW c \in Executions PROVE BurnHolds(c)'
  <2>1. c \in IntentIds => Current(c)' = Current(c) BY <1>1
  <2>2. Holds(Current(c), c) /\ c \in IntentIds => Holds(Current(c), c)' BY <2>1 DEF Holds
  <2>. QED BY <2>2, BurnHoldsStays
<1>. QED BY <1>1, <1>2, <1>4, SourceKept

LEMMA BlockingNamed ==
  ASSUME SourceInv, Blocking # {}
  PROVE  LET i == intents[FirstOf(Blocking)] IN
           /\ i.id \in IntentIds /\ Current(i.id) = i /\ BlocksQuotes(i)
<1>1. Blocking \subseteq Nat /\ Blocking \subseteq DOMAIN intents
  <2>1. intents \in Seq(Intent) BY DEF SourceInv, SourceTypes
  <2>. QED BY <2>1 DEF Blocking
<1>2. FirstOf(Blocking) \in Blocking BY <1>1, OldestIsIn
<1>. QED BY <1>1, <1>2, IntentAt DEF Blocking, SourceInv

LEMMA QuoteAskKeeps ==
  ASSUME SourceInv, NEW p \in Previews, QuoteAsk(p)
  PROVE  SourceInv'
<1>1. /\ quotes' \in [Previews -> {"none", "asked", "live", "gone"}]
      /\ UNCHANGED <<executions, approveOps, burnOps, minted, resumed, reused, bridgeFaults>>
  BY DEF QuoteAsk, SourceInv, SourceTypes
<1>2. CASE Blocking = {} /\ UNCHANGED <<intents, superseded, crossed>>
  BY <1>1, <1>2, NothingWritten DEF SourceInv, SourceTypes
<1>3. CASE Blocking # {}
  <2> DEFINE i == intents[FirstOf(Blocking)]
  <2>1. i.id \in IntentIds /\ Current(i.id) = i BY <1>3, BlockingNamed
  <2>2. i \in Intent /\ Genuine(i) /\ i.id \in Executions BY <2>1, RecordOf
  <2>3. superseded \subseteq Executions /\ crossed \subseteq Executions
    BY DEF SourceInv, SourceTypes
  <2>4. NoOperation \notin minted
    BY BridgeSourceAssumption DEF BridgeSourceAssumption, SourceInv, SourceTypes
  <2>5. \/ /\ Settled(i) /\ WriteIntent([i EXCEPT !.status = "success"])
           /\ UNCHANGED <<superseded, crossed>>
        \/ /\ Supersedes(i) /\ WriteIntent(Superseding(i))
           /\ superseded' = superseded \cup {i.id} /\ crossed' \in {crossed, crossed \cup {i.id}}
    BY <1>3 DEF QuoteAsk
  <2> HIDE DEF i
  <2>6. CASE Settled(i) /\ WriteIntent([i EXCEPT !.status = "success"])
             /\ UNCHANGED <<superseded, crossed>>
    <3> DEFINE rec == [i EXCEPT !.status = "success"]
    <3>1. rec \in Intent /\ rec.id = i.id /\ rec.preview = i.preview /\ rec.approve = i.approve
          /\ Genuine(rec)
      BY <2>2 DEF Intent, Genuine
    <3>3. i.burnTx /\ i.burn \in minted BY <2>6 DEF Settled
    <3>4. ~(Holds(i, i.id) /\ i.id \notin minted)
      BY <2>4, <3>3 DEF Holds
    <3>5. WriteIntent(rec) BY <2>6
    <3> HIDE DEF rec
    <3>. QED BY <1>1, <2>1, <2>3, <2>6, <3>1, <3>4, <3>5, RecordWritten
  <2>7. CASE /\ Supersedes(i) /\ WriteIntent(Superseding(i))
             /\ superseded' = superseded \cup {i.id} /\ crossed' \in {crossed, crossed \cup {i.id}}
    <3>1. /\ Superseding(i) \in Intent /\ Superseding(i).id = i.id
          /\ Superseding(i).preview = i.preview /\ Superseding(i).approve = i.approve
          /\ Genuine(Superseding(i))
      BY <2>2, PhasesKnown DEF Superseding, Intent, Genuine
    <3>2. ~Holds(i, i.id)
      BY <2>1, <2>2, <2>7, PhasesKnown, BridgeSourceAssumption
        DEF Supersedes, ApprovalOnly, Holds, BridgeSourceAssumption
    <3>. QED BY <1>1, <2>1, <2>2, <2>3, <2>7, <3>1, <3>2, RecordWritten
  <2>. QED BY <2>5, <2>6, <2>7
<1>. QED BY <1>2, <1>3 DEF QuoteAsk

LEMMA NotifiedKeeps ==
  ASSUME SourceInv, NEW x \in IntentIds, Notified(x)
  PROVE  SourceInv'
<1> DEFINE i == Current(x)
<1>1. i \in Intent /\ Genuine(i) /\ i.id = x /\ x \in Executions BY RecordOf
<1>2. PICK s \in {i.status, "error"} :
        /\ WriteIntent([i EXCEPT !.hinted = TRUE, !.status = s])
        /\ s # i.status => OpState(i) # "landed"
  BY DEF Notified
<1>3. OperationOf(i) # NoOperation /\ OpState(i) \in {"landed", "reverted"}
      /\ UNCHANGED <<quotes, executions, approveOps, burnOps, minted, superseded, crossed, resumed,
                     reused, bridgeFaults>>
  BY DEF Notified
<1>4. OpState(i) = IF i.burn # NoOperation THEN burnOps[i.burn] ELSE approveOps[i.approve]
  BY DEF OpState
<1> HIDE DEF i
<1> DEFINE rec == [i EXCEPT !.hinted = TRUE, !.status = s]
<1>5. /\ rec \in Intent /\ rec.id = i.id /\ rec.preview = i.preview /\ rec.approve = i.approve
      /\ Genuine(rec) /\ rec.burn = i.burn /\ rec.burnTx = i.burnTx /\ rec.safe = i.safe
      /\ rec.phase = i.phase /\ rec.status = s
  BY <1>1, PhasesKnown DEF Intent, Genuine
<1>6. ASSUME burnOps[x] \in {"inflight", "landed"}, approveOps[x] = "landed", Holds(i, x)
      PROVE  Holds(rec, x)
  <2>1. s = i.status
    BY <1>1, <1>2, <1>3, <1>4, <1>6 DEF Holds, OperationOf, Genuine
  <2> HIDE DEF rec
  <2>. QED BY <1>5, <1>6, <2>1 DEF Holds
<1>7. WriteIntent(rec) BY <1>2
<1> HIDE DEF rec
<1>8. /\ rec.id \in IntentIds /\ rec.preview = Current(rec.id).preview
      /\ rec.approve = Current(rec.id).approve
  BY <1>1, <1>5 DEF i
<1>9. superseded \subseteq Executions /\ crossed \subseteq Executions
      /\ quotes \in [Previews -> {"none", "asked", "live", "gone"}]
  BY DEF SourceInv, SourceTypes
<1>10. Current(rec.id) = i BY <1>1, <1>5 DEF i
<1>. QED BY <1>1, <1>3, <1>5, <1>6, <1>7, <1>8, <1>9, <1>10, RecordWritten

LEMMA MintRecordedKeeps ==
  ASSUME SourceInv, NEW x \in IntentIds, MintRecorded(x)
  PROVE  SourceInv'
<1> DEFINE i == Current(x)
<1>0. PICK rec : rec = [i EXCEPT !.status = "success"] OBVIOUS
<1>1. i \in Intent /\ Genuine(i) /\ i.id = x /\ x \in Executions BY RecordOf
<1>2. /\ i.burnTx /\ i.burn \in minted /\ WriteIntent(rec)
      /\ UNCHANGED <<quotes, executions, approveOps, burnOps, minted, superseded, crossed, resumed,
                     reused, bridgeFaults>>
  BY <1>0 DEF MintRecorded
<1>3. /\ superseded \subseteq Executions /\ crossed \subseteq Executions /\ NoOperation \notin minted
      /\ quotes \in [Previews -> {"none", "asked", "live", "gone"}]
  BY BridgeSourceAssumption DEF BridgeSourceAssumption, SourceInv, SourceTypes
<1>4. ~(Holds(i, x) /\ x \notin minted) BY <1>2, <1>3 DEF Holds
<1> HIDE DEF i
<1>5. rec \in Intent /\ rec.id = i.id /\ rec.preview = i.preview /\ rec.approve = i.approve
      /\ Genuine(rec)
  BY <1>0, <1>1 DEF Intent, Genuine
<1>6. Current(rec.id) = i BY <1>1, <1>5 DEF i
<1>7. /\ rec.id \in IntentIds /\ rec.preview = Current(rec.id).preview
      /\ rec.approve = Current(rec.id).approve /\ WriteIntent(rec) /\ rec \in Intent /\ Genuine(rec)
  BY <1>1, <1>2, <1>5, <1>6
<1>8. ~(Holds(Current(rec.id), rec.id) /\ rec.id \notin minted)
  BY <1>1, <1>4, <1>5, <1>6
<1>9. /\ quotes' \in [Previews -> {"none", "asked", "live", "gone"}]
      /\ superseded' \subseteq Executions /\ crossed \subseteq crossed' /\ crossed' \subseteq Executions
      /\ UNCHANGED <<executions, approveOps, burnOps, minted, resumed, reused, bridgeFaults>>
  BY <1>2, <1>3
<1>. QED BY <1>7, <1>8, <1>9, RecordWritten

LEMMA QuietKeeps ==
  ASSUME SourceInv,
         \/ \E p \in Previews : QuoteAnswered(p) \/ QuoteExpires(p)
         \/ \E e \in Executions : DestinationMints(e)
  PROVE  SourceInv'
<1>1. SourceTypes BY DEF SourceInv
<1>2. /\ UNCHANGED <<intents, executions, approveOps, burnOps, resumed, reused, bridgeFaults>>
      /\ superseded' = superseded /\ crossed' = crossed
  BY DEF QuoteAnswered, QuoteExpires, DestinationMints
<1>3. /\ quotes' \in [Previews -> {"none", "asked", "live", "gone"}]
      /\ minted \subseteq minted' /\ minted' \subseteq Executions
  BY <1>1 DEF QuoteAnswered, QuoteExpires, DestinationMints, SourceTypes
<1>. QED BY <1>2, <1>3, NothingWritten

LEMMA ExecuteKeeps ==
  ASSUME SourceInv, NEW e \in Executions, NEW p \in Previews, Execute(e, p)
  PROVE  SourceInv'
<1> DEFINE v == [stage |-> "checking", preview |-> p]
<1>1. e \in Calls /\ executions[e].stage = "new" BY DEF Execute, ExecAt, Calls
<1>2. v \in CallRecord /\ v.stage = "checking" BY CallRecordsBuilt
<1>3. ExecGoes(e, v)
      /\ UNCHANGED <<quotes, intents, approveOps, burnOps, minted, superseded, crossed, resumed,
                     reused, bridgeFaults>>
  BY DEF Execute
<1> HIDE DEF v
<1>4. executions'[e] = v BY <1>1, <1>2, <1>3, CallMoved DEF SourceInv
<1>5. CallHolds(e)' BY <1>2, <1>4 DEF CallHolds, ExecAt, Reading
<1>. QED BY <1>1, <1>2, <1>3, <1>5, CallSteps

(* A call gives up. *)
LEMMA LookEnds ==
  ASSUME SourceInv, NEW e \in Calls, executions[e].stage \in {"new", "checking"} \cup Reading,
         ExecEnds(e),
         UNCHANGED <<quotes, intents, approveOps, burnOps, minted, superseded, crossed, resumed,
                     reused, bridgeFaults>>
  PROVE  SourceInv'
<1>1. PICK v \in CallRecord : v = [stage |-> "done"] /\ v.stage = "done"
  BY CallRecordsBuilt
<1>2. ExecGoes(e, v) BY <1>1 DEF ExecEnds
<1>3. executions'[e] = v BY <1>2, CallMoved DEF SourceInv
<1>4. CallHolds(e)' BY <1>1, <1>3 DEF CallHolds, ExecAt, Reading
<1>. QED BY <1>1, <1>2, <1>4, CallSteps

(* A call begins to wait for the operation an intent shows. *)
LEMMA CallLooks ==
  ASSUME SourceInv, NEW e \in Calls, executions[e].stage \in {"new", "checking"},
         NEW x \in IntentIds, NEW s \in Reading,
         ExecGoes(e, [stage |-> s, intent |-> x, seen |-> Current(x)]),
         Current(x).status = "pending_confirmation", OperationOf(Current(x)) # NoOperation,
         s = "watching" /\ Current(x).burn = NoOperation => Current(x).phase \in ApprovalPhases,
         UNCHANGED <<quotes, intents, approveOps, burnOps, minted, superseded, crossed, resumed,
                     reused, bridgeFaults>>
  PROVE  SourceInv'
<1>1. PICK v \in CallRecord : /\ v = [stage |-> s, intent |-> x, seen |-> Current(x)]
                              /\ v.stage = s /\ v.intent = x /\ v.seen = Current(x)
  BY RecordOf, CallRecordsBuilt
<1>2. ExecGoes(e, v) BY <1>1
<1>3. /\ executions'[e] = v /\ \A c \in Calls \ {e} : executions'[c] = executions[c]
  BY <1>2, CallMoved DEF SourceInv
<1>4. /\ Current(x) \in Intent /\ Current(x).id = x /\ x \in Calls /\ OwnIntent(x)
      /\ Genuine(Current(x)) /\ x \in Executions
  BY RecordOf
<1>5. x # e /\ executions'[x] = executions[x]
  BY <1>3, <1>4, LookersHold
<1>6. IntentsKept /\ Current(x)' = Current(x)
  BY IntentsUntouched DEF SourceInv
<1>7. executions[x].stage # "approving"
  BY <1>4, BridgeSourceAssumption DEF BridgeSourceAssumption, OwnIntent, OperationOf, Genuine
<1>8. CallHolds(e)'
  <2>1. x \in IntentIds' /\ ~ExecAt(x, "approving")'
    BY <1>5, <1>6, <1>7 DEF IntentsKept, ExecAt
  <2>2. /\ executions'[e].intent = x /\ executions'[e].seen = Current(x)
        /\ executions'[e].stage = s
    BY <1>1, <1>3
  <2>3. s \notin {"approving", "burning"} BY DEF Reading
  <2>4. /\ executions'[e].seen.id = executions'[e].intent
        /\ executions'[e].seen.preview = Current(executions[e].seen.id)'.preview
    BY <1>4, <1>6, <2>2
  <2>5. /\ Current(x).phase \in PendingPhases
        /\ Current(x).approve = x
    BY <1>4 DEF Genuine, OperationOf
  <2>. QED BY <2>1, <2>2, <2>3, <2>4, <2>5, <1>4 DEF CallHolds, ExecAt
<1>9. v.stage \notin {"approving", "burning"} BY <1>1 DEF Reading
<1>. QED BY <1>1, <1>2, <1>8, <1>9, CallSteps

LEMMA WatchKeeps ==
  ASSUME SourceInv, NEW e \in Pollers, NEW x \in Executions, Watch(e, x)
  PROVE  SourceInv'
<1>1. e \in Calls /\ executions[e].stage = "new" /\ x \in IntentIds /\ "watching" \in Reading
  BY DEF Watch, ExecAt, Calls, IntentIds, Reading
<1>2. /\ Current(x).status = "pending_confirmation" /\ OperationOf(Current(x)) # NoOperation
      /\ Current(x).burn = NoOperation => Current(x).phase \in ApprovalPhases
      /\ ExecGoes(e, [stage |-> "watching", intent |-> x, seen |-> Current(x)])
      /\ UNCHANGED <<quotes, intents, approveOps, burnOps, minted, superseded, crossed, resumed,
                     reused, bridgeFaults>>
  BY DEF Watch, OperationOf
<1>. QED BY <1>1, <1>2, CallLooks

(* Of the earlier intents of a quote the first that is pending is chosen. *)
LEMMA PendingNamed ==
  ASSUME SourceInv, NEW p \in Previews, PendingFor(p) # {}
  PROVE  LET i == intents[FirstOf(PendingFor(p))] IN
           i.id \in IntentIds /\ Current(i.id) = i /\ i.status = "pending_confirmation"
<1>1. PendingFor(p) \subseteq Nat /\ PendingFor(p) \subseteq DOMAIN intents
  <2>1. intents \in Seq(Intent) BY DEF SourceInv, SourceTypes
  <2>. QED BY <2>1 DEF PendingFor
<1>2. FirstOf(PendingFor(p)) \in PendingFor(p) BY <1>1, OldestIsIn
<1>. QED BY <1>1, <1>2, IntentAt DEF PendingFor, SourceInv

(* A call begins an intent. *)
LEMMA IntentBegins ==
  ASSUME SourceInv, NEW e \in Executions, NEW p \in Previews, ExecAt(e, "checking"),
         PendingFor(p) = {}, intents' = Append(intents, NewIntent(e, p)),
         reused' = IF \E n \in DOMAIN intents :
                        intents[n].preview = p /\ intents[n].status # "pending_confirmation"
                   THEN reused \cup {e} ELSE reused,
         ExecGoes(e, [stage |-> "approving", intent |-> e]),
         UNCHANGED <<quotes, approveOps, burnOps, minted, superseded, crossed, resumed,
                     bridgeFaults>>
  PROVE  SourceInv'
<1> DEFINE rec == NewIntent(e, p)
<1>1. /\ e \in Calls /\ e \notin IntentIds /\ e \notin resumed /\ burnOps[e] = "none"
  BY LookersHold DEF ExecAt, Calls
<1>2. /\ rec \in Intent /\ rec.id = e /\ rec.preview = p /\ Genuine(rec)
      /\ rec.approve = NoOperation
  BY PhasesKnown DEF NewIntent, Intent, Genuine
<1>3. /\ \A n \in DOMAIN intents :
           intents[n].preview = p => intents[n].status # "pending_confirmation"
  <2>1. SUFFICES ASSUME NEW n \in DOMAIN intents, intents[n].preview = p,
                        intents[n].status = "pending_confirmation"
                 PROVE  FALSE
    OBVIOUS
  <2>2. intents[n].id \in IntentIds /\ Current(intents[n].id) = intents[n]
    BY IntentAt DEF SourceInv
  <2>3. Genuine(intents[n]) BY <2>2, RecordOf
  <2>. QED BY <2>1, <2>3 DEF Genuine, PendingFor
<1>4. (\E n \in DOMAIN intents : intents[n].preview = p) => e \in reused'
  BY <1>3
<1>5. reused \subseteq reused' /\ reused' \subseteq reused \cup {e} OBVIOUS
<1>6. intents' = Append(intents, rec) OBVIOUS
<1> HIDE DEF rec
<1>7. /\ intents' \in Seq(Intent) /\ IntentIds' = IntentIds \cup {e} /\ IntentOrder'
      /\ Current(e)' = rec /\ \A x \in IntentIds : Current(x)' = Current(x)
  <2>1. PICK r \in Intent : r = rec BY <1>2
  <2>2. SourceTypes /\ IntentOrder BY DEF SourceInv
  <2>. QED BY <1>1, <1>2, <1>4, <1>5, <1>6, <2>1, <2>2, IntentAdded
<1>8. PICK v \in CallRecord : /\ v = [stage |-> "approving", intent |-> e]
                              /\ v.stage = "approving" /\ v.intent = e
  BY CallRecordsBuilt
<1>9. /\ executions' \in [Executions \cup Pollers -> CallRecord]
      /\ executions'[e] = v /\ \A c \in Calls \ {e} : executions'[c] = executions[c]
  <2>1. ExecGoes(e, v) BY <1>8
  <2>. QED BY <1>1, <2>1, CallMoved DEF SourceInv
<1>10. SourceTypes'
  <2>1. SourceTypes BY DEF SourceInv
  <2>2. reused' \subseteq Executions BY <1>5, <2>1 DEF SourceTypes
  <2>. QED BY <1>7, <1>9, <2>1, <2>2 DEF SourceTypes
<1>11. ASSUME NEW x \in IntentIds PROVE OwnIntent(x)'
  <2>1. x # e /\ executions'[x] = executions[x] /\ OwnIntent(x) BY <1>1, <1>9, RecordOf
  <2>2. Current(x)' = Current(x) BY <1>7
  <2>. QED BY <2>1, <2>2 DEF OwnIntent, Genuine
<1>12. OwnIntent(e)'
  BY <1>1, <1>2, <1>7, <1>8, <1>9 DEF OwnIntent, Genuine
<1>13. ASSUME NEW c \in Calls PROVE CallHolds(c)'
  <2>1. CASE c = e
    BY <1>7, <1>8, <1>9, <2>1 DEF CallHolds, ExecAt, Reading
  <2>2. CASE c # e
    <3>1. ASSUME NEW x \in IntentIds
          PROVE  /\ x \in IntentIds' /\ Current(x)'.preview = Current(x).preview
                 /\ Current(x).approve = x => Current(x)'.approve = x
                 /\ executions'[x].stage = "approving" => executions[x].stage = "approving"
      BY <1>1, <1>7, <1>9, RecordOf
    <3>. QED BY <1>9, <2>2, <3>1, CallHoldsStays
  <2>. QED BY <2>1, <2>2
<1>14. ASSUME NEW c \in Executions PROVE Burner(c)'
  <2>1. CASE c = e
    BY <1>1, <1>8, <1>9, <2>1 DEF Burner, ExecAt
  <2>2. CASE c # e
    <3>1. executions'[c] = executions[c] /\ IntentIds \subseteq IntentIds'
      BY <1>7, <1>9, <2>2 DEF Calls
    <3>. QED BY <3>1, BurnerStays
  <2>. QED BY <2>1, <2>2
<1>15. ASSUME NEW c \in Executions PROVE BurnHolds(c)'
  <2>1. c \in IntentIds => Current(c)' = Current(c) BY <1>7
  <2>2. Holds(Current(c), c) /\ c \in IntentIds => Holds(Current(c), c)' BY <2>1 DEF Holds
  <2>3. \A x \in resumed : executions'[x].intent = executions[x].intent
    BY <1>1, <1>9 DEF SourceInv, SourceTypes, Calls
  <2>. QED BY <2>2, <2>3, BurnHoldsStays
<1>. QED BY <1>7, <1>10, <1>11, <1>12, <1>13, <1>14, <1>15 DEF SourceInv, Calls

LEMMA ExecuteCheckedKeeps ==
  ASSUME SourceInv, NEW e \in Executions, ExecuteChecked(e)
  PROVE  SourceInv'
<1> DEFINE p == executions[e].preview
<1>1. e \in Calls /\ ExecAt(e, "checking") /\ executions[e].stage = "checking"
  BY DEF ExecuteChecked, ExecAt, Calls
<1>2. p \in Previews BY <1>1, CallFields DEF SourceInv
<1>3. UNCHANGED <<quotes, approveOps, burnOps, minted, superseded, crossed, resumed, bridgeFaults>>
  BY DEF ExecuteChecked
<1>4. CASE ExecEnds(e) /\ UNCHANGED <<intents, reused>>
  BY <1>1, <1>3, <1>4, LookEnds
<1>5. CASE /\ quotes[p] = "live" /\ PendingFor(p) = {}
           /\ intents' = Append(intents, NewIntent(e, p))
           /\ reused' = IF \E n \in DOMAIN intents :
                              intents[n].preview = p /\ intents[n].status # "pending_confirmation"
                        THEN reused \cup {e} ELSE reused
           /\ ExecGoes(e, [stage |-> "approving", intent |-> e])
  BY <1>1, <1>2, <1>3, <1>5, IntentBegins
<1>6. CASE /\ PendingFor(p) # {}
           /\ LET i == intents[FirstOf(PendingFor(p))] IN
                /\ OperationOf(i) # NoOperation
                /\ ExecGoes(e, [stage |-> "polling", intent |-> i.id, seen |-> i])
           /\ UNCHANGED <<intents, reused>>
  <2>1. PICK q \in Previews : q = p BY <1>2
  <2>2. PICK x \in IntentIds : /\ x = intents[FirstOf(PendingFor(p))].id
                               /\ Current(x) = intents[FirstOf(PendingFor(p))]
                               /\ Current(x).status = "pending_confirmation"
    BY <1>6, <2>1, PendingNamed
  <2>3. /\ OperationOf(Current(x)) # NoOperation
        /\ ExecGoes(e, [stage |-> "polling", intent |-> x, seen |-> Current(x)])
        /\ UNCHANGED <<intents, reused>>
    BY <1>6, <2>2
  <2>4. "polling" \in Reading /\ "polling" # "watching" BY DEF Reading
  <2>. QED BY <1>1, <1>3, <2>2, <2>3, <2>4, CallLooks
<1>. QED BY <1>4, <1>5, <1>6 DEF ExecuteChecked

(* What a call that looks has seen. *)
LEMMA SeenHolds ==
  ASSUME SourceInv, NEW e \in Calls, executions[e].stage \in Reading
  PROVE  LET i == executions[e].seen IN
           /\ i \in Intent /\ i.id = executions[e].intent /\ i.id \in Executions
           /\ i.status = "pending_confirmation" /\ i.phase \in PendingPhases /\ i.approve = i.id
           /\ i.burn \in Executions \cup {NoOperation}
           /\ executions[e].stage = "watching" /\ i.burn = NoOperation => i.phase \in ApprovalPhases
<1>1. CallHolds(e) BY DEF SourceInv, Calls
<1>2. executions[e].seen \in Intent BY CallFields DEF SourceInv
<1>. QED BY <1>1, <1>2 DEF CallHolds, ExecAt, Intent

LEMMA ExecutePolledKeeps ==
  ASSUME SourceInv, NEW e \in Executions, ExecutePolled(e)
  PROVE  SourceInv'
<1>1. e \in Calls /\ executions[e].stage \in Reading BY DEF ExecutePolled, ExecAt, Calls, Reading
<1>2. PICK i \in Intent : i = executions[e].seen BY <1>1, SeenHolds
<1>3. /\ i.id = executions[e].intent /\ i.id \in Executions
      /\ i.status = "pending_confirmation" /\ i.phase \in PendingPhases /\ i.approve = i.id
      /\ i.burn \in Executions \cup {NoOperation}
  BY <1>1, <1>2, SeenHolds
<1>4. /\ quotes \in [Previews -> {"none", "asked", "live", "gone"}]
      /\ UNCHANGED <<approveOps, burnOps, minted, superseded, reused, bridgeFaults>>
  BY DEF ExecutePolled, SourceInv, SourceTypes
<1>5. i.preview \in Previews BY DEF Intent
<1>6. PICK done \in CallRecord : done = [stage |-> "done"] /\ done.stage = "done"
  BY CallRecordsBuilt
<1>7. CASE ExecEnds(e) /\ UNCHANGED <<quotes, intents, crossed, resumed>>
  BY <1>1, <1>4, <1>7, LookEnds
<1>8. CASE /\ OpState(i) = "landed" /\ i.burn # NoOperation
           /\ WriteBackIntent(i, [i EXCEPT !.burnTx = TRUE, !.phase = "source_confirmed",
                                           !.hinted = TRUE, !.status = "pending_confirmation"])
           /\ ExecEnds(e) /\ UNCHANGED <<quotes, resumed>>
  <2>1. PICK rec : rec = [i EXCEPT !.burnTx = TRUE, !.phase = "source_confirmed",
                                   !.hinted = TRUE, !.status = "pending_confirmation"]
    OBVIOUS
  <2>2. /\ rec \in Intent /\ rec.id = i.id /\ rec.preview = i.preview /\ rec.approve = i.approve
        /\ rec.burn = i.burn /\ rec.burnTx /\ rec.status = "pending_confirmation" /\ Genuine(rec)
    BY <1>3, <2>1, PhasesKnown DEF Intent, Genuine
  <2>3. /\ WriteBackIntent(executions[e].seen, rec) /\ ExecGoes(e, done)
    BY <1>2, <1>6, <1>8, <2>1 DEF ExecEnds
  <2>4. Holds(i, rec.id) => Holds(rec, rec.id) BY <1>8, <2>2 DEF Holds
  <2>. QED BY <1>1, <1>2, <1>3, <1>4, <1>6, <1>8, <2>2, <2>3, <2>4, CallWrites
<1>9. CASE /\ WriteBackIntent(i, [i EXCEPT !.phase = "source_approval_confirmed"])
           /\ ExecGoes(e, [stage |-> "burning", intent |-> i.id])
           /\ resumed' = resumed \cup {e} /\ UNCHANGED quotes
  <2>1. PICK rec : rec = [i EXCEPT !.phase = "source_approval_confirmed"] OBVIOUS
  <2>2. /\ rec \in Intent /\ rec.id = i.id /\ rec.preview = i.preview /\ rec.approve = i.approve
        /\ Genuine(rec)
    BY <1>3, <2>1, PhasesKnown DEF Intent, Genuine
  <2>3. PICK v \in CallRecord : /\ v = [stage |-> "burning", intent |-> i.id]
                                /\ v.stage = "burning" /\ v.intent = rec.id
    BY <1>3, <2>2, CallRecordsBuilt
  <2>4. WriteBackIntent(executions[e].seen, rec) /\ ExecGoes(e, v)
    BY <1>2, <1>9, <2>1, <2>3
  <2>. QED BY <1>1, <1>2, <1>3, <1>4, <1>9, <2>2, <2>3, <2>4, CallWrites
<1>10. CASE /\ OpState(i) = "reverted"
            /\ \E f \in {"source_submission_failed", "source_approval_failed"} :
                 WriteBackIntent(i, [i EXCEPT !.status = "error", !.safe = TRUE, !.phase = f])
            /\ QuoteUsed(i.preview) /\ ExecEnds(e) /\ UNCHANGED resumed
  <2>1. PICK f \in {"source_submission_failed", "source_approval_failed"} :
          WriteBackIntent(i, [i EXCEPT !.status = "error", !.safe = TRUE, !.phase = f])
    BY <1>10
  <2>2. PICK rec : rec = [i EXCEPT !.status = "error", !.safe = TRUE, !.phase = f] OBVIOUS
  <2>3. /\ rec \in Intent /\ rec.id = i.id /\ rec.preview = i.preview /\ rec.approve = i.approve
        /\ Genuine(rec)
    BY <1>3, <2>2, PhasesKnown DEF Intent, Genuine
  <2>4. /\ WriteBackIntent(executions[e].seen, rec) /\ ExecGoes(e, done)
        /\ quotes' \in [Previews -> {"none", "asked", "live", "gone"}]
    BY <1>2, <1>4, <1>5, <1>6, <1>10, <2>1, <2>2 DEF ExecEnds, QuoteUsed
  <2>5. ~(/\ burnOps[rec.id] \in {"inflight", "landed"}
          /\ approveOps[rec.id] = "landed" /\ Holds(i, rec.id))
    BY <1>3, <1>10, <2>3 DEF OpState, Holds
  <2>. QED BY <1>1, <1>2, <1>3, <1>4, <1>6, <1>10, <2>3, <2>4, <2>5, CallWrites
<1>. QED
  <2>1. executions[e].seen = i BY <1>2
  <2>. QED BY <1>7, <1>8, <1>9, <1>10, <2>1 DEF ExecutePolled

LEMMA WatchedKeeps ==
  ASSUME SourceInv, NEW e \in Pollers, Watched(e)
  PROVE  SourceInv'
<1>1. e \in Calls /\ executions[e].stage \in Reading /\ executions[e].stage = "watching"
  BY Zenon DEF Watched, ExecAt, Calls, Reading
<1>2. PICK i \in Intent : i = executions[e].seen BY <1>1, SeenHolds
<1>3. /\ i.id = executions[e].intent /\ i.id \in Executions
      /\ i.status = "pending_confirmation" /\ i.phase \in PendingPhases /\ i.approve = i.id
      /\ i.burn \in Executions \cup {NoOperation}
      /\ i.burn = NoOperation => i.phase \in ApprovalPhases
  BY <1>1, <1>2, SeenHolds
<1>4. /\ quotes' \in [Previews -> {"none", "asked", "live", "gone"}] /\ UNCHANGED quotes
      /\ UNCHANGED <<approveOps, burnOps, minted, superseded, resumed, reused, bridgeFaults>>
  <2>1. UNCHANGED <<quotes, approveOps, burnOps, minted, superseded, resumed, reused, bridgeFaults>>
    BY Zenon DEF Watched
  <2>. QED BY <2>1 DEF SourceInv, SourceTypes
<1>5. PICK done \in CallRecord : done = [stage |-> "done"] /\ done.stage = "done"
  BY CallRecordsBuilt
<1>6. ExecEnds(e) /\ ExecGoes(e, done) BY Zenon, <1>5 DEF Watched, ExecEnds
<1>7. CASE UNCHANGED <<intents, crossed>>
  BY <1>1, <1>4, <1>6, <1>7, LookEnds
<1>8. ASSUME NEW rec \in Intent, rec.id = i.id, rec.preview = i.preview, rec.approve = i.approve,
             Genuine(rec), WriteBackIntent(i, rec),
             (/\ burnOps[rec.id] \in {"inflight", "landed"} /\ rec.id \notin minted
              /\ approveOps[rec.id] = "landed" /\ Holds(i, rec.id)) => Holds(rec, rec.id)
      PROVE  SourceInv'
  BY <1>1, <1>2, <1>3, <1>4, <1>5, <1>6, <1>8, CallWrites
<1>9. CASE /\ OpState(i) = "landed" /\ i.burn = NoOperation
           /\ WriteBackIntent(i, [i EXCEPT !.phase = "source_approval_confirmed"])
  <2>1. PICK rec : rec = [i EXCEPT !.phase = "source_approval_confirmed"] OBVIOUS
  <2>2. /\ rec \in Intent /\ rec.id = i.id /\ rec.preview = i.preview /\ rec.approve = i.approve
        /\ Genuine(rec)
    BY <1>3, <2>1, PhasesKnown DEF Intent, Genuine
  <2>3. ~Holds(i, rec.id)
    BY <1>3, <1>9, <2>2, PhasesKnown, BridgeSourceAssumption DEF Holds, BridgeSourceAssumption
  <2>. QED BY <1>8, <1>9, <2>1, <2>2, <2>3
<1>10. CASE /\ OpState(i) = "reverted" /\ i.burn = NoOperation
            /\ WriteBackIntent(i, [i EXCEPT !.phase = "source_approval_failed", !.status = "error",
                                            !.safe = TRUE])
  <2>1. PICK rec : rec = [i EXCEPT !.phase = "source_approval_failed", !.status = "error",
                                   !.safe = TRUE]
    OBVIOUS
  <2>2. /\ rec \in Intent /\ rec.id = i.id /\ rec.preview = i.preview /\ rec.approve = i.approve
        /\ Genuine(rec)
    BY <1>3, <2>1, PhasesKnown DEF Intent, Genuine
  <2>3. approveOps[rec.id] # "landed" BY <1>3, <1>10, <2>2 DEF OpState
  <2>. QED BY <1>8, <1>10, <2>1, <2>2, <2>3
<1>11. CASE /\ i.burn # NoOperation
            /\ \E status \in {"pending_confirmation", "error"} \cup
                             (IF i.burn \in minted THEN {"success"} ELSE {}) :
                 WriteBackIntent(i, [i EXCEPT !.burnTx = TRUE, !.hinted = TRUE, !.status = status])
  <2>1. PICK status \in {"pending_confirmation", "error", "success"} :
          /\ status = "success" => i.burn \in minted
          /\ WriteBackIntent(i, [i EXCEPT !.burnTx = TRUE, !.hinted = TRUE, !.status = status])
    BY <1>11
  <2>2. PICK rec : rec = [i EXCEPT !.burnTx = TRUE, !.hinted = TRUE, !.status = status] OBVIOUS
  <2>3. /\ rec \in Intent /\ rec.id = i.id /\ rec.preview = i.preview /\ rec.approve = i.approve
        /\ Genuine(rec) /\ rec.burn = i.burn /\ rec.burnTx /\ rec.status = status
    BY <1>3, <2>2, PhasesKnown DEF Intent, Genuine
  <2>4. rec.id \notin minted /\ Holds(i, rec.id) => Holds(rec, rec.id)
    BY <1>11, <2>1, <2>3 DEF Holds
  <2>. QED BY <1>8, <2>1, <2>2, <2>3, <2>4
<1>12. CASE /\ OpState(i) = "reverted" /\ i.burn # NoOperation
            /\ WriteBackIntent(i, [i EXCEPT !.status = "error"])
  <2>1. PICK rec : rec = [i EXCEPT !.status = "error"] OBVIOUS
  <2>2. /\ rec \in Intent /\ rec.id = i.id /\ rec.preview = i.preview /\ rec.approve = i.approve
        /\ Genuine(rec)
    BY <1>3, <2>1, PhasesKnown DEF Intent, Genuine
  <2>3. ~(burnOps[rec.id] \in {"inflight", "landed"} /\ Holds(i, rec.id))
    BY <1>12, <2>2 DEF OpState, Holds
  <2>. QED BY <1>8, <1>12, <2>1, <2>2, <2>3
<1>. QED
  <2>1. executions[e].seen = i BY <1>2
  <2>. QED BY Zenon, <1>7, <1>9, <1>10, <1>11, <1>12, <2>1 DEF Watched

(* The approve operation answers. *)
LEMMA ApprovedKeeps ==
  ASSUME SourceInv, NEW e \in Executions, Approved(e)
  PROVE  SourceInv'
<1>1. /\ e \in Calls /\ ExecAt(e, "approving") /\ executions[e].intent = e /\ e \in IntentIds
      /\ e \notin resumed /\ burnOps[e] = "none"
  <2>1. CallHolds(e) /\ Burner(e) /\ e \in Calls /\ ExecAt(e, "approving")
    <3>1. ExecAt(e, "approving") BY Zenon DEF Approved
    <3>. QED BY <3>1 DEF SourceInv, Calls
  <2>2. e \in IntentIds /\ executions[e].intent = e BY <2>1 DEF CallHolds
  <2>3. OwnIntent(e) BY <2>2, RecordOf
  <2>. QED BY <2>1, <2>2, <2>3 DEF Burner, OwnIntent, ExecAt
<1>2. PICK i \in Intent : i = Current(e) BY <1>1, RecordOf
<1>3. /\ i.id = e /\ i.approve = NoOperation /\ i.burn = NoOperation
      /\ i.status = "pending_confirmation" => i.phase \in PendingPhases
  BY <1>1, <1>2, RecordOf, BridgeSourceAssumption
    DEF OwnIntent, Genuine, ExecAt, BridgeSourceAssumption
<1>4. UNCHANGED <<burnOps, minted, superseded, crossed, resumed, reused>>
  BY Zenon DEF Approved
<1>5. PICK a \in Answers :
        /\ MayAnswer(a) /\ approveOps' = [approveOps EXCEPT ![e] = a.op]
        /\ \/ /\ a.answer = "success"
              /\ WriteIntent([i EXCEPT !.approve = e, !.status = "pending_confirmation",
                                       !.phase = "source_approval_confirmed"])
              /\ ExecGoes(e, [stage |-> "burning", intent |-> e])
              /\ UNCHANGED quotes
           \/ /\ a.answer \in {"pending", "receiptless"}
              /\ WriteIntent([i EXCEPT !.approve = e, !.status = "pending_confirmation",
                                       !.phase = "source_approval_submitted"])
              /\ ExecEnds(e) /\ UNCHANGED quotes
           \/ /\ a.answer = "unanswered"
              /\ WriteIntent([i EXCEPT !.phase = "source_approval_unknown"])
              /\ ExecEnds(e) /\ UNCHANGED quotes
           \/ /\ a.answer \in {"precheck", "failed"}
              /\ WriteIntent([i EXCEPT !.phase = "source_approval_failed", !.status = "error",
                   !.approve = IF a.answer = "failed" THEN e ELSE NoOperation,
                   !.safe = (a.answer = "precheck"), !.terminal = TRUE])
              /\ QuoteUsed(i.preview) /\ ExecEnds(e)
  <2>1. i = Current(executions[e].intent) BY <1>1, <1>2
  <2>2. Current(executions[e].intent).id = e BY <1>3, <2>1
  <2>. QED BY Zenon, <2>1, <2>2 DEF Approved
<1>6. /\ a.op \in OpStates /\ (a.answer = "success" => a.op = "landed")
      /\ bridgeFaults' \in 0 .. BridgeFaults
      /\ quotes' \in [Previews -> {"none", "asked", "live", "gone"}]
  <2>2. a.op \in OpStates /\ (a.answer = "success" => a.op = "landed")
    BY DEF Answers, OpStates
  <2>3. bridgeFaults \in 0 .. BridgeFaults /\ bridgeFaults' \in {bridgeFaults, bridgeFaults + 1}
        /\ (bridgeFaults' = bridgeFaults + 1 => bridgeFaults < BridgeFaults)
    BY <1>5 DEF MayAnswer, BridgeFault, SourceInv, SourceTypes
  <2>4. bridgeFaults' \in 0 .. BridgeFaults
    BY <2>3, BridgeSourceAssumption DEF BridgeSourceAssumption
  <2>5. quotes' \in [Previews -> {"none", "asked", "live", "gone"}]
    BY <1>5 DEF QuoteUsed, SourceInv, SourceTypes
  <2>. QED BY <2>2, <2>4, <2>5
<1>7. PICK rec \in Intent, v \in CallRecord :
        /\ rec.id = e /\ rec.preview = i.preview /\ Genuine(rec) /\ WriteIntent(rec)
        /\ ExecGoes(e, v)
        /\ \/ v.stage = "done"
           \/ /\ v.stage = "burning" /\ v.intent = e /\ rec.approve = e /\ a.op = "landed"
  <2>1. PICK done \in CallRecord : done = [stage |-> "done"] /\ done.stage = "done"
    BY CallRecordsBuilt
  <2>2. PICK burn \in CallRecord : /\ burn = [stage |-> "burning", intent |-> e]
                                   /\ burn.stage = "burning" /\ burn.intent = e
    BY CallRecordsBuilt
  <2>3. CASE /\ a.answer = "success"
             /\ WriteIntent([i EXCEPT !.approve = e, !.status = "pending_confirmation",
                                      !.phase = "source_approval_confirmed"])
             /\ ExecGoes(e, [stage |-> "burning", intent |-> e])
    <3>1. PICK rec : rec = [i EXCEPT !.approve = e, !.status = "pending_confirmation",
                                     !.phase = "source_approval_confirmed"]
      OBVIOUS
    <3>2. rec \in Intent /\ rec.id = e /\ rec.preview = i.preview /\ Genuine(rec) /\ rec.approve = e
      BY <1>3, <3>1, PhasesKnown DEF Intent, Genuine
    <3>. QED BY <1>6, <2>2, <2>3, <3>1, <3>2
  <2>4. CASE /\ WriteIntent([i EXCEPT !.approve = e, !.status = "pending_confirmation",
                                      !.phase = "source_approval_submitted"])
             /\ ExecEnds(e)
    <3>1. PICK rec : rec = [i EXCEPT !.approve = e, !.status = "pending_confirmation",
                                     !.phase = "source_approval_submitted"]
      OBVIOUS
    <3>2. rec \in Intent /\ rec.id = e /\ rec.preview = i.preview /\ Genuine(rec)
      BY <1>3, <3>1, PhasesKnown DEF Intent, Genuine
    <3>. QED BY <2>1, <2>4, <3>1, <3>2 DEF ExecEnds
  <2>5. CASE WriteIntent([i EXCEPT !.phase = "source_approval_unknown"]) /\ ExecEnds(e)
    <3>1. PICK rec : rec = [i EXCEPT !.phase = "source_approval_unknown"] OBVIOUS
    <3>2. rec \in Intent /\ rec.id = e /\ rec.preview = i.preview /\ Genuine(rec)
      BY <1>3, <3>1, PhasesKnown DEF Intent, Genuine
    <3>. QED BY <2>1, <2>5, <3>1, <3>2 DEF ExecEnds
  <2>6. CASE /\ WriteIntent([i EXCEPT !.phase = "source_approval_failed", !.status = "error",
                  !.approve = IF a.answer = "failed" THEN e ELSE NoOperation,
                  !.safe = (a.answer = "precheck"), !.terminal = TRUE])
             /\ ExecEnds(e)
    <3>1. PICK rec : rec = [i EXCEPT !.phase = "source_approval_failed", !.status = "error",
                  !.approve = IF a.answer = "failed" THEN e ELSE NoOperation,
                  !.safe = (a.answer = "precheck"), !.terminal = TRUE]
      OBVIOUS
    <3>2. rec \in Intent /\ rec.id = e /\ rec.preview = i.preview /\ Genuine(rec)
      BY <1>3, <3>1, PhasesKnown, ZenonT(60) DEF Intent, Genuine
    <3>. QED BY <2>1, <2>6, <3>1, <3>2 DEF ExecEnds
  <2>. QED BY <1>5, <2>3, <2>4, <2>5, <2>6
<1>8. /\ IntentsKept /\ Current(e)' = rec
      /\ \A x \in IntentIds \ {e} : Current(x)' = Current(x)
  BY <1>1, <1>2, <1>4, <1>7, IntentWritten DEF SourceInv
<1>9. /\ executions' \in [Executions \cup Pollers -> CallRecord]
      /\ executions'[e] = v /\ \A c \in Calls \ {e} : executions'[c] = executions[c]
  BY <1>1, <1>7, CallMoved DEF SourceInv
<1>10. /\ approveOps' \in [Executions -> OpStates] /\ approveOps'[e] = a.op
       /\ \A c \in Executions \ {e} : approveOps'[c] = approveOps[c]
  BY <1>5, <1>6 DEF SourceInv, SourceTypes
<1>11. SourceTypes' BY <1>4, <1>6, <1>8, <1>9, <1>10 DEF SourceInv, SourceTypes, IntentsKept
<1>12. CallHolds(e)'
  <2>1. CASE v.stage = "done" BY <1>9, <2>1 DEF CallHolds, ExecAt, Reading
  <2>2. CASE v.stage = "burning" /\ v.intent = e /\ rec.approve = e
    <3>1. executions'[e].stage = "burning" /\ executions'[e].intent = e BY <1>9, <2>2
    <3>2. e \in IntentIds' /\ Current(executions[e].intent)'.approve = e
      BY <1>1, <1>8, <2>2, <3>1 DEF IntentsKept
    <3>. QED BY <3>1, <3>2 DEF CallHolds, ExecAt, Reading
  <2>. QED BY <1>7, <2>1, <2>2
<1>13. Burner(e)'
  <2>1. e \in IntentIds' BY <1>1, <1>8 DEF IntentsKept
  <2>. QED BY <1>1, <1>4, <1>7, <1>9, <1>10, <2>1 DEF Burner, ExecAt
<1>14. ASSUME NEW c \in Executions PROVE BurnHolds(c)'
  <2>1. \A x \in resumed : executions'[x].intent = executions[x].intent
    BY <1>1, <1>9 DEF SourceInv, SourceTypes, Calls
  <2>2. burnOps[c] \in {"inflight", "landed"} => c # e BY <1>1
  <2>3. c # e /\ c \in IntentIds /\ Holds(Current(c), c) => Holds(Current(c), c)'
    BY <1>8 DEF Holds
  <2>. QED BY <1>4, <2>1, <2>2, <2>3, BurnHoldsStays
<1>15. ASSUME NEW x \in IntentIds, x = e
       PROVE  /\ Genuine(Current(x))' /\ Current(x).approve # x
              /\ executions'[x].stage # "approving"
  <2>1. Current(x)' = rec BY <1>8, <1>15
  <2>2. NoOperation # e BY BridgeSourceAssumption DEF BridgeSourceAssumption
  <2>. QED BY <1>2, <1>3, <1>7, <1>9, <1>15, <2>1, <2>2 DEF Genuine
<1>16. executions'[e].stage \in {"burning", "done"} /\ e \notin resumed' BY <1>1, <1>4, <1>7, <1>9
<1>. QED BY <1>1, <1>4, <1>8, <1>9, <1>10, <1>11, <1>12, <1>13, <1>14, <1>15, <1>16, SourceKept
        DEF Calls

(* The burn answers. *)
BurnRecord(e, i, a) ==
  LET failed == a.answer \in {"precheck", "failed", "unhashed"}
      over == [i EXCEPT !.burn = IF a.answer \in {"precheck", "unanswered"}
                                 THEN NoOperation ELSE e,
                        !.safe = a.answer \in {"precheck", "failed"},
                        !.terminal = a.answer \in {"precheck", "failed"},
                        !.status = IF failed THEN "error" ELSE "pending_confirmation"]
  IN IF a.answer = "success"
     THEN [over EXCEPT !.burnTx = TRUE, !.hinted = TRUE, !.phase = "source_confirmed"]
     ELSE IF a.answer = "pending"
     THEN [over EXCEPT !.burnTx = FALSE, !.phase = "source_submitted"]
     ELSE IF a.answer = "receiptless" THEN [over EXCEPT !.phase = "source_submitted"]
     ELSE IF a.answer = "unanswered"
     THEN [over EXCEPT !.phase = "source_submission_unknown"]
     ELSE [over EXCEPT !.burnTx = FALSE, !.phase = "source_submission_failed"]

LEMMA BurnRecordHolds ==
  ASSUME NEW e \in Executions, NEW i \in Intent, i.approve = i.id,
         NEW a \in Answers
  PROVE  LET rec == BurnRecord(e, i, a) IN
           /\ rec \in Intent /\ rec.id = i.id /\ rec.preview = i.preview /\ rec.approve = i.approve
           /\ Genuine(rec)
           /\ a.op \in {"inflight", "landed"} => Holds(rec, e)
<1>1. /\ a.answer \in {"precheck", "success", "failed", "pending", "receiptless", "unanswered",
                       "unhashed"}
      /\ a.op \in {"inflight", "landed"} => a.answer \notin {"precheck", "failed"}
  BY DEF Answers
<1> DEFINE f == a.answer
           u == f \in {"precheck", "failed"}
<1>2. PICK s \in {"error", "pending_confirmation"}, b \in {NoOperation, e}, t \in BOOLEAN :
        /\ s = IF f \in {"precheck", "failed", "unhashed"} THEN "error" ELSE "pending_confirmation"
        /\ b = IF f \in {"precheck", "unanswered"} THEN NoOperation ELSE e
        /\ t = u
  <2>1. PICK s \in {"error", "pending_confirmation"} :
          s = IF f \in {"precheck", "failed", "unhashed"} THEN "error" ELSE "pending_confirmation"
    OBVIOUS
  <2>2. PICK b \in {NoOperation, e} : b = IF f \in {"precheck", "unanswered"} THEN NoOperation ELSE e
    OBVIOUS
  <2>3. u \in BOOLEAN OBVIOUS
  <2> HIDE DEF u
  <2>. QED BY Zenon, <2>1, <2>2, <2>3
<1> DEFINE over == [i EXCEPT !.burn = b, !.safe = t, !.terminal = t, !.status = s]
<1>3. /\ over \in Intent /\ over.id = i.id /\ over.preview = i.preview /\ over.approve = i.id
      /\ over.burn = b /\ over.safe = t /\ over.status = s
  BY DEF Intent
<1> HIDE DEF over
<1>4. PICK rec : rec = BurnRecord(e, i, a) OBVIOUS
<1>5. /\ rec \in Intent /\ rec.id = i.id /\ rec.preview = i.preview /\ rec.approve = i.id
      /\ rec.burn = b /\ rec.safe = t /\ rec.status = s
      /\ rec.phase = IF f = "success" THEN "source_confirmed"
                     ELSE IF f \in {"pending", "receiptless"} THEN "source_submitted"
                     ELSE IF f = "unanswered" THEN "source_submission_unknown"
                     ELSE "source_submission_failed"
      /\ f = "success" => rec.burnTx
  <2>1. rec =
        IF f = "success"
        THEN [over EXCEPT !.burnTx = TRUE, !.hinted = TRUE, !.phase = "source_confirmed"]
        ELSE IF f = "pending"
        THEN [over EXCEPT !.burnTx = FALSE, !.phase = "source_submitted"]
        ELSE IF f = "receiptless" THEN [over EXCEPT !.phase = "source_submitted"]
        ELSE IF f = "unanswered"
        THEN [over EXCEPT !.phase = "source_submission_unknown"]
        ELSE [over EXCEPT !.burnTx = FALSE, !.phase = "source_submission_failed"]
    BY Zenon, <1>2, <1>4 DEF BurnRecord, over
  <2>2. CASE f = "success"
    <3>1. rec = [over EXCEPT !.burnTx = TRUE, !.hinted = TRUE, !.phase = "source_confirmed"]
      BY <2>1, <2>2
    <3>. QED BY <1>3, <2>2, <3>1, PhasesKnown DEF Intent
  <2>3. CASE f = "pending"
    <3>1. rec = [over EXCEPT !.burnTx = FALSE, !.phase = "source_submitted"] BY <2>1, <2>3
    <3>. QED BY <1>3, <2>3, <3>1, PhasesKnown DEF Intent
  <2>4. CASE f = "receiptless"
    <3>1. rec = [over EXCEPT !.phase = "source_submitted"] BY <2>1, <2>4
    <3>. QED BY <1>3, <2>4, <3>1, PhasesKnown DEF Intent
  <2>5. CASE f = "unanswered"
    <3>1. rec = [over EXCEPT !.phase = "source_submission_unknown"] BY <2>1, <2>5
    <3>. QED BY <1>3, <2>5, <3>1, PhasesKnown DEF Intent
  <2>6. CASE f \notin {"success", "pending", "receiptless", "unanswered"}
    <3>1. rec = [over EXCEPT !.burnTx = FALSE, !.phase = "source_submission_failed"]
      BY <2>1, <2>6
    <3>. QED BY <1>3, <2>6, <3>1, PhasesKnown DEF Intent
  <2>. QED BY <2>2, <2>3, <2>4, <2>5, <2>6
<1>6. Genuine(rec) BY <1>1, <1>2, <1>5, PhasesKnown DEF Genuine
<1>7. f \notin {"precheck", "failed"} => ~rec.safe BY Zenon, <1>2, <1>5
<1>8. a.op \in {"inflight", "landed"} => Holds(rec, e)
  <2>1. CASE f = "success" BY <1>2, <1>5, <2>1 DEF Holds
  <2>2. CASE f \in {"pending", "receiptless"} BY <1>2, <1>5, <1>7, <2>2 DEF Holds
  <2>3. CASE f = "unanswered" BY <1>2, <1>5, <2>3 DEF Holds
  <2>4. CASE f = "unhashed" BY <1>2, <1>5, <1>7, <2>4 DEF Holds
  <2>. QED BY <1>1, <2>1, <2>2, <2>3, <2>4
<1>. QED BY <1>4, <1>5, <1>6, <1>8

LEMMA BurnedKeeps ==
  ASSUME SourceInv, NEW e \in Executions, Burned(e)
  PROVE  SourceInv'
<1>1. PICK x \in IntentIds : x = executions[e].intent
  <2>1. ExecAt(e, "burning") /\ e \in Calls BY Zenon DEF Burned, Calls
  <2>. QED BY <2>1 DEF SourceInv, CallHolds, ExecAt, Calls
<1>2. /\ e \in Calls /\ executions[e].stage = "burning" /\ executions[x].stage # "approving"
      /\ Current(x).approve = x /\ x \in Executions /\ Current(x) \in Intent /\ Current(x).id = x
      /\ e \notin resumed => x = e /\ approveOps[e] = "landed"
  <2>1. e \in Calls /\ executions[e].stage = "burning" BY Zenon DEF Burned, ExecAt, Calls
  <2>2. CallHolds(e) /\ Burner(e) BY <2>1 DEF SourceInv, Calls
  <2>3. executions[x].stage # "approving" /\ Current(x).approve = x
    BY <1>1, <2>1, <2>2 DEF CallHolds, ExecAt, Reading
  <2>. QED BY <1>1, <2>1, <2>2, <2>3, RecordOf DEF Burner, ExecAt
<1>3. PICK i \in Intent : i = Current(x) BY <1>2
<1>4. UNCHANGED <<approveOps, minted, superseded, crossed, resumed, reused>>
  BY Zenon DEF Burned
<1>5. PICK a \in Answers :
        /\ MayAnswer(a) /\ burnOps' = [burnOps EXCEPT ![e] = a.op]
        /\ WriteIntent(BurnRecord(e, i, a))
        /\ IF a.answer \in {"unanswered", "receiptless"} THEN UNCHANGED quotes
           ELSE QuoteUsed(i.preview)
        /\ ExecGoes(e, [stage |-> "done", intent |-> x])
  <2>1. i = Current(executions[e].intent) BY <1>1, <1>3
  <2>2. Current(executions[e].intent).id = x BY <1>1, <1>2
  <2>. QED BY Zenon, <2>1, <2>2 DEF Burned, BurnRecord
<1>6. /\ a.op \in OpStates /\ bridgeFaults' \in 0 .. BridgeFaults
      /\ quotes' \in [Previews -> {"none", "asked", "live", "gone"}]
  <2>1. a.op \in OpStates BY DEF Answers, OpStates
  <2>2. bridgeFaults \in 0 .. BridgeFaults /\ bridgeFaults' \in {bridgeFaults, bridgeFaults + 1}
        /\ (bridgeFaults' = bridgeFaults + 1 => bridgeFaults < BridgeFaults)
    BY <1>5 DEF MayAnswer, BridgeFault, SourceInv, SourceTypes
  <2>3. bridgeFaults' \in 0 .. BridgeFaults
    BY <2>2, BridgeSourceAssumption DEF BridgeSourceAssumption
  <2>4. quotes' \in [Previews -> {"none", "asked", "live", "gone"}]
    BY <1>5 DEF QuoteUsed, SourceInv, SourceTypes
  <2>. QED BY <2>1, <2>3, <2>4
<1>7. PICK rec \in Intent : rec = BurnRecord(e, i, a)
  BY <1>2, <1>3, BurnRecordHolds
<1>8. /\ rec.id = x /\ rec.preview = i.preview /\ rec.approve = x /\ Genuine(rec)
      /\ WriteIntent(rec)
      /\ a.op \in {"inflight", "landed"} => Holds(rec, e)
  BY <1>2, <1>3, <1>5, <1>7, BurnRecordHolds
<1>9. /\ IntentsKept /\ Current(x)' = rec
      /\ \A y \in IntentIds \ {x} : Current(y)' = Current(y)
  BY <1>3, <1>4, <1>8, IntentWritten DEF SourceInv
<1>10. PICK v \in CallRecord : /\ v = [stage |-> "done", intent |-> x]
                               /\ v.stage = "done" /\ v.intent = x
                               /\ v \in [stage : {"done"}, intent : Executions]
  BY <1>2, CallRecordsBuilt
<1>11. /\ executions' \in [Executions \cup Pollers -> CallRecord]
       /\ executions'[e] = v /\ \A c \in Calls \ {e} : executions'[c] = executions[c]
  <2>1. ExecGoes(e, v) BY <1>5, <1>10
  <2>. QED BY <1>2, <2>1, CallMoved DEF SourceInv
<1>12. /\ burnOps' \in [Executions -> OpStates] /\ burnOps'[e] = a.op
       /\ \A c \in Executions \ {e} : burnOps'[c] = burnOps[c]
  BY <1>5, <1>6 DEF SourceInv, SourceTypes
<1>13. SourceTypes' BY <1>4, <1>6, <1>9, <1>11, <1>12 DEF SourceInv, SourceTypes, IntentsKept
<1>14. CallHolds(e)' BY <1>10, <1>11 DEF CallHolds, ExecAt, Reading
<1>15. Burner(e)'
  <2>1. v \in [stage : {"burning", "done"}, intent : Executions] BY <1>10
  <2>2. x \in IntentIds' BY <1>9 DEF IntentsKept
  <2>. QED BY <1>2, <1>4, <1>10, <1>11, <2>1, <2>2 DEF Burner, ExecAt
<1>16. ASSUME NEW c \in Executions PROVE BurnHolds(c)'
  <2>1. \A y \in resumed : executions'[y].intent = executions[y].intent
    BY <1>1, <1>10, <1>11 DEF SourceInv, SourceTypes, Calls
  <2>2. CASE c = e /\ e \notin resumed
    <3>1. a.op \in {"inflight", "landed"} => Holds(rec, c) BY <1>8, <2>2
    <3>2. Current(c)' = rec BY <1>2, <1>9, <2>2
    <3>3. a.op \in {"inflight", "landed"} => Holds(Current(c), c)'
      BY <3>1, <3>2 DEF Holds
    <3>. QED BY <1>12, <2>2, <3>3 DEF BurnHolds
  <2>3. CASE c = e /\ e \in resumed
    BY <1>4, <2>3 DEF BurnHolds
  <2>4. CASE c # e
    <3>1. c = x => c \in Resumed'
      <4>1. SUFFICES ASSUME c = x PROVE c \in Resumed' OBVIOUS
      <4>2. e \in resumed' /\ executions'[e].intent = c BY <1>2, <1>4, <1>10, <1>11, <2>4, <4>1
      <4>. QED BY <4>2 DEF Resumed, BurnedIntent
    <3>2. c \in IntentIds /\ c # x /\ Holds(Current(c), c) => Holds(Current(c), c)'
      BY <1>9 DEF Holds
    <3>3. burnOps'[c] = burnOps[c] BY <1>12, <2>4
    <3>. QED BY <1>4, <2>1, <3>1, <3>2, <3>3, BurnHoldsStays
  <2>. QED BY <2>2, <2>3, <2>4
<1>17. ASSUME NEW y \in IntentIds, y = x
       PROVE  /\ Genuine(Current(y))' /\ Current(y)'.approve = y
              /\ executions'[y].stage # "approving"
  <2>1. Current(y)' = rec BY <1>9, <1>17
  <2>2. executions'[y].stage # "approving" BY <1>2, <1>10, <1>11, <1>17 DEF Calls
  <2>. QED BY <1>8, <1>17, <2>1, <2>2 DEF Genuine
<1>18. executions'[e].stage = "done" /\ (e \in IntentIds => e \notin resumed')
  BY <1>4, <1>10, <1>11, RecordOf DEF OwnIntent
<1>. QED BY <1>2, <1>4, <1>9, <1>11, <1>12, <1>13, <1>14, <1>15, <1>16, <1>17, <1>18, SourceKept
        DEF Calls

LEMMA SourceMinesKeeps ==
  ASSUME SourceInv, NEW e \in Executions, SourceMines(e)
  PROVE  SourceInv'
<1>1. UNCHANGED <<quotes, intents, executions, minted, superseded, crossed, resumed, reused,
                  bridgeFaults>>
  BY Zenon DEF SourceMines
<1>2. /\ approveOps' \in [Executions -> OpStates] /\ burnOps' \in [Executions -> OpStates]
      /\ \A c \in Executions :
           /\ approveOps[c] = "landed" => approveOps'[c] = "landed"
           /\ burnOps'[c] # "none" => burnOps[c] # "none"
           /\ burnOps'[c] \in {"inflight", "landed"} => burnOps[c] \in {"inflight", "landed"}
  <2>1. approveOps \in [Executions -> OpStates] /\ burnOps \in [Executions -> OpStates]
    BY DEF SourceInv, SourceTypes
  <2>2. CASE /\ approveOps[e] = "inflight" /\ UNCHANGED burnOps
             /\ \E s \in {"landed", "reverted"} : approveOps' = [approveOps EXCEPT ![e] = s]
    BY <2>1, <2>2 DEF OpStates
  <2>3. CASE /\ burnOps[e] = "inflight" /\ UNCHANGED approveOps
             /\ \E s \in {"landed", "reverted"} : burnOps' = [burnOps EXCEPT ![e] = s]
    BY <2>1, <2>3 DEF OpStates
  <2>. QED BY Zenon, <2>2, <2>3 DEF SourceMines
<1>3. IntentsKept /\ \A x \in IntentIds : Current(x)' = Current(x)
  BY <1>1, IntentsUntouched DEF SourceInv
<1>4. SourceTypes' BY <1>1, <1>2 DEF SourceInv, SourceTypes
<1>5. ASSUME NEW c \in Executions PROVE BurnHolds(c)'
  <2>1. c \in IntentIds => Current(c)' = Current(c) BY <1>3
  <2>2. Holds(Current(c), c) /\ c \in IntentIds => Holds(Current(c), c)' BY <2>1 DEF Holds
  <2>. QED BY <1>1, <1>2, <2>2, BurnHoldsStays
<1>. QED BY <1>1, <1>2, <1>3, <1>4, <1>5, SourceKept

LEMMA RestartKeeps ==
  ASSUME SourceInv, BridgeRestarts
  PROVE  SourceInv'
<1>1. UNCHANGED <<intents, minted, superseded, resumed, reused>> BY DEF BridgeRestarts
<1>2. PICK lost \in SUBSET {e \in Executions : ExecAt(e, "approving")} :
        approveOps' = [e \in Executions |-> IF e \in lost THEN "inflight" ELSE approveOps[e]]
  BY DEF BridgeRestarts
<1>3. PICK gone \in SUBSET {e \in Executions : ExecAt(e, "burning")} :
        burnOps' = [e \in Executions |-> IF e \in gone THEN "inflight" ELSE burnOps[e]]
  BY DEF BridgeRestarts
<1>4. /\ crossed \subseteq crossed'
      /\ \A c \in Executions : ExecAt(c, "burning") => executions[c].intent \in crossed'
      /\ crossed' \subseteq Executions
  <2>1. crossed' = crossed \cup
          {executions[e].intent : e \in {x \in Executions : ExecAt(x, "burning")}}
    BY DEF BridgeRestarts
  <2>2. \A c \in Executions : ExecAt(c, "burning") => executions[c].intent \in Executions
    BY CallFields DEF SourceInv, ExecAt, Calls
  <2>. QED BY <2>1, <2>2 DEF SourceInv, SourceTypes
<1>5. ASSUME NEW c \in Calls
      PROVE  /\ executions'[c] \in CallRecord /\ executions'[c].stage \in {"new", "done"}
             /\ executions[c].stage \in {"new", "done"} => executions'[c] = executions[c]
             /\ executions[c].stage = "burning" =>
                  /\ executions'[c] \in [stage : {"done"}, intent : Executions]
                  /\ executions'[c].intent = executions[c].intent
             /\ executions[c].stage \in {"approving", "burning", "done"} =>
                  executions'[c].stage = "done"
  <2>1. executions'[c] = IF ExecAt(c, "new") \/ ExecAt(c, "done") THEN executions[c]
                         ELSE IF ExecAt(c, "burning") THEN [executions[c] EXCEPT !.stage = "done"]
                         ELSE [stage |-> "done"]
    BY DEF BridgeRestarts, SourceInv, SourceTypes, Calls
  <2>2. executions[c] \in CallRecord /\ [stage |-> "done"] \in CallRecord
    BY CallFields, CallRecordsBuilt DEF SourceInv
  <2>3. CASE ExecAt(c, "burning")
    <3>1. executions[c] \in [stage : {"approving", "burning", "done"}, intent : Executions]
      BY <2>3, CallFields DEF SourceInv, ExecAt
    <3>2. executions'[c] = [executions[c] EXCEPT !.stage = "done"] BY <2>1, <2>3 DEF ExecAt
    <3>3. executions'[c] \in [stage : {"done"}, intent : Executions]
          /\ executions'[c].intent = executions[c].intent
      BY <3>1, <3>2
    <3>. QED BY <2>3, <3>3 DEF CallRecord, ExecAt
  <2>4. CASE ExecAt(c, "new") \/ ExecAt(c, "done") BY <2>1, <2>2, <2>4 DEF ExecAt
  <2>5. CASE ~(ExecAt(c, "new") \/ ExecAt(c, "done") \/ ExecAt(c, "burning"))
    BY <2>1, <2>2, <2>5 DEF ExecAt
  <2>. QED BY <2>3, <2>4, <2>5
<1>6. IntentsKept /\ \A x \in IntentIds : Current(x)' = Current(x)
  BY <1>1, IntentsUntouched DEF SourceInv
<1>7. SourceTypes'
  <2>1. SourceTypes BY DEF SourceInv
  <2>2. quotes' \in [Previews -> {"none", "asked", "live", "gone"}]
    BY DEF BridgeRestarts
  <2>3. executions' \in [Executions \cup Pollers -> CallRecord]
    <3>1. executions' = [e \in Executions \cup Pollers |-> executions'[e]]
      BY <2>1 DEF BridgeRestarts, SourceTypes
    <3>. QED BY <1>5, <3>1 DEF Calls
  <2>4. approveOps' \in [Executions -> OpStates] /\ burnOps' \in [Executions -> OpStates]
    BY <1>2, <1>3, <2>1 DEF SourceTypes, OpStates
  <2>5. bridgeFaults' \in 0 .. BridgeFaults
    BY <2>1, BridgeSourceAssumption
      DEF BridgeRestarts, BridgeFault, SourceTypes, BridgeSourceAssumption
  <2>. QED BY <1>1, <1>4, <2>1, <2>2, <2>3, <2>4, <2>5 DEF SourceTypes
<1>8. \A c \in Calls : CallHolds(c)'
  BY <1>5 DEF CallHolds, ExecAt, Reading
<1>9. ASSUME NEW c \in Executions PROVE Burner(c)'
  <2>1. Burner(c) /\ c \in Calls BY DEF SourceInv, Calls
  <2>2. c \in resumed' => executions'[c] \in [stage : {"burning", "done"}, intent : Executions]
    <3>1. SUFFICES ASSUME c \in resumed
                   PROVE  executions'[c] \in [stage : {"burning", "done"}, intent : Executions]
      BY <1>1
    <3>2. executions[c] \in [stage : {"burning", "done"}, intent : Executions]
      BY <2>1, <3>1 DEF Burner
    <3>. QED BY <1>5, <2>1, <3>2
  <2>3. ASSUME burnOps'[c] # "none"
        PROVE  /\ executions'[c] \in [stage : {"done"}, intent : Executions]
               /\ executions'[c].intent = executions[c].intent
               /\ ExecAt(c, "burning") \/ burnOps[c] # "none"
               /\ ~ExecAt(c, "approving")
    <3>1. CASE ExecAt(c, "burning") BY <1>5, <2>1, <3>1 DEF ExecAt
    <3>2. CASE ~ExecAt(c, "burning")
      <4>1. burnOps[c] # "none" BY <1>3, <2>3, <3>2
      <4>2. executions[c] \in [stage : {"done"}, intent : Executions] BY <2>1, <4>1 DEF Burner
      <4>. QED BY <1>5, <2>1, <4>1, <4>2 DEF ExecAt
    <3>. QED BY <3>1, <3>2
  <2>4. ~ExecAt(c, "burning")' BY <1>5, <2>1 DEF ExecAt
  <2>5. ASSUME burnOps'[c] # "none", c \notin resumed'
        PROVE  executions'[c].intent = c /\ c \in IntentIds' /\ approveOps'[c] = "landed"
    <3>1. executions[c].intent = c /\ c \in IntentIds /\ approveOps[c] = "landed"
      BY <1>1, <2>1, <2>3, <2>5 DEF Burner
    <3>2. approveOps'[c] = "landed" BY <1>2, <2>3, <2>5, <3>1
    <3>. QED BY <1>6, <2>3, <2>5, <3>1, <3>2 DEF IntentsKept
  <2>. QED BY <2>2, <2>3, <2>4, <2>5 DEF Burner
<1>10. ASSUME NEW c \in Executions PROVE BurnHolds(c)'
  <2>1. Burner(c) /\ c \in Calls BY DEF SourceInv, Calls
  <2>2. ASSUME NEW x \in resumed PROVE executions'[x].intent = executions[x].intent
    <3>1. x \in Executions /\ x \in Calls BY DEF SourceInv, SourceTypes, Calls
    <3>2. executions[x] \in [stage : {"burning", "done"}, intent : Executions]
      BY <3>1 DEF SourceInv, Burner
    <3>. QED BY <1>5, <3>1, <3>2
  <2>3. CASE ExecAt(c, "burning")
    <3>1. c \notin resumed => c \in crossed' BY <1>4, <2>1, <2>3 DEF Burner
    <3>. QED BY <1>1, <3>1 DEF BurnHolds
  <2>4. CASE ~ExecAt(c, "burning")
    <3>1. burnOps'[c] = burnOps[c] BY <1>3, <2>4
    <3>2. c \in IntentIds => Current(c)' = Current(c) BY <1>6
    <3>3. Holds(Current(c), c) /\ c \in IntentIds => Holds(Current(c), c)' BY <3>2 DEF Holds
    <3>. QED BY <1>1, <1>4, <2>2, <3>1, <3>3, BurnHoldsStays
  <2>. QED BY <2>3, <2>4
<1>11. ASSUME NEW c \in Calls
       PROVE  /\ executions'[c].stage # "approving"
              /\ c \in IntentIds => executions'[c].stage \in {"burning", "done"} /\ c \notin resumed'
  BY <1>1, <1>5, RecordOf DEF OwnIntent
<1>. QED BY <1>6, <1>7, <1>8, <1>9, <1>10, <1>11, SourceKept

--------------------------------------------------------------------------------
LEMMA SourceInit ==
  ASSUME BridgeSourceInit
  PROVE  SourceInv
<1>1. SourceTypes
  BY CallRecordsBuilt, BridgeSourceAssumption
    DEF BridgeSourceInit, SourceTypes, OpStates, BridgeSourceAssumption
<1>2. DOMAIN intents = {} /\ IntentIds = {} BY DEF BridgeSourceInit, IntentIds
<1>3. IntentOrder BY <1>2 DEF IntentOrder
<1>4. \A c \in Executions \cup Pollers : CallHolds(c)
  BY DEF BridgeSourceInit, CallHolds, ExecAt, Reading
<1>5. \A c \in Executions : Burner(c) /\ BurnHolds(c)
  BY DEF BridgeSourceInit, Burner, BurnHolds, ExecAt
<1>. QED BY <1>1, <1>2, <1>3, <1>4, <1>5 DEF SourceInv

LEMMA SourceNext ==
  SourceInv /\ [BridgeSourceNext]_sourceVars => SourceInv'
<1>1. SUFFICES ASSUME SourceInv, [BridgeSourceNext]_sourceVars PROVE SourceInv'
  OBVIOUS
<1>2. CASE UNCHANGED sourceVars
  BY <1>1, <1>2, NothingWritten DEF sourceVars, SourceInv, SourceTypes
<1>3. CASE \E p \in Previews : QuoteAsk(p) \/ QuoteAnswered(p) \/ QuoteExpires(p)
  BY <1>1, <1>3, QuoteAskKeeps, QuietKeeps
<1>4. CASE \E e \in Executions :
             \/ \E p \in Previews : Execute(e, p)
             \/ ExecuteChecked(e) \/ ExecutePolled(e) \/ Approved(e) \/ Burned(e)
             \/ SourceMines(e) \/ DestinationMints(e)
  BY <1>1, <1>4, ExecuteKeeps, ExecuteCheckedKeeps, ExecutePolledKeeps, ApprovedKeeps,
     BurnedKeeps, SourceMinesKeeps, QuietKeeps
<1>5. CASE \E e \in Pollers : Watched(e) \/ \E id \in Executions : Watch(e, id)
  BY <1>1, <1>5, WatchedKeeps, WatchKeeps
<1>6. CASE \E n \in DOMAIN intents : Notified(intents[n].id) \/ MintRecorded(intents[n].id)
  BY <1>1, <1>6, NotifiedKeeps, MintRecordedKeeps DEF IntentIds
<1>7. CASE BridgeRestarts
  BY <1>1, <1>7, RestartKeeps
<1>. QED BY <1>1, <1>2, <1>3, <1>4, <1>5, <1>6, <1>7 DEF BridgeSourceNext

(* A burn that was not resumed is that of the intent of its call. *)
LEMMA OwnBurn ==
  ASSUME SourceInv, NEW c \in AliveBurns, c \notin resumed
  PROVE  c \in Executions /\ c \in IntentIds /\ BurnedIntent(c) = c
  BY DEF AliveBurns, BurnedIntent, SourceInv, Burner

(* mcpServer.mjs:3156-3194: a quote is burned once, whatever executions,       *)
(* polls, notifications and restarts interleave, but for a call that resumed  *)
(* an intent or found the earlier intent of its quote ended.                  *)
THEOREM SpecOneBurnPerQuote == BridgeSourceSpec => []OneBurnPerQuote
<1>1. BridgeSourceInit => SourceInv BY SourceInit
<1>2. SourceInv => OneBurnPerQuote
  <2>1. SUFFICES ASSUME SourceInv, NEW c \in AliveBurns, NEW d \in AliveBurns, c # d,
                        BurnedPreview(c) = BurnedPreview(d), c \notin resumed, d \notin resumed
                 PROVE  {c, d} \cap reused # {}
    BY DEF OneBurnPerQuote
  <2>2. SourceTypes /\ IntentOrder BY <2>1 DEF SourceInv
  <2>3. PICK n \in DOMAIN intents : n = IndexOf(c) /\ intents[n].id = c /\ Current(c) = intents[n]
    BY <2>1, <2>2, OwnBurn, IntentNamed
  <2>4. PICK m \in DOMAIN intents : m = IndexOf(d) /\ intents[m].id = d /\ Current(d) = intents[m]
    BY <2>1, <2>2, OwnBurn, IntentNamed
  <2>5. intents[n].preview = intents[m].preview /\ n # m
    BY <2>1, <2>3, <2>4, OwnBurn DEF BurnedPreview
  <2>6. n < m \/ m < n
    <3>1. n \in Nat /\ m \in Nat BY <2>2 DEF SourceTypes
    <3>. QED BY <2>5, <3>1
  <2>7. n < m => d \in reused BY <2>2, <2>4, <2>5 DEF IntentOrder
  <2>8. m < n => c \in reused BY <2>2, <2>3, <2>5 DEF IntentOrder
  <2>. QED BY <2>6, <2>7, <2>8
<1>. QED BY <1>1, <1>2, SourceNext, PTL DEF BridgeSourceSpec

(* mcpServer.mjs:1846: a burn that may land and has not been minted refuses    *)
(* new quotes, but after a resume, a restart or a write over its intent.      *)
THEOREM SpecAliveBurnBlocks == BridgeSourceSpec => []AliveBurnBlocks
<1>1. BridgeSourceInit => SourceInv BY SourceInit
<1>2. SourceInv => AliveBurnBlocks
  <2>1. SUFFICES ASSUME SourceInv, NEW c \in AliveBurns, c \notin minted,
                        BurnedIntent(c) \notin crossed \cup Resumed
                 PROVE  Blocking # {}
    BY DEF AliveBurnBlocks
  <2>2. c \notin resumed BY <2>1 DEF Resumed
  <2>3. c \in Executions /\ c \in IntentIds /\ BurnedIntent(c) = c BY <2>1, <2>2, OwnBurn
  <2>4. Holds(Current(c), c)
    BY <2>1, <2>2, <2>3 DEF SourceInv, BurnHolds, AliveBurns
  <2>5. PICK i \in Intent : i = Current(c) /\ Genuine(i) BY <2>1, <2>3, RecordOf
  <2>6. BlocksQuotes(i)
    <3>1. Holds(i, c) /\ c # NoOperation
      BY <2>3, <2>4, <2>5, BridgeSourceAssumption DEF BridgeSourceAssumption
    <3>2. CASE i.burnTx BY <3>1, <3>2 DEF Holds, BlocksQuotes, Classify
    <3>3. CASE ~i.burnTx /\ i.burn = c
      <4>1. Classify(i) = "burn_unresolved" BY <3>1, <3>3 DEF Holds, Classify
      <4>. QED BY <2>5, <3>1, <3>3, <4>1 DEF Holds, BlocksQuotes, UnknownSubmission, Genuine
    <3>4. CASE ~i.burnTx /\ i.burn = NoOperation
      <4>1. i.phase = "source_submission_unknown" BY <3>1, <3>4 DEF Holds
      <4>2. Classify(i) = "burn_unresolved"
        BY <3>4, <4>1, PhasesKnown DEF Classify
      <4>. QED BY <3>1, <4>1, <4>2 DEF Holds, BlocksQuotes, UnknownSubmission
    <3>. QED BY <3>1, <3>2, <3>3, <3>4 DEF Holds
  <2>7. IndexOf(c) \in DOMAIN intents /\ Current(c) = intents[IndexOf(c)]
    BY <2>1, <2>3, IntentNamed DEF SourceInv
  <2>. QED BY <2>5, <2>6, <2>7 DEF Blocking
<1>. QED BY <1>1, <1>2, SourceNext, PTL DEF BridgeSourceSpec

--------------------------------------------------------------------------------
(* The three as the run composes them. *)

(* A behaviour of the three together is a behaviour of each.                  *)
THEOREM BridgeRefinesEach == BridgeSpec => AutoMintSpec /\ BridgeSourceSpec /\ BridgeMintSpec
<1>1. BridgeInit => AutoMintInit /\ BridgeSourceInit /\ BridgeMintInit BY DEF BridgeInit
<1>2. [BridgeNext]_bridgeVars
        => [AutoMintNext]_amVars /\ [BridgeSourceNext]_sourceVars /\ [BridgeMintNext]_mintVars
  BY DEF BridgeNext, bridgeVars
<1>. QED BY <1>1, <1>2, PTL DEF BridgeSpec, AutoMintSpec, BridgeSourceSpec, BridgeMintSpec

(* BridgeTypeOK for any number of calls, owners, quotes and faults: the jobs,  *)
(* intents, approvals, locks and operations of the bridge keep their shape     *)
(* (server.mjs, mcpServer.mjs).                                             *)
THEOREM SpecBridgeTypeOK == BridgeSpec => []BridgeTypeOK
<1>1. JobInv => AutoMintTypeOK BY DEF JobInv
<1>2. SourceInv => BridgeSourceTypeOK
  <2>. SUFFICES ASSUME SourceTypes PROVE BridgeSourceTypeOK BY DEF SourceInv
  <2>1. Range(intents) \subseteq Intent BY DEF SourceTypes, Range
  <2>. QED BY <2>1 DEF SourceTypes, BridgeSourceTypeOK
<1>3. AutoMintTypeOK /\ BridgeSourceTypeOK /\ BridgeMintTypeOK => BridgeTypeOK BY DEF BridgeTypeOK
<1>4. AutoMintSpec => []JobInv
  <2>1. AutoMintInit => JobInv BY AutoMintInit0
  <2>2. JobInv /\ [AutoMintNext]_amVars => JobInv' BY JobStep
  <2>. QED BY <2>1, <2>2, PTL DEF AutoMintSpec
<1>5. BridgeSourceSpec => []SourceInv
  <2>1. BridgeSourceInit => SourceInv BY SourceInit
  <2>. QED BY <2>1, SourceNext, PTL DEF BridgeSourceSpec
<1>. QED BY <1>1, <1>2, <1>3, <1>4, <1>5, BridgeRefinesEach, MintTypesHold, PTL
================================================================================
