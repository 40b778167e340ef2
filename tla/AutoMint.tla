------------------------------- MODULE AutoMint -------------------------------
(***************************************************************************)
(* The auto-mint worker of the CCTP bridge (server.mjs): one burn, whose   *)
(* job lives in a map, in auto-mint-jobs.json, and in a row of the         *)
(* database that also carries the lease of its worker.  The loop only      *)
(* polls the attestation of the burn; it never burns or mints.             *)
(*                                                                         *)
(* A call that may start a worker suspends twice: it reads the row, and it *)
(* claims the lease.  Writes of the row are neither awaited nor ordered.   *)
(***************************************************************************)
EXTENDS Naturals, FiniteSets

CONSTANTS
  BurnOwners,    \* wallets that may register the burn
  NoJob,
  Starts, NoStart, \* calls that may start a worker, each with its lease token
  LeaseModes,    \* whether the database may be configured, or not
  MaxPolls,      \* AUTO_MINT_MAX_ATTEMPTS
  MaxTroubles    \* bound: calls of the database that fail, leases that run
                 \* out, and restarts, together

(* nextRetryAt is a number of milliseconds where the worker has set it and a *)
(* date string where it was read from the row.                              *)
Job == [status : {"polling", "ready", "retryable"}, owner : BurnOwners,
        next : {"none", "number", "date"}]

AutoMintAssumption ==
  /\ NoStart \notin Starts /\ NoJob \notin Job
  /\ LeaseModes \subseteq BOOLEAN
  /\ MaxPolls \in Nat \ {0} /\ MaxTroubles \in Nat
ASSUME AutoMintAssumption

VARIABLES
  job,       \* autoMintJobs
  jobFile,   \* auto-mint-jobs.json
  row,       \* the row of auto_mint_jobs
  holder,    \* its unexpired lease token, or NoStart
  upserts,   \* writes of the row under way
  releases,  \* releases of a lease under way
  starts,    \* calls and the loops they became
  busy,      \* autoMintWorkers has the job
  timer,     \* autoMintRetryTimers has the job
  server,    \* "booting", "hydrated", "resumed" or "up"
  complete,  \* the attestation service has the attestation
  refused,   \* history: the job was last set by a refused claim
  lapses,    \* history: unanswered claims and leases that ran out
  unheard,   \* history: the database left a call without an answer
  troubles,
  leased     \* the database is configured; never changes

amVars == <<job, jobFile, row, holder, upserts, releases, starts, busy, timer, server,
            complete, refused, lapses, unheard, troubles, leased>>

Polling(o) == [status |-> "polling", owner |-> o, next |-> "none"]
Active(j) == j # NoJob /\ j.status \in {"polling", "ready"}

(* jobPayload, then jobFromRow: the row stores a timestamp.                  *)
Stored(j) == IF j = NoJob \/ j.next = "none" THEN j ELSE [j EXCEPT !.next = "date"]

(* Number("2026-...") is not a number, and no comparison with it holds. *)
RetryDue(j) == j.status = "retryable" /\ j.next # "date"

AutoMintInit ==
  /\ job = NoJob /\ jobFile = NoJob /\ row = NoJob /\ holder = NoStart
  /\ upserts = {} /\ releases = {}
  /\ starts = [c \in Starts |-> [stage |-> "new"]]
  /\ busy = FALSE /\ timer = FALSE /\ server = "up" /\ complete = FALSE
  /\ refused = FALSE /\ lapses = 0
  /\ unheard = FALSE /\ troubles = 0
  /\ leased \in LeaseModes

--------------------------------------------------------------------------------
(* persistAutoMintJobs: the file at once, the rows some time later. *)
Persist(j) ==
  /\ job' = j
  /\ jobFile' = j
  /\ upserts' = IF leased /\ j # NoJob THEN upserts \cup {Stored(j)} ELSE upserts

Move(c, rec) == starts' = [starts EXCEPT ![c] = rec]
Finished(c) == Move(c, [stage |-> "done"])
MayEnter(c) == starts[c].stage = "new"

MintTrouble == troubles < MaxTroubles /\ troubles' = troubles + 1
NoTrouble == UNCHANGED <<complete, unheard, troubles, leased>>
OnlyStart(c, rec) ==
  /\ Move(c, rec)
  /\ UNCHANGED <<job, jobFile, row, holder, upserts, releases, busy, timer, refused, lapses>>
  /\ NoTrouble

(* startAutoMintWorker up to the claim: it declines while the loop runs and  *)
(* throws for the job of another owner.                                     *)
MayClaimAnyOwner(o) == ~busy  \* a plausible slip: the owner is not compared
MayClaim(o) == ~busy /\ (job # NoJob => job.owner = o)

(* startAutoMintWorker after a claim: whatever the map holds by now. *)
BeginLoop(c, o) ==
  /\ Persist(Polling(o))
  /\ Move(c, [stage |-> "loop", polls |-> 0])
  /\ busy' = TRUE /\ timer' = FALSE /\ refused' = FALSE
  /\ UNCHANGED <<row, holder, releases, lapses>>

(* With no database the claim is granted at once. *)
StartWorker(c, o) ==
  \/ ~MayClaim(o) /\ OnlyStart(c, [stage |-> "done"])
  \/ MayClaim(o) /\ leased /\ OnlyStart(c, [stage |-> "claiming", owner |-> o])
  \/ MayClaim(o) /\ ~leased /\ BeginLoop(c, o) /\ NoTrouble

(* POST /api/auto-mint/register: the row is read before the map is looked at. *)
Register(c, o) ==
  /\ server = "up" /\ MayEnter(c)
  /\ OnlyStart(c, [stage |-> "reading", owner |-> o])
  /\ UNCHANGED server

RowRead(c) ==
  /\ starts[c].stage = "reading"
  /\ OnlyStart(c, [stage |-> "seen", owner |-> starts[c].owner,
                   seen |-> IF leased THEN row ELSE NoJob])
  /\ UNCHANGED server

RowUnread(c) ==
  /\ leased /\ starts[c].stage = "reading" /\ MintTrouble
  /\ Move(c, [stage |-> "seen", owner |-> starts[c].owner, seen |-> NoJob])
  /\ unheard' = TRUE
  /\ UNCHANGED <<job, jobFile, row, holder, upserts, releases, busy, timer, refused, lapses, server, complete, leased>>

RegisterSeen(c) ==
  /\ starts[c].stage = "seen"
  /\ LET o == starts[c].owner
         existing == IF starts[c].seen # NoJob THEN starts[c].seen ELSE job
     IN  IF existing # NoJob /\ (existing.owner # o \/ Active(existing))
         THEN OnlyStart(c, [stage |-> "done"])
         ELSE StartWorker(c, o)
  /\ UNCHANGED server

(* wakeAutoMintFromWebhook, for the owner of the matched approval. *)
Wake(c, o) ==
  /\ server = "up" /\ MayEnter(c)
  /\ ~Active(job)
  /\ StartWorker(c, o)
  /\ UNCHANGED server

RetryTimerFires(c) ==
  /\ timer /\ MayEnter(c)
  /\ timer' = FALSE
  /\ IF RetryDue(job) /\ MayClaim(job.owner)
     THEN IF leased
          THEN /\ Move(c, [stage |-> "claiming", owner |-> job.owner])
               /\ UNCHANGED <<job, jobFile, upserts, busy, refused>>
          ELSE /\ Persist(Polling(job.owner))
               /\ Move(c, [stage |-> "loop", polls |-> 0])
               /\ busy' = TRUE /\ refused' = FALSE
     ELSE UNCHANGED <<job, jobFile, upserts, starts, busy, refused>>
  /\ UNCHANGED <<row, holder, releases, lapses, server>> /\ NoTrouble

--------------------------------------------------------------------------------
(* The lease. *)

LeaseFreeIgnoringHolder(c) == TRUE  \* a plausible slip: a running lease is handed over
LeaseFree(c) == holder \in {NoStart, c}

(* arcox_claim_auto_mint_job under its row lock. *)
ClaimLease(c) ==
  /\ starts[c].stage = "claiming"
  /\ LET o == starts[c].owner IN
     \/ /\ row = NoJob
        /\ row' = Polling(o) /\ holder' = c
        /\ Move(c, [stage |-> "granted", owner |-> o])
     \/ /\ row # NoJob /\ row.owner = o /\ LeaseFree(c)
        /\ holder' = c
        /\ UNCHANGED row
        /\ Move(c, [stage |-> "granted", owner |-> o])
     \/ /\ row # NoJob /\ (row.owner # o \/ ~LeaseFree(c))
        /\ UNCHANGED <<row, holder>>
        /\ Move(c, [stage |-> "refused", answer |-> row])
  /\ UNCHANGED <<job, jobFile, upserts, releases, busy, timer, server, refused, lapses>>
  /\ NoTrouble

(* A call that fails, landed or not, counts as granted. *)
ClaimUnanswered(c) ==
  /\ starts[c].stage = "claiming" /\ MintTrouble
  /\ unheard' = TRUE /\ lapses' = lapses + 1
  /\ Move(c, [stage |-> "granted", owner |-> starts[c].owner])
  /\ UNCHANGED <<job, jobFile, row, holder, upserts, releases, busy, timer, server, refused, complete, leased>>

Granted(c) ==
  /\ starts[c].stage = "granted"
  /\ BeginLoop(c, starts[c].owner)
  /\ UNCHANGED server /\ NoTrouble

(* The job as the row had it replaces the one of the map. *)
Refused(c) ==
  /\ starts[c].stage = "refused"
  /\ Persist(starts[c].answer) /\ refused' = TRUE
  /\ Finished(c)
  /\ UNCHANGED <<row, holder, releases, busy, timer, server, lapses>>
  /\ NoTrouble

(* 180 seconds pass; nothing renews a lease. *)
MintLeaseExpires ==
  /\ holder # NoStart /\ MintTrouble
  /\ holder' = NoStart
  /\ lapses' = lapses + 1
  /\ UNCHANGED <<job, jobFile, row, upserts, releases, starts, busy, timer, server, complete,
                 refused, unheard, leased>>

ReleaseLands(c) ==
  /\ c \in releases
  /\ releases' = releases \ {c}
  /\ holder' = IF holder = c THEN NoStart ELSE holder
  /\ UNCHANGED <<job, jobFile, row, upserts, starts, busy, timer, server, refused, lapses>>
  /\ NoTrouble

(* upsertAutoMintJob leaves the lease alone. *)
UpsertLands(j) ==
  /\ j \in upserts
  /\ upserts' = upserts \ {j}
  /\ row' = j
  /\ UNCHANGED <<job, jobFile, holder, releases, starts, busy, timer, server, refused, lapses>>
  /\ NoTrouble

WriteLost ==
  /\ MintTrouble
  /\ \/ \E j \in upserts : upserts' = upserts \ {j} /\ UNCHANGED releases
     \/ \E c \in releases : releases' = releases \ {c} /\ UNCHANGED upserts
  /\ UNCHANGED <<job, jobFile, row, holder, starts, busy, timer, server, refused, lapses,
                 complete, unheard, leased>>

--------------------------------------------------------------------------------
(* The loop. *)

(* checkAttestation: the status of the burn at Iris. *)
Attested ==
  /\ ~complete
  /\ complete' = TRUE
  /\ UNCHANGED <<job, jobFile, row, holder, upserts, releases, starts, busy, timer, server,
                 refused, lapses, unheard, troubles, leased>>

(* The job is read before the attestation is awaited. *)
PollBegin(c) ==
  /\ starts[c].stage = "loop" /\ starts[c].polls < MaxPolls
  /\ OnlyStart(c, [stage |-> "polling", polls |-> starts[c].polls, current |-> job])
  /\ UNCHANGED server

(* finally: the worker leaves the set and its lease. *)
LeaveLoop(c) ==
  /\ Finished(c)
  /\ busy' = FALSE
  /\ releases' = IF leased THEN releases \cup {c} ELSE releases

LoopUnchanged ==
  /\ UNCHANGED <<row, holder, server, refused, lapses>>
  /\ NoTrouble

(* What was read before the wait, with the new status, is the job. *)
PollFinds(c) ==
  /\ starts[c].stage = "polling" /\ complete
  /\ Persist([starts[c].current EXCEPT !.status = "ready"])
  /\ LeaveLoop(c)
  /\ UNCHANGED timer /\ LoopUnchanged

(* Not attested yet, or no usable answer; every tenth time it is persisted. *)
PollNothing(c) ==
  /\ starts[c].stage = "polling"
  /\ IF starts[c].polls = 0 THEN Persist(starts[c].current)
     ELSE job' = starts[c].current /\ UNCHANGED <<jobFile, upserts>>
  /\ Move(c, [stage |-> "loop", polls |-> starts[c].polls + 1])
  /\ UNCHANGED <<releases, busy, timer>> /\ LoopUnchanged

SetsTimerNever == FALSE  \* a plausible slip: no retry is scheduled
SetsTimer == TRUE

(* markAutoMintRetryable and scheduleAutoMintRetry. *)
LoopExhausted(c) ==
  /\ starts[c].stage = "loop" /\ starts[c].polls = MaxPolls
  /\ IF job.status = "polling"
     THEN /\ Persist([job EXCEPT !.status = "retryable", !.next = "number"])
          /\ timer' = SetsTimer
     ELSE UNCHANGED <<job, jobFile, upserts, timer>>
  /\ LeaveLoop(c)
  /\ LoopUnchanged

--------------------------------------------------------------------------------
(* The process. *)

MintCrash ==
  /\ MintTrouble
  /\ server' = "booting"
  /\ job' = NoJob /\ busy' = FALSE /\ timer' = FALSE /\ refused' = FALSE
  /\ starts' = [c \in Starts |-> IF MayEnter(c) THEN starts[c] ELSE [stage |-> "done"]]
  /\ upserts' \in SUBSET upserts
  /\ releases' \in SUBSET releases
  /\ UNCHANGED <<jobFile, row, holder, complete, lapses, unheard, leased>>

(* hydrateAutoMintJobs: the row wins over the file; a job that only the file *)
(* has is copied.                                                           *)
Hydrate ==
  /\ server = "booting" /\ server' = "hydrated"
  /\ \/ /\ leased /\ row # NoJob
        /\ job' = row /\ UNCHANGED <<row, unheard, troubles>>
     \/ /\ row = NoJob \/ ~leased
        /\ job' = jobFile
        /\ row' = IF leased THEN Stored(jobFile) ELSE row
        /\ UNCHANGED <<unheard, troubles>>
     \/ /\ leased /\ MintTrouble /\ unheard' = TRUE
        /\ job' = jobFile /\ UNCHANGED row
  /\ UNCHANGED <<jobFile, holder, upserts, releases, starts, busy, timer, refused, lapses, complete, leased>>

ResumedStatusesOnlyRetryable == {"retryable"}  \* a plausible slip: a polling job is left alone
ResumedStatuses == {"polling", "retryable"}
Resumable == job # NoJob /\ job.status \in ResumedStatuses

(* The loop over the jobs at the end of the module. *)
Resume(c) ==
  /\ server = "hydrated" /\ server' = "resumed"
  /\ \/ /\ Resumable /\ job.status = "polling"
        /\ MayEnter(c)
        /\ StartWorker(c, job.owner)
     \/ /\ Resumable /\ job.status = "retryable"
        /\ Persist(job) /\ timer' = TRUE
        /\ UNCHANGED <<row, holder, releases, starts, busy, refused, lapses>>
        /\ NoTrouble
     \/ /\ ~Resumable
        /\ UNCHANGED <<job, jobFile, row, holder, upserts, releases, starts, busy, timer,
                       refused, lapses>>
        /\ NoTrouble

(* The port is bound after the resumed claim has its answer. *)
Listen ==
  /\ server = "resumed" /\ server' = "up"
  /\ \A c \in Starts : starts[c].stage \in {"new", "done", "loop", "polling"}
  /\ UNCHANGED <<job, jobFile, row, holder, upserts, releases, starts, busy, timer, refused,
                 lapses>>
  /\ NoTrouble

AutoMintNext ==
  \/ \E c \in Starts :
       \/ \E o \in BurnOwners : Register(c, o) \/ Wake(c, o)
       \/ RowRead(c) \/ RowUnread(c) \/ RegisterSeen(c) \/ RetryTimerFires(c)
       \/ ClaimLease(c) \/ ClaimUnanswered(c) \/ Granted(c) \/ Refused(c)
       \/ ReleaseLands(c) \/ PollBegin(c) \/ PollFinds(c) \/ PollNothing(c)
       \/ LoopExhausted(c) \/ Resume(c)
  \/ \E j \in upserts : UpsertLands(j)
  \/ MintLeaseExpires \/ WriteLost \/ Attested \/ MintCrash \/ Hydrate \/ Listen

AutoMintSpec == AutoMintInit /\ [][AutoMintNext]_amVars

--------------------------------------------------------------------------------
StartRecord ==
       [stage : {"new", "done"}]
  \cup [stage : {"reading", "claiming", "granted"}, owner : BurnOwners]
  \cup [stage : {"seen"}, owner : BurnOwners, seen : Job \cup {NoJob}]
  \cup [stage : {"refused"}, answer : Job]
  \cup [stage : {"loop"}, polls : 0 .. MaxPolls]
  \cup [stage : {"polling"}, polls : 0 .. MaxPolls - 1, current : Job]

(* Type invariant of the map, the file, the row and the calls. *)
AutoMintTypeOK ==
  /\ job \in Job \cup {NoJob} /\ jobFile \in Job \cup {NoJob} /\ row \in Job \cup {NoJob}
  /\ holder \in Starts \cup {NoStart}
  /\ upserts \subseteq Job /\ releases \subseteq Starts
  /\ starts \in [Starts -> StartRecord]
  /\ busy \in BOOLEAN /\ timer \in BOOLEAN /\ complete \in BOOLEAN
  /\ refused \in BOOLEAN /\ leased \in BOOLEAN
  /\ server \in {"booting", "hydrated", "resumed", "up"}
  /\ unheard \in BOOLEAN
  /\ lapses \in 0 .. troubles /\ troubles \in 0 .. MaxTroubles

Loops == {c \in Starts : starts[c].stage \in {"loop", "polling"}}
Claiming == {c \in Starts : starts[c].stage \in {"claiming", "granted", "refused"}}

(* The lease keeps one worker on a burn (server.mjs:2951, the 180 seconds    *)
(* against up to 200 polls, and the availability fallback of the claim):     *)
(* two loops run only after a lease ran out or a claim went unanswered.      *)
OneLoop == Cardinality(Loops) <= 1 + lapses

(* register answers "Job already exists" for a job that shows polling        *)
(* (server.mjs:3043), so somebody must be polling it: a loop, a call that    *)
(* has a claim under way, or - the one gap - a refused claim brought the     *)
(* status from the row of a worker that may be gone.                         *)
NoSilentPolling ==
  (server = "up" /\ job # NoJob /\ job.status = "polling") =>
    Loops # {} \/ Claiming # {} \/ refused

(* A job that waits for its retry has a timer or a call that retries it,     *)
(* unless its date came from the row, where autoMintRetryDue never holds, a  *)
(* claim was refused, or two loops of a lapsed lease crossed.                *)
RetryScheduled ==
  (server = "up" /\ job # NoJob /\ job.status = "retryable" /\ lapses = 0) =>
    timer \/ Loops # {} \/ Claiming # {} \/ refused \/ job.next = "date"

(* "polling and retryable jobs are safe to resume" (server.mjs:3617): a      *)
(* retryable job is taken up again after a restart without faults.           *)
RetryableIsResumed ==
  (server = "up" /\ job # NoJob /\ job.status = "retryable") =>
    timer \/ Loops # {} \/ Claiming # {} \/ refused

(* A burn belongs to the wallet that registered it first (server.mjs:2948):  *)
(* two registrations race past the check of the map, and only a claim or a   *)
(* read that the database did not answer lets the second one take the job.   *)
BurnOwnerKept ==
  [][job # NoJob /\ job' # NoJob => job'.owner = job.owner \/ unheard]_amVars
================================================================================
