------------------------------ MODULE FileLock ------------------------------
(***************************************************************************)
(* The JSON files several Node processes write, and the directory that is  *)
(* their lock: vault.json (withVaultLock of vaultStore.mjs) and, in the    *)
(* second form, session-keys.json, the webhook events and the OAuth state  *)
(* (withSessionStoreLock, withWebhookDbLock, withOAuthStateLock).          *)
(*                                                                         *)
(* mkdir takes the lock; the owner's token is written into it afterwards.  *)
(* A lock older than the limit is removed by whoever waits, after a look   *)
(* that the removal does not repeat.  Some writers of the same files never *)
(* take the lock.                                                          *)
(***************************************************************************)
EXTENDS Naturals, FiniteSets

CONSTANTS
  LockedWriters, \* calls that read, change and write the file under the lock
  PlainWriters,  \* calls that do so without it (setLimits, createApproval ...)
  NoWriter,
  LockCrashes    \* bound: processes that die inside a call

FileLockAssumption ==
  LockedWriters \cap PlainWriters = {} /\ NoWriter \notin LockedWriters /\ LockCrashes \in Nat
ASSUME FileLockAssumption

Writers == LockedWriters \cup PlainWriters

VARIABLES
  byMtime,   \* the form of the lock: the age of the directory is looked at too
  lock,      \* the directory: there or not, the token in it, past the limit
  writers,   \* where each call stands, what it read, whose lock it will remove
  file,      \* the calls whose change the file holds
  covered,   \* history: changes a call without the lock wrote over
  excused,   \* history: a lock was removed on a look that no longer held, or
             \* outlived the limit with its owner alive
  deaths

lockVars == <<byMtime, lock, writers, file, covered, excused, deaths>>

Lock == [there : BOOLEAN, owner : LockedWriters \cup {NoWriter}, aged : BOOLEAN]
Free == [there |-> FALSE, owner |-> NoWriter, aged |-> FALSE]
Stages == {"waits", "removes", "made", "holds", "read", "wrote", "leaves", "done", "dead"}
Inside == {"made", "holds", "read", "wrote", "leaves"}
At(w, s) == writers[w].at = s
Goes(w, s) == writers' = [writers EXCEPT ![w].at = s]

FileLockTypeOK ==
  /\ byMtime \in BOOLEAN /\ excused \in BOOLEAN /\ deaths \in 0 .. LockCrashes
  /\ lock \in Lock /\ (~lock.there => lock = Free)
  /\ writers \in [Writers -> [at : Stages, snap : SUBSET Writers,
                              saw : LockedWriters \cup {NoWriter}]]
  /\ file \subseteq Writers /\ covered \subseteq Writers

FileLockInit ==
  /\ byMtime \in BOOLEAN
  /\ lock = Free /\ file = {} /\ covered = {} /\ excused = FALSE /\ deaths = 0
  /\ writers = [w \in Writers |-> [at |-> IF w \in LockedWriters THEN "waits" ELSE "holds",
                                   snap |-> {}, saw |-> NoWriter]]

-----------------------------------------------------------------------------
(* Taking the lock *)

Mkdir(w) ==
  /\ At(w, "waits") /\ ~lock.there
  /\ lock' = [there |-> TRUE, owner |-> NoWriter, aged |-> FALSE]
  /\ Goes(w, "made")
  /\ UNCHANGED <<byMtime, file, covered, excused, deaths>>

(* atomicWriteJsonFile makes a directory that is gone again; writeFileSync     *)
(* throws, and with it the call.                                              *)
WriteOwner(w) ==
  /\ At(w, "made")
  /\ IF lock.there \/ ~byMtime
       THEN /\ lock' = [there |-> TRUE, owner |-> w, aged |-> FALSE]
            /\ Goes(w, "holds")
       ELSE Goes(w, "done") /\ UNCHANGED lock
  /\ UNCHANGED <<byMtime, file, covered, excused, deaths>>

(* More than the limit passes while the directory stands. *)
LockAges ==
  /\ lock.there /\ ~lock.aged
  /\ lock' = [lock EXCEPT !.aged = TRUE]
  /\ excused' = (excused \/ \E w \in LockedWriters : writers[w].at \in Inside)
  /\ UNCHANGED <<byMtime, writers, file, covered, deaths>>

(* A token is needed to see the age, but for the forms that look at mtime. *)
StaleAtAnyAge == lock.there /\ (lock.owner # NoWriter \/ byMtime)
Stale == StaleAtAnyAge /\ lock.aged

SeesStale(w) ==
  /\ At(w, "waits") /\ Stale
  /\ writers' = [writers EXCEPT ![w].at = "removes", ![w].saw = lock.owner]
  /\ UNCHANGED <<byMtime, lock, file, covered, excused, deaths>>

(* rmSync of whatever stands there now *)
StillAsSeen(w) ==
  lock.there => /\ lock.owner = writers[w].saw
                /\ lock.owner = NoWriter => lock.aged

RemovesLock(w) ==
  /\ lock' = Free
  /\ excused' = (excused \/ ~StillAsSeen(w))

RemovesStale(w) ==
  /\ At(w, "removes")
  /\ RemovesLock(w) /\ Goes(w, "waits")
  /\ UNCHANGED <<byMtime, file, covered, deaths>>

(* The deadline of the wait: "mutation lock timeout". *)
GivesUp(w) ==
  /\ At(w, "waits") /\ lock.there
  /\ Goes(w, "done")
  /\ UNCHANGED <<byMtime, lock, file, covered, excused, deaths>>

-----------------------------------------------------------------------------
(* The change: loadVault ... saveVault, one synchronous stretch of a process, *)
(* with other processes in between.                                           *)

Reads(w) ==
  /\ At(w, "holds")
  /\ writers' = [writers EXCEPT ![w].at = "read", ![w].snap = file]
  /\ UNCHANGED <<byMtime, lock, file, covered, excused, deaths>>

Writes(w) ==
  /\ At(w, "read")
  /\ file' = writers[w].snap \cup {w}
  /\ covered' = IF w \in PlainWriters THEN covered \cup (file \ writers[w].snap) ELSE covered
  /\ Goes(w, IF w \in PlainWriters THEN "done" ELSE "wrote")
  /\ UNCHANGED <<byMtime, lock, excused, deaths>>

(* finally: only the lock that still holds the own token is removed. *)
ReleasesAnyone(w) == lock.there
Releases(w) == lock.owner = w

Leaves(w) ==
  /\ At(w, "wrote")
  /\ IF Releases(w)
       THEN writers' = [writers EXCEPT ![w].at = "leaves", ![w].saw = lock.owner]
       ELSE Goes(w, "done")
  /\ UNCHANGED <<byMtime, lock, file, covered, excused, deaths>>

RemovesOwn(w) ==
  /\ At(w, "leaves")
  /\ RemovesLock(w) /\ Goes(w, "done")
  /\ UNCHANGED <<byMtime, file, covered, deaths>>

Dies(w) ==
  /\ deaths < LockCrashes /\ writers[w].at \in Inside
  /\ deaths' = deaths + 1
  /\ Goes(w, "dead")
  /\ UNCHANGED <<byMtime, lock, file, covered, excused>>

FileLockNext ==
  \/ LockAges
  \/ \E w \in LockedWriters :
       Mkdir(w) \/ WriteOwner(w) \/ SeesStale(w) \/ RemovesStale(w) \/ GivesUp(w)
         \/ Leaves(w) \/ RemovesOwn(w)
  \/ \E w \in Writers : Reads(w) \/ Writes(w) \/ Dies(w)

FileLockSpec == FileLockInit /\ [][FileLockNext]_lockVars

-----------------------------------------------------------------------------
(* What a call wrote under the lock is in the file until a call that takes no *)
(* lock writes over it, however calls wait, die and clear up after each       *)
(* other.  The two ways out are excused: a living owner that outlasts the     *)
(* limit, and a removal that comes after the lock it was meant for.           *)
LockedWritesSurvive ==
  excused \/ \A w \in LockedWriters :
               writers[w].at \in {"wrote", "leaves"} => w \in file \cup covered
=============================================================================
