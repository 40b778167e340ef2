------------------------------- MODULE RecordReads -------------------------------
(***************************************************************************)
(* The other records that supabasePersistence.mjs keeps beside the server's *)
(* own files: every write of a record is local first and then queued for    *)
(* its row (one queue per record, as in DualWrite), and a reader is given   *)
(* its local list as it was before the database was asked.  Each kind of    *)
(* record has its own rule for which of the two it shows.                   *)
(*                                                                          *)
(* One owner and one client that reads again and again; the read-primary    *)
(* switches are on.  A record's content is its version.                     *)
(***************************************************************************)
EXTENDS Naturals, FiniteSets, FiniteSetsExt

CONSTANTS
  Kinds,          \* the kinds of record checked
  MaxIds,         \* bound: records made
  MaxAlters,      \* bound: changes of the records of a list; a record that is
                  \* alone of its kind is changed MaxIds times
  LocalCap,       \* records that a capped local list keeps
  ReadLimit,      \* records that a list is cut to
  RecordFaults,   \* bound: upserts that fail, restarts, files lost
  NoRec

AllKinds == {"history", "invoice", "usage", "audit", "activity", "approvals", "cards",
             "transactions", "session", "webhook"}
RecordReadsAssumption ==
  /\ Kinds \subseteq AllKinds /\ Kinds # {}
  /\ {MaxIds, LocalCap, ReadLimit} \subseteq Nat \ {0}
  /\ {MaxAlters, RecordFaults} \subseteq Nat
ASSUME RecordReadsAssumption

(* The activity file keeps 500 entries (vaultStore.mjs:153) and a read shows 5  *)
(* (vaultRoutes.mjs:154); those of other owners, which share the file, are      *)
(* left out.                                                                  *)
ASSUME CapAssumption == ReadLimit <= LocalCap

VARIABLES
  kind,      \* the kind of record of this behaviour
  local,     \* the records of the server's own file or list
  made,      \* the number of records made
  rows,      \* the database
  waiting,   \* pendingOperations of each record
  inflight,  \* the upsert each drain waits for
  asked,     \* the local list a read started with
  reading,   \* a read waits for the database
  told,      \* history: what the last read answered, and from where
  ticks,     \* one clock for server and database, moved where it is read
  alters, lapses

recordVars == <<kind, local, made, rows, waiting, inflight, asked, reading, told, ticks,
                alters, lapses>>

Ids == 1 .. MaxIds
(* key: the time that lists and queries are ordered by.                       *)
Rec == [id : Ids, ver : Nat, key : Nat, active : BOOLEAN, events : Nat]
ASSUME NoRecAssumption == NoRec \notin Rec

Shown == [id : Ids, ver : Nat, active : BOOLEAN, events : Nat]
Sources == {"none", "local", "rows", "merged"}
Untold == [source |-> "none", recs |-> {}, had |-> {}]

Single == {"invoice", "session", "webhook"}
Altered == {"history", "invoice", "approvals", "cards", "transactions", "session",
            "webhook"}
Merging == {"activity", "approvals", "cards", "transactions", "session"}

RecordReadsInit ==
  /\ kind \in Kinds
  /\ local = {} /\ made = 0
  /\ rows = [i \in Ids |-> NoRec]
  /\ waiting = [i \in Ids |-> NoRec] /\ inflight = [i \in Ids |-> NoRec]
  /\ asked = {} /\ reading = FALSE /\ told = Untold
  /\ ticks = 1 /\ alters = 0 /\ lapses = 0

--------------------------------------------------------------------------------
(* Lists: the n records of S with the greatest, or the smallest, key. *)
Newest(S, n) == {r \in S : Cardinality({s \in S : s.key > r.key}) < n}
Oldest(S, n) == {r \in S : Cardinality({s \in S : s.key < r.key}) < n}

(* The stores that drop their oldest records. *)
Kept(recs) ==
  IF kind \in {"history", "usage", "activity", "audit"}
  THEN Newest(recs, LocalCap) ELSE recs

(* queueWrite for every record of S: the newest waits for the one in flight.  *)
Queue(S) ==
  LET Of(i) == CHOOSE r \in S : r.id = i
      Queued == {r.id : r \in S} IN
  /\ inflight' = [i \in Ids |-> IF i \in Queued /\ inflight[i] = NoRec THEN Of(i)
                                ELSE inflight[i]]
  /\ waiting' = [i \in Ids |-> IF i \in Queued /\ inflight[i] # NoRec THEN Of(i)
                               ELSE waiting[i]]

(* A save of the cards, or of the session store, queues all that it holds.    *)
SavesAll == kind \in {"cards", "transactions", "session"}

Make ==
  /\ made < (IF kind \in Single THEN 1 ELSE MaxIds)
  /\ LET r == [id |-> made + 1, ver |-> 1, key |-> ticks, active |-> FALSE, events |-> 1] IN
       /\ local' = Kept(local \cup {r})
       /\ Queue(IF SavesAll THEN local' ELSE {r})
  /\ made' = made + 1 /\ ticks' = ticks + 1
  /\ UNCHANGED <<kind, rows, asked, reading, told, alters, lapses>>

Edited(r, key, active) ==
  [id |-> r.id, ver |-> r.ver + 1, key |-> key, active |-> active, events |-> r.events + 1]

(* A record is changed and saved.  An approval is ordered by updatedAt, which  *)
(* a decision leaves (approveRequest, rejectRequest) and an update sets; the   *)
(* others are ordered by the time they were made.  A session is switched.      *)
Alter(r) ==
  /\ kind \in Altered /\ alters < (IF kind \in Single THEN MaxIds ELSE MaxAlters)
  /\ \E key \in (IF kind = "approvals" THEN {r.key, ticks} ELSE {r.key}),
        active \in (IF kind = "session" THEN BOOLEAN ELSE {r.active}) :
       /\ local' = (local \ {r}) \cup {Edited(r, key, active)}
       /\ Queue(IF SavesAll THEN local' ELSE {Edited(r, key, active)})
       /\ ticks' = IF key = ticks THEN ticks + 1 ELSE ticks
  /\ alters' = alters + 1
  /\ UNCHANGED <<kind, made, rows, asked, reading, told, lapses>>

--------------------------------------------------------------------------------
(* The rows: what each upsert stores, given the row it finds.                 *)

(* The time a record was made goes with it: occurred_at or created_at.        *)
PlainRow(r) == r
(* The row and then the events of the time line, which may fail alone.        *)
InvoiceRow(r, old, whole) ==
  [r EXCEPT !.events = IF whole THEN r.events ELSE IF old = NoRec THEN 0 ELSE old.events]
(* No created_at is sent: it is the time of the first insert.                 *)
UsageRow(r, old) == [r EXCEPT !.key = IF old = NoRec THEN ticks ELSE old.key]
(* updated_at is the record's own at the first insert, then the trigger's.    *)
ApprovalRow(r, old) == IF old = NoRec THEN r ELSE [r EXCEPT !.key = ticks]

RowOf(r, old, whole) ==
  CASE kind = "invoice" -> InvoiceRow(r, old, whole)
    [] kind = "usage" -> UsageRow(r, old)
    [] kind = "approvals" -> ApprovalRow(r, old)
    [] OTHER -> PlainRow(r)

Drained(i) ==
  /\ inflight' = [inflight EXCEPT ![i] = waiting[i]]
  /\ waiting' = [waiting EXCEPT ![i] = NoRec]
Lapse == lapses < RecordFaults /\ lapses' = lapses + 1

RowLands(i) ==
  /\ inflight[i] # NoRec
  /\ \/ rows' = [rows EXCEPT ![i] = RowOf(inflight[i], @, TRUE)] /\ UNCHANGED lapses
     \/ kind = "invoice" /\ Lapse
        /\ rows' = [rows EXCEPT ![i] = RowOf(inflight[i], @, FALSE)]
  /\ Drained(i)
  /\ ticks' = IF kind \in {"usage", "approvals"} THEN ticks + 1 ELSE ticks
  /\ UNCHANGED <<kind, local, made, asked, reading, told, alters>>

RowFails(i) ==
  /\ inflight[i] # NoRec /\ Lapse /\ Drained(i)
  /\ UNCHANGED <<kind, local, made, rows, asked, reading, told, ticks, alters>>

--------------------------------------------------------------------------------
(* The readers. *)

(* The local list a reader is given, cut to its limit.  The vault lists the    *)
(* approvals oldest first, and the reader keeps the front of the list.         *)
LocalList ==
  IF kind = "approvals" THEN Oldest(local, ReadLimit) ELSE Newest(local, ReadLimit)

ReadAsks ==
  /\ ~reading /\ made > 0
  /\ reading' = TRUE /\ asked' = LocalList
  /\ UNCHANGED <<kind, local, made, rows, waiting, inflight, told, ticks, alters, lapses>>

(* The rows a query answers, ordered by the column the query names. *)
Stored == {rows[i] : i \in Ids} \ {NoRec}
Queried == Newest(Stored, ReadLimit)

Unread(recs) == [source |-> "local", recs |-> recs]
FromRows(recs) == [source |-> "rows", recs |-> recs]
Merged(recs) == [source |-> "merged", recs |-> recs]
OverriddenByRows(own, found) ==  \* mutant: the rows are put over the local list
  found \cup {r \in own : \A s \in found : s.id # r.id}
Overridden(own, found) ==
  own \cup {r \in found : \A s \in own : s.id # r.id}

HistoryAnswer(own, found) == FromRows(found)
InvoiceAnswer(own, found) == IF found = {} THEN Unread(own) ELSE FromRows(found)
UsageAnswer(own, found) == IF found = {} THEN Unread(own) ELSE FromRows(found)
AuditAnswer(own, found) == IF found = {} THEN Unread(own) ELSE FromRows(found)
ActivityAnswer(own, found) == Merged(Newest(Overridden(own, found), ReadLimit))
ApprovalsAnswer(own, found) == Merged(Newest(Overridden(own, found), ReadLimit))
CardsAnswer(own, found) == Merged(Newest(Overridden(own, found), ReadLimit))
CardTransactionsAnswer(own, found) ==
  Merged(Newest(Overridden(own, found), ReadLimit))
(* A row without a local record is shown, and never as active. *)
RecoveryView(found) == {[r EXCEPT !.active = FALSE] : r \in found}
SessionAnswer(own, found) ==
  IF found = {} THEN Unread(own)
  ELSE Merged(IF own = {} THEN RecoveryView(found) ELSE Overridden(own, found))
(* Compared and counted, never used; it waits for the queues to drain. *)
WebhookAnswer(own, found) == Unread(own)

AnswerFrom(own, found) ==
  CASE kind = "history" -> HistoryAnswer(own, found)
    [] kind = "invoice" -> InvoiceAnswer(own, found)
    [] kind = "usage" -> UsageAnswer(own, found)
    [] kind = "audit" -> AuditAnswer(own, found)
    [] kind = "activity" -> ActivityAnswer(own, found)
    [] kind = "approvals" -> ApprovalsAnswer(own, found)
    [] kind = "cards" -> CardsAnswer(own, found)
    [] kind = "transactions" -> CardTransactionsAnswer(own, found)
    [] kind = "session" -> SessionAnswer(own, found)
    [] kind = "webhook" -> WebhookAnswer(own, found)

Tells(answer) == told' = [source |-> answer.source,
                           recs |-> {[id |-> r.id, ver |-> r.ver, active |-> r.active,
                                      events |-> r.events] : r \in answer.recs},
                           had |-> IF kind = "session" THEN asked ELSE {}]

ReadAnswers ==
  /\ reading
  /\ kind = "webhook" => \A i \in Ids : inflight[i] = NoRec
  /\ Tells(AnswerFrom(asked, Queried)) \/ Tells(Unread(asked))  \* or the query fails
  /\ reading' = FALSE /\ asked' = {}
  /\ UNCHANGED <<kind, local, made, rows, waiting, inflight, ticks, alters, lapses>>

--------------------------------------------------------------------------------
(* The process ends: the queues, the reads and the refund log are in memory.  *)
ServerRestarts ==
  /\ Lapse
  /\ waiting' = [i \in Ids |-> NoRec] /\ inflight' = [i \in Ids |-> NoRec]
  /\ reading' = FALSE /\ asked' = {}
  /\ local' = IF kind = "audit" THEN {} ELSE local
  /\ UNCHANGED <<kind, made, rows, told, ticks, alters>>

(* It starts without its files: the rows are what is left. *)
FilesLost ==
  /\ Lapse
  /\ waiting' = [i \in Ids |-> NoRec] /\ inflight' = [i \in Ids |-> NoRec]
  /\ reading' = FALSE /\ asked' = {} /\ local' = {} /\ told' = Untold
  /\ UNCHANGED <<kind, made, rows, ticks, alters>>

RecordReadsNext ==
  \/ Make \/ (\E r \in local : Alter(r))
  \/ \E i \in Ids : RowLands(i) \/ RowFails(i)
  \/ ReadAsks \/ ReadAnswers \/ ServerRestarts \/ FilesLost

RecordReadsSpec == RecordReadsInit /\ [][RecordReadsNext]_recordVars

--------------------------------------------------------------------------------
RecordReadsTypeOK ==
  /\ kind \in Kinds /\ made \in 0 .. MaxIds /\ reading \in BOOLEAN
  /\ local \cup asked \cup told.had \subseteq Rec
  /\ told.recs \subseteq Shown /\ told.source \in Sources
  /\ \A i \in Ids : {rows[i], waiting[i], inflight[i]} \subseteq Rec \cup {NoRec}
  /\ alters \in 0 .. MaxAlters + MaxIds /\ lapses \in 0 .. RecordFaults

(* No record of the earlier answer is older, or gone without need, in the     *)
(* later one.                                                                 *)
NotBehind(earlier, later) ==
  \A r \in earlier :
    \/ Cardinality(later) >= ReadLimit /\ \A s \in later : s.id # r.id
    \/ \E s \in later : s.id = r.id /\ s.ver >= r.ver /\ s.events >= r.events

(* Local state is the synchronous execution authority                         *)
(* (supabasePersistence.mjs:1061, server.mjs:463): a client that reads twice  *)
(* is not taken back by a row whose upsert waits, fails or is lost in a       *)
(* restart, whether the answers merge the two stores or are both of the rows; *)
(* and a session is shown as active only if the local record was.  An owner   *)
(* with more approvals than the limit is left out: the reader keeps the       *)
(* oldest of the local list, so that the newer ones are shown as their rows.  *)
AnswersKeepUp ==
  [][told' # told =>
       /\ (told'.source = told.source /\ told.source \in {"rows", "merged"}
           /\ (kind = "approvals" => Cardinality(local) <= ReadLimit)) =>
            NotBehind(told.recs, told'.recs)
       /\ kind = "session" =>
            \A r \in told'.recs : r.active => \E s \in told'.had : s.active]_recordVars
================================================================================
