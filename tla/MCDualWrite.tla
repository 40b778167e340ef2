------------------------------- MODULE MCDualWrite -------------------------------
(* The dual write for TLC: the x402 invoice of DualWrite, whose reader puts what *)
(* it reads into the map, and the records of RecordReads.  The two share no      *)
(* state, so that a behaviour moves one of them, chosen at the start; the upsert *)
(* that the x402 invoice starts with lands in both.                              *)
EXTENDS DualWrite, RecordReads

CONSTANTS c1, c2, r1, r2, WriteParts

TwoChanges == {c1, c2}
OnlyC1 == {c1}
OneReader == {r1}
TwoReaders == {r1, r2}
EveryKind == AllKinds
OneKind == {"activity"}

VARIABLE writePart
writeVars == <<vars, recordVars, writePart>>

WriteInit ==
  /\ Init /\ RecordReadsInit /\ writePart \in WriteParts
  /\ writePart = "x402" => kind = "activity"

Drains == UpsertLands \/ UpsertAnswered \/ UpsertFails \/ DrainEnds

WriteNext ==
  /\ UNCHANGED writePart
  /\ \/ writePart = "x402" /\ Next /\ UNCHANGED recordVars
     \/ writePart = "records" /\ Drains /\ failed' = 0 /\ UNCHANGED recordVars
     \/ writePart = "records" /\ drain = NoDrain /\ RecordReadsNext /\ UNCHANGED vars

WriteSpec == WriteInit /\ [][WriteNext]_writeVars

(* A request to the database is answered and the event loop keeps running.       *)
WriteFairSpec ==
  /\ WriteSpec
  /\ WF_writeVars(Drains /\ WriteNext)
=================================================================================
