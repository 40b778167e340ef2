------------------------------ MODULE MCX402Access ------------------------------
(* The invoices and the access to what they pay for, for TLC.  X402Pay looks at *)
(* invoices only as X402Invoice lets them be seen, and shares no state with it, *)
(* so that a behaviour moves one of them, chosen at the start.                  *)
EXTENDS MCX402Invoice, X402Pay

CONSTANTS u1, w1, w2, r1, r2

OneUser == {u1}
TwoPayers == {w1, w2}
TwoResources == {r1, r2}
AccessSymmetry == Symmetry \cup Permutations(TwoPayers) \cup Permutations(TwoResources)

VARIABLE accessPart
accessVars == <<vars, x402PayVars, accessPart>>

AccessInit ==
  /\ Init /\ X402PayInit
  /\ accessPart \in {"store", "access"}
  /\ accessPart = "store" => payer = [u \in Users |-> NoPayer]

AccessNext ==
  /\ UNCHANGED accessPart
  /\ \/ accessPart = "store" /\ Next /\ UNCHANGED x402PayVars
     \/ accessPart = "access" /\ X402PayNext /\ UNCHANGED vars

AccessSpec == AccessInit /\ [][AccessNext]_accessVars
================================================================================
