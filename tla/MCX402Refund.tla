------------------------------ MODULE MCX402Refund ------------------------------
(* Instances of X402Refund for TLC. *)
EXTENDS X402Refund, TLC

CONSTANTS i1, i2, alice, http, tool, sweep, sweep2, manual

OneInvoice == {i1}
TwoInvoices == {i1, i2}
OneOwner == {alice}
AllOfAlice == [i \in Invoices |-> alice]
Nobody == {}
Http == {http}
Tool == {tool}
OneSweep == {sweep}
TwoSweeps == {sweep, sweep2}
Manual == {manual}
ExactSpends == {}
LateFaults == {"throw", "no_hash"}
OnlyI2 == {i2}

Symmetry == Permutations(Invoices) \cup Permutations(Sweeps)
SweepSymmetry == Permutations(Sweeps)
================================================================================
