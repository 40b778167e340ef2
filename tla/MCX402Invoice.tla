----------------------------- MODULE MCX402Invoice -----------------------------
(* Instances of X402Invoice for TLC. *)
EXTENDS X402Invoice, TLC

CONSTANTS i1, i2, alice, bob, p1, p2

MCInvoices == {i1, i2}
TwoWallets == {alice, bob}
OneWallet == {alice}
OneOwner == {alice}
TwoPollers == {p1, p2}
OnePoller == {p1}
OnePrice == {5}
DiskIsReliable == {TRUE}
DiskMayFail == {TRUE, FALSE}

(* Ids and requests are interchangeable. *)
Symmetry == Permutations(MCInvoices) \cup Permutations(TwoPollers)
================================================================================
