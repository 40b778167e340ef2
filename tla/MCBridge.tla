-------------------------------- MODULE MCBridge --------------------------------
(* The bridge for TLC: the auto-mint worker of server.mjs, and the source and  *)
(* the destination half of the MCP server's bridge.  The three share no state, *)
(* so that a behaviour moves one of them, chosen at the start.                 *)
EXTENDS AutoMint, BridgeSource, BridgeMint, TLC

CONSTANTS c1, c2, c3, o1, o2, q1, q2, s1

ThreeCalls == {c1, c2, c3}
TwoOwners == {o1, o2}
TwoPreviews == {q1, q2}
OnePoller == {s1}
Symmetry == Permutations(ThreeCalls) \cup Permutations(TwoOwners) \cup Permutations(TwoPreviews)

VARIABLE bridgePart
bridgeVars == <<amVars, sourceVars, mintVars, bridgePart>>

BridgeInit ==
  /\ AutoMintInit /\ BridgeSourceInit /\ BridgeMintInit
  /\ bridgePart \in {"auto-mint", "source", "destination"}
  /\ bridgePart # "auto-mint" => leased

BridgeNext ==
  /\ UNCHANGED bridgePart
  /\ \/ bridgePart = "auto-mint" /\ AutoMintNext /\ UNCHANGED <<sourceVars, mintVars>>
     \/ bridgePart = "source" /\ BridgeSourceNext /\ UNCHANGED <<amVars, mintVars>>
     \/ bridgePart = "destination" /\ BridgeMintNext /\ UNCHANGED <<amVars, sourceVars>>

BridgeSpec == BridgeInit /\ [][BridgeNext]_bridgeVars

(* The type invariants of the three. *)
BridgeTypeOK == AutoMintTypeOK /\ BridgeSourceTypeOK /\ BridgeMintTypeOK
=================================================================================
