------------------------------- MODULE MCAccounts -------------------------------
(* What acts on a wallet owner's account, for TLC: the AI Router, the session  *)
(* keys, the MCP server's grants and the locked files.  They share no state    *)
(* here, so that a behaviour moves one of them, chosen at the start.  A lock    *)
(* that was excused excuses every later state: it is not followed further.     *)
EXTENDS AiRouter, SessionKeys, McpAccess, FileLock, TLC

CONSTANTS c1, c2, c3, w1, w2, i1, u1

ThreeCalls == {c1, c2, c3}
TwoWallets == {w1, w2}
OneOwner == {w1}
OneWriter == {u1}
OneIdem == {i1}
SameOwner == [k \in 1 .. 2 |-> w1]

VARIABLE accountPart
accountVars == <<aiVars, skVars, accessVars, lockVars, accountPart>>

AccountInit ==
  /\ AiRouterInit /\ SessionKeysInit /\ AccessInit /\ FileLockInit
  /\ accountPart \in {"router", "keys", "access", "lock"}
  /\ accountPart # "lock" => byMtime

AccountNext ==
  /\ UNCHANGED accountPart
  /\ \/ /\ accountPart = "router" /\ AiRouterNext
        /\ UNCHANGED <<skVars, accessVars, lockVars>>
     \/ /\ accountPart = "keys" /\ SessionKeysNext
        /\ UNCHANGED <<aiVars, accessVars, lockVars>>
     \/ /\ accountPart = "access" /\ AccessNext
        /\ UNCHANGED <<aiVars, skVars, lockVars>>
     \/ /\ accountPart = "lock" /\ ~excused /\ FileLockNext
        /\ UNCHANGED <<aiVars, skVars, accessVars>>

AccountSpec == AccountInit /\ [][AccountNext]_accountVars

(* The type invariants of the four. *)
AccountTypeOK ==
  /\ AiRouterTypeOK /\ SessionKeysTypeOK /\ AccessTypeOK /\ FileLockTypeOK
=================================================================================
