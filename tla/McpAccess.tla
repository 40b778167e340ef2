------------------------------- MODULE McpAccess -------------------------------
(***************************************************************************)
(* How an MCP client comes to act for one wallet owner (mcpServer.mjs):    *)
(* OAuth with a loopback redirect, the device flow, the tokens, and the    *)
(* wallet a tool call then moves.  The owner proves the EOA with a signed  *)
(* challenge and each Agent Wallet with a passkey session.                 *)
(*                                                                         *)
(* Every step on the state files runs under the lock of the OAuth state,   *)
(* but an approval waits for the signature and for the binding between its *)
(* look at the state and the grant.  A tool call runs in the server of its  *)
(* MCP session, whose identifier the client chooses and may use again with   *)
(* another token.                                                          *)
(***************************************************************************)
EXTENDS Naturals, FiniteSets

CONSTANTS
  Wallets, NoWallet,  \* Agent Wallets of the owner; no wallet selected
  MaxApprovals,       \* bound: runs of siweVerifyHandler and deviceApproveHandler
  MaxNonces,          \* bound: challenges the owner signs
  MaxCodes,           \* bound: authorization codes
  MaxFamilies,        \* bound: tokens, each with those refreshed from it
  MaxCalls,           \* bound: tool calls that move value
  AccessChanges       \* bound: session keys revoked, MCP sessions dropped and challenges,
                      \* codes and requests that expire, and denials, together

AccessAssumption ==
  /\ NoWallet \notin Wallets
  /\ {MaxNonces, MaxCodes, MaxFamilies, MaxApprovals, MaxCalls} \subseteq Nat \ {0} /\ AccessChanges \in Nat
ASSUME AccessAssumption

VARIABLES
  request,    \* the authorization request: "none", "open" or "expired"
  device,     \* the device grant
  challenges, \* siweChallenges
  codes,      \* authCodes; a redeemed code is kept as "used"
  approving,
  alias,      \* the wallet the owner's address is bound to in session-keys.json
  active,     \* wallets with an active session key
  families,   \* access and refresh tokens
  session,    \* the MCP session of one identifier: the wallet its server is bound to
  calls,
  answered,   \* history: approvals answered with a code
  changes

accessVars == <<request, device, challenges, codes, approving, alias, active, families,
                session, calls, answered, changes>>

(* Random names and runs, taken in the order they are made. *)
Nonces == 1 .. MaxNonces
Codes == 1 .. MaxCodes
Families == 1 .. MaxFamilies
Approvals == 1 .. MaxApprovals
Calls == 1 .. MaxCalls
Oldest(S) == {x \in S : \A y \in S : x <= y}

Selections == Wallets \cup {NoWallet}
Flows == {"loopback", "device"}
DeviceGrant == [status : {"none", "pending", "approved", "denied", "expired"},
                wallet : Selections, nonce : Nonces, consumed : BOOLEAN]
Challenge == [flow : Flows \cup {"none"}, live : BOOLEAN, consumed : BOOLEAN]
Code == [state : {"free", "live", "used", "expired"}, wallet : Selections, nonce : Nonces]
Approval == [step : {"idle", "verifying", "bound"}, flow : Flows, nonce : Nonces,
             wallet : Selections]
Family == [issued : {TRUE}, access : BOOLEAN, refresh : BOOLEAN, wallet : Selections,
           origin : Flows \X Nonces]
NoTokens == [issued |-> FALSE]
NoSession == [open |-> FALSE]
ToolCall == [step : {"previewed", "sent"}, token : Families, wallet : Wallets, from : Wallets]
            \cup [step : {"connecting"}, token : Families]
            \cup [step : {"served"}, token : Families, bound : Selections]

AccessTypeOK ==
  /\ request \in {"none", "open", "expired"}
  /\ device \in DeviceGrant \cup {[status |-> "none"]}
  /\ challenges \in [Nonces -> Challenge]
  /\ codes \in [Codes -> Code \cup {[state |-> "free"]}]
  /\ approving \in [Approvals -> Approval \cup {[step |-> "idle"], [step |-> "done"]}]
  /\ alias \in Selections /\ active \subseteq Wallets
  /\ families \in [Families -> Family \cup {NoTokens}]
  /\ session \in {NoSession} \cup [open : {TRUE}, wallet : Selections]
  /\ calls \in [Calls -> ToolCall \cup {[step |-> "idle"]}]
  /\ answered \subseteq [code : Codes, wallet : Selections]
  /\ changes \in 0 .. AccessChanges

AccessInit ==
  /\ request = "none" /\ device = [status |-> "none"]
  /\ challenges = [n \in Nonces |-> [flow |-> "none", live |-> FALSE, consumed |-> FALSE]]
  /\ codes = [c \in Codes |-> [state |-> "free"]]
  /\ approving = [a \in Approvals |-> [step |-> "idle"]]
  /\ alias = NoWallet /\ active = Wallets
  /\ families = [f \in Families |-> NoTokens]
  /\ session = NoSession /\ calls = [x \in Calls |-> [step |-> "idle"]]
  /\ answered = {} /\ changes = 0

AccessChange == changes < AccessChanges /\ changes' = changes + 1

-----------------------------------------------------------------------------
(* Requests and challenges. *)

(* oauthAuthorizeHandler; its checks of the client and of PKCE say no otherwise. *)
AskLoopback ==
  /\ request = "none" /\ request' = "open"
  /\ UNCHANGED <<device, challenges, codes, approving, alias, active, families, session, calls,
                 answered, changes>>

(* deviceAuthorizeHandler *)
AskDevice ==
  /\ device.status = "none"
  /\ device' = [status |-> "pending", wallet |-> NoWallet, nonce |-> 1, consumed |-> FALSE]
  /\ UNCHANGED <<request, challenges, codes, approving, alias, active, families, session, calls,
                 answered, changes>>

FlowOpen(flow) == IF flow = "loopback" THEN request = "open" ELSE device.status = "pending"

(* siweMessageHandler and deviceMessageHandler: as many challenges as asked. *)
AskChallenge(n, flow) ==
  /\ n \in Oldest({m \in Nonces : challenges[m].flow = "none"}) /\ FlowOpen(flow)
  /\ challenges' = [challenges EXCEPT ![n] = [flow |-> flow, live |-> TRUE, consumed |-> FALSE]]
  /\ UNCHANGED <<request, device, codes, approving, alias, active, families, session, calls,
                 answered, changes>>

(* A challenge, a code or a flow runs out; the sweep drops it later. *)
RunsOut ==
  /\ AccessChange
  /\ \/ /\ \E n \in Nonces : challenges[n].live
                             /\ challenges' = [challenges EXCEPT ![n].live = FALSE]
        /\ UNCHANGED <<codes, request, device>>
     \/ /\ \E c \in Codes : codes[c].state = "live"
                            /\ codes' = [codes EXCEPT ![c].state = "expired"]
        /\ UNCHANGED <<challenges, request, device>>
     \/ /\ request = "open" /\ request' = "expired"
        /\ UNCHANGED <<challenges, codes, device>>
     \/ /\ device.status \in {"pending", "approved"}
        /\ device' = [device EXCEPT !.status = "expired"]
        /\ UNCHANGED <<challenges, codes, request>>
  /\ UNCHANGED <<approving, alias, active, families, session, calls, answered>>

(* The owner revokes the session key of a wallet. *)
SessionRevoked(w) ==
  /\ AccessChange /\ w \in active
  /\ active' = active \ {w}
  /\ UNCHANGED <<request, device, challenges, codes, approving, alias, families, session, calls,
                 answered>>

-----------------------------------------------------------------------------
(* Approvals: siweVerifyHandler and deviceApproveHandler. *)

ApprovalWaits(a, v) == approving' = [approving EXCEPT ![a] = v]
ApprovalEnds(a) == approving' = [approving EXCEPT ![a] = [step |-> "done"]]

ChallengeGood(n, flow) ==
  challenges[n].flow = flow /\ challenges[n].live /\ ~challenges[n].consumed

(* The state is checked, then the signature. *)
ApproveStarts(a, n, w) ==
  /\ a \in Oldest({b \in Approvals : approving[b].step = "idle"})
  /\ \E flow \in Flows :
       /\ FlowOpen(flow) /\ ChallengeGood(n, flow)
       /\ ApprovalWaits(a, [step |-> "verifying", flow |-> flow, nonce |-> n, wallet |-> w])
  /\ UNCHANGED <<request, device, challenges, codes, alias, active, families, session, calls,
                 answered, changes>>

(* bindSessionAlias with allowRebind. *)
Rebound(w) == IF w = NoWallet THEN alias ELSE w

(* bindMcpIdentityToActiveSession: the passkey session of the wallet lets the *)
(* alias move from another wallet, before the grant is decided.              *)
Binds(a) ==
  /\ approving[a].step = "verifying"
  /\ LET w == approving[a].wallet
     IN IF w \in active \cup {NoWallet}
          THEN /\ alias' = Rebound(w)
               /\ approving' = [approving EXCEPT ![a].step = "bound"]
          ELSE ApprovalEnds(a) /\ UNCHANGED alias
  /\ UNCHANGED <<request, device, challenges, codes, active, families, session, calls,
                 answered, changes>>

(* createAuthCode binds the code to the challenge and the wallet. *)
SameGrant(c, w) == codes[c].state = "live" /\ codes[c].wallet = w

(* A valid code of the same grant is answered again. *)
GrantsCode(a) ==
  /\ approving[a].step = "bound" /\ approving[a].flow = "loopback"
  /\ FlowOpen("loopback") /\ ChallengeGood(approving[a].nonce, "loopback")
  /\ LET w == approving[a].wallet
         old == {c \in Codes : SameGrant(c, w)}
     IN \E c \in IF old # {} THEN old ELSE Oldest({x \in Codes : codes[x].state = "free"}) :
          /\ codes' = IF old # {} THEN codes
                      ELSE [codes EXCEPT ![c] = [state |-> "live", wallet |-> w,
                                                 nonce |-> approving[a].nonce]]
          /\ answered' = answered \cup {[code |-> c, wallet |-> w]}
  /\ ApprovalEnds(a)
  /\ UNCHANGED <<request, device, challenges, alias, active, families, session, calls, changes>>

ApprovesDevice(a) ==
  /\ approving[a].step = "bound" /\ approving[a].flow = "device"
  /\ device.status = "pending" /\ ~challenges[approving[a].nonce].consumed
  /\ device' = [device EXCEPT !.status = "approved", !.wallet = approving[a].wallet,
                              !.nonce = approving[a].nonce]
  /\ ApprovalEnds(a)
  /\ UNCHANGED <<request, challenges, codes, alias, active, families, session, calls,
                 answered, changes>>

(* The state has changed while the approval waited, or the signature is bad. *)
Turned(a) ==
  /\ approving[a].step \in {"verifying", "bound"}
  /\ approving[a].step = "bound" =>
       ~(FlowOpen(approving[a].flow) /\ ChallengeGood(approving[a].nonce, approving[a].flow))
  /\ ApprovalEnds(a)
  /\ UNCHANGED <<request, device, challenges, codes, alias, active, families, session, calls,
                 answered, changes>>

(* A denial needs only the user code. *)
DeniesDevice ==
  /\ AccessChange
  /\ device.status = "pending" /\ device' = [device EXCEPT !.status = "denied"]
  /\ UNCHANGED <<request, challenges, codes, approving, alias, active, families, session, calls,
                 answered>>

-----------------------------------------------------------------------------
(* Tokens. *)

IssuesTokens(w, origin) ==
  \E f \in Oldest({g \in Families : ~families[g].issued}) :
    families' = [families EXCEPT ![f] = [issued |-> TRUE, access |-> TRUE, refresh |-> TRUE,
                                         wallet |-> w, origin |-> origin]]

ConsumesNothing(c) == challenges
Consumes(c) == [challenges EXCEPT ![codes[c].nonce].consumed = TRUE]

(* exchangeCodeForToken *)
Redeems(c) ==
  /\ codes[c].state = "live"
  /\ IssuesTokens(codes[c].wallet, <<"loopback", codes[c].nonce>>)
  /\ codes' = [codes EXCEPT ![c].state = "used"]
  /\ challenges' = Consumes(c)
  /\ UNCHANGED <<request, device, approving, alias, active, session, calls, answered, changes>>

(* exchangeDeviceCodeForToken; before the approval a poll is told to wait. *)
RedeemsDevice ==
  /\ device.status = "approved" /\ ~device.consumed
  /\ IssuesTokens(device.wallet, <<"device", device.nonce>>)
  /\ device' = [device EXCEPT !.consumed = TRUE]
  /\ UNCHANGED <<request, challenges, codes, approving, alias, active, session, calls,
                 answered, changes>>

(* refreshAccessTokenGrant: the refresh token rotates; the wallet stays. *)
Refreshes(f) ==
  /\ families[f].issued /\ families[f].refresh /\ ~families[f].access
  /\ families' = [families EXCEPT ![f].access = TRUE]
  /\ UNCHANGED <<request, device, challenges, codes, approving, alias, active, session, calls,
                 answered, changes>>

(* An access token runs out after a day, a refresh token after a month. *)
TokensEnd(f) ==
  /\ AccessChange /\ families[f].issued
  /\ families[f].access \/ families[f].refresh
  /\ families' = [families EXCEPT ![f].access = FALSE,
                                  ![f].refresh = families[f].access /\ families[f].refresh]
  /\ UNCHANGED <<request, device, challenges, codes, approving, alias, active, session,
                 calls, answered>>

-----------------------------------------------------------------------------
(* mcpHttpHandler: the session of the identifier serves a request of the same *)
(* user, client and wallet; another one is closed, and a server bound to the *)
(* wallet of the token is connected.                                        *)
SameUser(f) == session.open  \* mutant: the wallet is not compared
SameContext(f) == session.open /\ session.wallet = families[f].wallet

Arrives(x, f) ==
  /\ x \in Oldest({y \in Calls : calls[y].step = "idle"})
  /\ families[f].issued /\ families[f].access
  /\ IF SameContext(f)
     THEN /\ calls' = [calls EXCEPT ![x] =
               [step |-> "served", token |-> f, bound |-> session.wallet]]
          /\ UNCHANGED session
     ELSE /\ calls' = [calls EXCEPT ![x] = [step |-> "connecting", token |-> f]]
          /\ session' = NoSession
  /\ UNCHANGED <<request, device, challenges, codes, approving, alias, active, families,
                 answered, changes>>

Connects(x) ==
  /\ calls[x].step = "connecting"
  /\ LET f == calls[x].token
         w == families[f].wallet
     IN  /\ session' = [open |-> TRUE, wallet |-> w]
         /\ calls' = [calls EXCEPT ![x] = [step |-> "served", token |-> f, bound |-> w]]
  /\ UNCHANGED <<request, device, challenges, codes, approving, alias, active, families,
                 answered, changes>>

(* scheduleMcpSessionCleanup, or a restart. *)
SessionIdles ==
  /\ AccessChange /\ session.open /\ session' = NoSession
  /\ UNCHANGED <<request, device, challenges, codes, approving, alias, active, families, calls,
                 answered>>

-----------------------------------------------------------------------------
(* Tool calls.  resolveActiveMsca names the wallet the server is bound to, or  *)
(* of the alias where it has none; executeViaSession is called with the owner *)
(* and signs for the wallet of the alias.                                    *)

Resolved(bound) == IF bound # NoWallet THEN bound ELSE alias

Previews(x) ==
  /\ calls[x].step = "served"
  /\ LET w == Resolved(calls[x].bound) IN
     /\ w \in active
     /\ calls' = [calls EXCEPT ![x] = [step |-> "previewed", token |-> calls[x].token,
                                       wallet |-> w, from |-> w]]
  /\ UNCHANGED <<request, device, challenges, codes, approving, alias, active, families, session,
                 answered, changes>>

(* The confirmed call resolves the wallet again, compares it with the quote's, *)
(* and executes.                                                              *)
Signer == alias

Executes(x) ==
  /\ calls[x].step = "previewed" /\ calls[x].wallet \in active
  /\ Signer \in active
  /\ calls' = [calls EXCEPT ![x].step = "sent", ![x].from = Signer]
  /\ UNCHANGED <<request, device, challenges, codes, approving, alias, active, families, session,
                 answered, changes>>

-----------------------------------------------------------------------------
AccessNext ==
  \/ AskLoopback \/ AskDevice \/ RunsOut \/ DeniesDevice \/ RedeemsDevice
  \/ \E n \in Nonces, flow \in Flows : AskChallenge(n, flow)
  \/ \E w \in Wallets : SessionRevoked(w)
  \/ \E a \in Approvals, n \in Nonces, w \in Selections : ApproveStarts(a, n, w)
  \/ \E a \in Approvals : Binds(a) \/ GrantsCode(a) \/ ApprovesDevice(a) \/ Turned(a)
  \/ \E c \in Codes : Redeems(c)
  \/ \E f \in Families : TokensEnd(f) \/ Refreshes(f)
  \/ SessionIdles \/ \E x \in Calls, f \in Families : Arrives(x, f)
  \/ \E x \in Calls : Connects(x) \/ Previews(x) \/ Executes(x)

AccessSpec == AccessInit /\ [][AccessNext]_accessVars

-----------------------------------------------------------------------------
(* A signed challenge buys tokens once for each wallet it was sent with: not   *)
(* again when the same signature is sent after its code was redeemed, nor by  *)
(* a second run that waited for the binding meanwhile                         *)
(* (exchangeCodeForToken, exchangeDeviceCodeForToken).  The message names no  *)
(* wallet, so two runs with one signature and two wallets do get two codes.   *)
OneFamilyPerSignature ==
  \A f, g \in Families :
    families[f].issued /\ families[g].issued /\ families[f].origin = families[g].origin
      /\ families[f].wallet = families[g].wallet => f = g

(* One wallet from the approval to the call: an approval is answered with a   *)
(* code for the wallet it named, also when it is answered with the code of an *)
(* earlier one (findExistingAuthCode), and a call runs for the wallet of its  *)
(* own token, also when its session identifier served another before          *)
(* ("otherwise the request's fresh OAuth token is silently ignored",         *)
(* mcpServer.mjs:4061).                                                     *)
NamedWalletKept ==
  /\ \A r \in answered : codes[r.code].wallet = r.wallet
  /\ \A x \in Calls : calls[x].step \in {"previewed", "sent"} =>
       families[calls[x].token].wallet \in {NoWallet, calls[x].wallet}

(* mcpServer.mjs:930 says that execution uses the Agent Wallet the call       *)
(* resolved.  It does not hold: the alias may have moved.                    *)
ExecutesResolvedWallet ==
  \A x \in Calls : calls[x].step = "sent" => calls[x].from = calls[x].wallet
=============================================================================
