--------------------------------- MODULE Cards ---------------------------------
(***************************************************************************)
(* The agent cards (cardSimulator.mjs, cardOnchain.mjs, cardRoutes.mjs):   *)
(* one owner with one card.  In simulated mode every call reads, changes   *)
(* and writes the file in one turn.  In on-chain mode a call waits for the *)
(* wallet's balance, and a settlement for the transfer too, with the file  *)
(* it has read in its hands, and then writes that whole file back.         *)
(*                                                                         *)
(* Amounts are one unit; the per-transaction and category guards, which    *)
(* compare the request alone, are requests that are not made here.         *)
(***************************************************************************)
EXTENDS Naturals, FiniteSets

CONSTANTS
  CardCalls,      \* calls that may be waiting at the same time
  MaxCardTxs,     \* bound: transactions, those the issuer reports included
  DailyLimits,    \* limits the owner sets, in units
  DefaultFunds,   \* defaultBalance
  MaxLedger,      \* bound: the simulated balance when more is added to it
  WalletFunds,    \* what the wallet holds on chain
  CardChanges     \* bound: changes of the card, balances that age, crashes

CardsAssumption ==
  /\ MaxCardTxs \in Nat \ {0} /\ DailyLimits \subseteq Nat /\ DailyLimits # {}
  /\ {DefaultFunds, MaxLedger, WalletFunds, CardChanges} \subseteq Nat
ASSUME CardsAssumption

VARIABLES
  onchainMode,  \* CARDS_SYNC_ONCHAIN
  cardDb,       \* agent-cards-db.json
  wallet,       \* the wallet's units on chain
  cardCalls,    \* the calls that wait, each with the file it has read
  drawn,        \* transaction ids given out
  transfers,    \* history: transfers made for each transaction
  loosened,     \* history: transactions settled by two calls at a time, or whose
                \* settlement the file does not keep
  overlapped,   \* history: an authorization given beside an open hold or a
                \* waiting call
  loosest,      \* history: the widest limit an authorization was held to
  cardChanges

cardVars == <<onchainMode, cardDb, wallet, cardCalls, drawn, transfers, loosened,
              overlapped, loosest, cardChanges>>

CardTxs == 1 .. MaxCardTxs
TxStatuses == {"none", "authorized", "settled", "declined", "refunded"}
CardTx == [status : TxStatuses, onchain : BOOLEAN, issuer : BOOLEAN]
NoCardTx == [status |-> "none", onchain |-> FALSE, issuer |-> FALSE]
(* known is the cached balance, fresh that it is younger than SYNC_TTL_MS.     *)
CardFile == [status : {"none", "active", "frozen", "closed"}, daily : DailyLimits,
             linked : BOOLEAN, txs : [CardTxs -> CardTx], ledger : Nat, known : Nat,
             fresh : BOOLEAN]
EmptyFile == [status |-> "none", daily |-> CHOOSE d \in DailyLimits : TRUE, linked |-> FALSE,
              txs |-> [t \in CardTxs |-> NoCardTx], ledger |-> 0, known |-> 0,
              fresh |-> FALSE]
NoCardCall == [kind |-> "idle", file |-> EmptyFile, tx |-> 1]
CardCall == [kind : {"idle", "sync", "authorize", "settle", "transfer"}, file : CardFile,
             tx : CardTxs]

CardsTypeOK ==
  /\ onchainMode \in BOOLEAN /\ overlapped \in BOOLEAN
  /\ cardDb \in CardFile /\ wallet \in 0 .. WalletFunds
  /\ cardCalls \in [CardCalls -> CardCall]
  /\ drawn \in 0 .. MaxCardTxs /\ transfers \in [CardTxs -> Nat]
  /\ loosened \subseteq CardTxs /\ loosest \in Nat /\ cardChanges \in 0 .. CardChanges

CardsInit ==
  /\ onchainMode \in BOOLEAN
  /\ cardDb = EmptyFile /\ wallet = WalletFunds
  /\ cardCalls = [c \in CardCalls |-> NoCardCall]
  /\ drawn = 0 /\ transfers = [t \in CardTxs |-> 0]
  /\ loosened = {} /\ overlapped = FALSE /\ loosest = 0 /\ cardChanges = 0

-----------------------------------------------------------------------------
(* The file *)

(* A file read earlier replaces the one that is there.                        *)
Ended == {"settled", "declined", "refunded"}
Undone(file) == {t \in CardTxs : /\ cardDb.txs[t].status \in Ended
                                 /\ file.txs[t].status # cardDb.txs[t].status}

CardIdle(c) == cardCalls[c].kind = "idle"
Waits(c, kind, file, t) ==
  cardCalls' = [cardCalls EXCEPT ![c] = [kind |-> kind, file |-> file, tx |-> t]]
Answered(c) == cardCalls' = [cardCalls EXCEPT ![c] = NoCardCall]
SettlesOf(kind, t) == {c \in CardCalls : cardCalls[c].kind = kind /\ cardCalls[c].tx = t}

Funded(file) ==
  IF file.ledger = 0 THEN [file EXCEPT !.ledger = DefaultFunds] ELSE file
Synced(file) == [file EXCEPT !.known = wallet, !.fresh = TRUE]

(* usedToday counts settled transactions only: a hold takes no room.           *)
Used(file) == Cardinality({t \in CardTxs : file.txs[t].status = "settled"})
(* A plausible slip: the new amount is left out of the comparison.            *)
WithinDailyUsedOnly(file) == Used(file) <= file.daily
WithinDaily(file) == Used(file) + 1 <= file.daily
Available(file) == IF onchainMode THEN file.known ELSE file.ledger
Approves(file) == file.status = "active" /\ WithinDaily(file) /\ Available(file) >= 1
MarkedTx(file, t, status) == [file EXCEPT !.txs[t].status = status]

-----------------------------------------------------------------------------
(* The card *)

CardChange ==
  /\ cardChanges < CardChanges /\ cardChanges' = cardChanges + 1
  /\ UNCHANGED <<onchainMode, overlapped, loosest>>

CreateCard ==
  /\ cardDb.status = "none"
  /\ \E d \in DailyLimits :
       cardDb' = [Funded(cardDb) EXCEPT !.status = "active", !.daily = d]
  /\ UNCHANGED <<onchainMode, wallet, cardCalls, drawn, transfers, loosened, overlapped,
                 loosest, cardChanges>>

(* A closed card may be made active again.                                    *)
SetStatus ==
  /\ CardChange
  /\ cardDb.status # "none"
  /\ \E s \in {"active", "frozen", "closed"} : cardDb' = [cardDb EXCEPT !.status = s]
  /\ UNCHANGED <<wallet, cardCalls, drawn, transfers, loosened>>

UpdateLimits ==
  /\ CardChange
  /\ cardDb.status # "none"
  /\ \E d \in DailyLimits : cardDb' = [cardDb EXCEPT !.daily = d]
  /\ UNCHANGED <<wallet, cardCalls, drawn, transfers, loosened>>

(* Provisioning waits for the issuer first and reads the file afterwards.  It  *)
(* is done before the first transaction and in simulated mode (two bounds).    *)
Provision ==
  /\ ~onchainMode /\ drawn = 0
  /\ cardDb.status # "none" /\ ~cardDb.linked
  /\ cardDb' = [cardDb EXCEPT !.linked = TRUE]
  /\ UNCHANGED <<onchainMode, wallet, cardCalls, drawn, transfers, loosened, overlapped,
                 loosest, cardChanges>>

FundSimulated ==
  /\ CardChange
  /\ ~onchainMode /\ cardDb' = [cardDb EXCEPT !.ledger = @ + 1]
  /\ UNCHANGED <<wallet, cardCalls, drawn, transfers, loosened>>

-----------------------------------------------------------------------------
(* The balance *)

BalanceAges ==
  /\ CardChange
  /\ cardDb.fresh /\ cardDb' = [cardDb EXCEPT !.fresh = FALSE]
  /\ UNCHANGED <<wallet, cardCalls, drawn, transfers, loosened>>

(* One at a time, of a card that is there (two bounds). *)
SyncStarts(c) ==
  /\ CardIdle(c) /\ cardDb.status # "none"
  /\ \A d \in CardCalls : cardCalls[d].kind # "sync"
  /\ IF onchainMode
       THEN Waits(c, "sync", cardDb, 1) /\ UNCHANGED cardDb
       ELSE cardDb' = Funded(cardDb) /\ UNCHANGED cardCalls
  /\ UNCHANGED <<onchainMode, wallet, drawn, transfers, loosened, overlapped, loosest,
                 cardChanges>>

SyncEnds(c) ==
  LET file == Synced(cardCalls[c].file) IN
  /\ cardCalls[c].kind = "sync"
  /\ cardDb' = file /\ loosened' = loosened \cup Undone(file)
  /\ Answered(c)
  /\ UNCHANGED <<onchainMode, wallet, drawn, transfers, overlapped, loosest, cardChanges>>

(* The RPC fails: a sync and a settlement throw, an authorization is declined, *)
(* and none of them writes.                                                   *)
BalanceUnread(c) ==
  /\ cardCalls[c].kind \in {"sync", "authorize", "settle"} /\ Answered(c)
  /\ UNCHANGED <<onchainMode, cardDb, wallet, drawn, transfers, loosened, overlapped,
                 loosest, cardChanges>>

-----------------------------------------------------------------------------
(* Authorization *)

Holds(file) == {t \in CardTxs : file.txs[t].status = "authorized" /\ ~file.txs[t].issuer}

(* The guards pass and the transaction is appended to the file the call read.  *)
Authorizes(c, read, file) ==
  /\ Approves(file) /\ drawn < MaxCardTxs
  /\ drawn' = drawn + 1
  /\ cardDb' = [file EXCEPT !.txs[drawn + 1] =
                  [status |-> "authorized", onchain |-> onchainMode, issuer |-> FALSE]]
  /\ loosened' = loosened \cup Undone(file)
  /\ overlapped' = (\/ overlapped
                    \/ Holds(cardDb) # {}
                    \/ \E d \in CardCalls \ {c} : ~CardIdle(d)
                    \/ read # cardDb)
  /\ loosest' = IF file.daily > loosest THEN file.daily ELSE loosest
  /\ UNCHANGED <<onchainMode, wallet, transfers, cardChanges>>

AuthorizeNow(c) ==
  /\ CardIdle(c) /\ (onchainMode => cardDb.fresh)
  /\ Authorizes(c, cardDb, IF onchainMode THEN cardDb ELSE Funded(cardDb))
  /\ UNCHANGED cardCalls

AuthorizeStarts(c) ==
  /\ CardIdle(c) /\ onchainMode /\ ~cardDb.fresh
  /\ cardDb.status # "none" /\ Waits(c, "authorize", cardDb, 1)
  /\ UNCHANGED <<onchainMode, cardDb, wallet, drawn, transfers, loosened, overlapped,
                 loosest, cardChanges>>

AuthorizeEnds(c) ==
  /\ cardCalls[c].kind = "authorize"
  /\ Authorizes(c, cardCalls[c].file, Synced(cardCalls[c].file))
  /\ Answered(c)

(* Declined: nothing is written, the balance just read included.              *)
Declines(c) ==
  /\ cardCalls[c].kind = "authorize" /\ ~Approves(Synced(cardCalls[c].file)) /\ Answered(c)
  /\ UNCHANGED <<onchainMode, cardDb, wallet, drawn, transfers, loosened, overlapped,
                 loosest, cardChanges>>

-----------------------------------------------------------------------------
(* Settlement *)

(* A plausible slip: only what was refunded or declined is turned away.       *)
SettleableUnlessRefunded(t) == cardDb.txs[t].status \in {"authorized", "settled"}
Settleable(t) == cardDb.txs[t].status = "authorized"

SettleSimulated(t) ==
  /\ Settleable(t) /\ ~cardDb.txs[t].onchain
  /\ cardDb' = IF cardDb.ledger < 1
                 THEN MarkedTx(cardDb, t, "declined")
                 ELSE [MarkedTx(cardDb, t, "settled") EXCEPT !.ledger = @ - 1]
  /\ UNCHANGED <<onchainMode, wallet, cardCalls, drawn, transfers, loosened, overlapped,
                 loosest, cardChanges>>

(* The status is looked at once, before the two waits.                        *)
SettleStarts(c, t) ==
  /\ CardIdle(c) /\ Settleable(t) /\ cardDb.txs[t].onchain
  /\ Waits(c, "settle", cardDb, t)
  /\ loosened' = IF SettlesOf("settle", t) \cup SettlesOf("transfer", t) = {} THEN loosened
                 ELSE loosened \cup {t}
  /\ UNCHANGED <<onchainMode, cardDb, wallet, drawn, transfers, overlapped, loosest,
                 cardChanges>>

SettleReads(c) ==
  LET t == cardCalls[c].tx
      file == Synced(cardCalls[c].file)
      refused == MarkedTx(file, t, "declined") IN
  /\ cardCalls[c].kind = "settle"
  /\ \/ /\ wallet >= 1 /\ Waits(c, "transfer", file, t)
        /\ UNCHANGED <<cardDb, loosened>>
     \/ /\ wallet < 1 /\ Answered(c) /\ cardDb' = refused
        /\ loosened' = loosened \cup Undone(refused)
  /\ UNCHANGED <<onchainMode, wallet, drawn, transfers, overlapped, loosest, cardChanges>>

(* executeArcTransfer: made and answered so, made though the answer is an      *)
(* error (no receipt in time), or not made.                                    *)
Transfers(c) ==
  LET t == cardCalls[c].tx IN
  /\ cardCalls[c].kind = "transfer"
  /\ \E made \in BOOLEAN, status \in {"settled", "declined"} :
       LET file == MarkedTx(cardCalls[c].file, t, status) IN
       /\ made => wallet >= 1
       /\ status = "settled" => made
       /\ wallet' = IF made THEN wallet - 1 ELSE wallet
       /\ transfers' = [transfers EXCEPT ![t] = IF made THEN @ + 1 ELSE @]
       /\ cardDb' = file /\ loosened' = loosened \cup Undone(file)
  /\ Answered(c)
  /\ UNCHANGED <<onchainMode, drawn, overlapped, loosest, cardChanges>>

(* The process stops with a transfer under way, made or not.                   *)
CardCrash ==
  LET open == {c \in CardCalls : cardCalls[c].kind = "transfer"} IN
  /\ CardChange
  /\ \E c \in open, made \in BOOLEAN :
       /\ made => wallet >= 1
       /\ wallet' = IF made THEN wallet - 1 ELSE wallet
       /\ transfers' = [transfers EXCEPT ![cardCalls[c].tx] = IF made THEN @ + 1 ELSE @]
  /\ loosened' = loosened \cup {cardCalls[c].tx : c \in open}
  /\ cardCalls' = [c \in CardCalls |-> NoCardCall]
  /\ UNCHANGED <<cardDb, drawn>>

-----------------------------------------------------------------------------
(* Refunds and the issuer's webhook *)

(* Only a settlement of the simulated balance is given back, which a           *)
(* transaction the issuer reported counts as, though nothing was taken for it. *)
Refund(t) ==
  /\ cardDb.txs[t].status = "settled" /\ ~cardDb.txs[t].onchain
  /\ cardDb.ledger < MaxLedger
  /\ cardDb' = [MarkedTx(cardDb, t, "refunded") EXCEPT !.ledger = @ + 1]
  /\ UNCHANGED <<onchainMode, wallet, cardCalls, drawn, transfers, loosened, overlapped,
                 loosest, cardChanges>>

(* A transaction of the issuer is stored as the event says, whatever it was    *)
(* (no guard tells a refunded one from a declined or an unknown one).          *)
IssuerReports(t) ==
  /\ cardDb.linked /\ t = drawn + 1 /\ drawn' = t
  /\ \E s \in {"authorized", "settled", "refunded"} :
       cardDb' = [cardDb EXCEPT !.txs[t] = [status |-> s, onchain |-> FALSE, issuer |-> TRUE]]
  /\ UNCHANGED <<onchainMode, wallet, cardCalls, transfers, loosened, overlapped, loosest,
                 cardChanges>>

IssuerUpdates(t) ==
  /\ CardChange
  /\ cardDb.txs[t].issuer
  /\ \E s \in {"authorized", "settled", "refunded"} : cardDb' = MarkedTx(cardDb, t, s)
  /\ UNCHANGED <<wallet, cardCalls, drawn, transfers, loosened>>

CardsNext ==
  \/ CreateCard \/ SetStatus \/ UpdateLimits \/ Provision \/ FundSimulated
  \/ BalanceAges \/ CardCrash
  \/ \E c \in CardCalls : \/ SyncStarts(c) \/ SyncEnds(c) \/ BalanceUnread(c)
                          \/ AuthorizeNow(c) \/ AuthorizeStarts(c) \/ AuthorizeEnds(c)
                          \/ Declines(c) \/ SettleReads(c) \/ Transfers(c)
  \/ \E c \in CardCalls, t \in CardTxs : SettleStarts(c, t)
  \/ \E t \in CardTxs : SettleSimulated(t) \/ Refund(t) \/ IssuerReports(t) \/ IssuerUpdates(t)

CardsSpec == CardsInit /\ [][CardsNext]_cardVars

-----------------------------------------------------------------------------
(* Properties *)

(* The wallet pays a card transaction once, unless two calls settled it at the *)
(* same time, an older copy of the file took its settlement back, or the       *)
(* process died with the transfer under way (settleCardTransaction reads the   *)
(* status before its two waits and writes it after them).                      *)
PaidOnce == \A t \in CardTxs : transfers[t] > 1 => t \in loosened

(* What was authorized here and settled stays within the widest limit it was   *)
(* held to, unless an authorization was given beside an open hold, a waiting   *)
(* call or a file already written over: the limit counts settlements only.     *)
SpentWithinLimit ==
  \/ overlapped \/ loosened # {}
  \/ Cardinality({t \in CardTxs : /\ cardDb.txs[t].status = "settled"
                                  /\ ~cardDb.txs[t].issuer}) <= loosest
================================================================================
