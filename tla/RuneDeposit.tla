----------------------------- MODULE RuneDeposit -----------------------------
(***************************************************************************)
(* The deposit pipeline of the Rune bridge (src/rune-bridge/src/ops.rs,    *)
(* `deposit` and `send_mint_order`).                                       *)
(*                                                                         *)
(* A deposit call fetches the UTXOs of the user's deposit address, drops   *)
(* those already in the ledger, gates on confirmations and BTC amount,     *)
(* asks the indexer for the runes they carry and then, per rune, takes a   *)
(* nonce from the process-wide NONCE atomic, signs a mint order, stores    *)
(* it, records the UTXOs in the ledger and sends the order to the EVM with *)
(* the cached EVM transaction nonce.  Every step marked "await" is a       *)
(* suspension point where other calls run: calls interleave there.         *)
(*                                                                         *)
(* The rune infos come from State::runes, a heap cache refilled from the   *)
(* indexer's /runes page (the first entries only) whenever a rune is       *)
(* missing from it.                                                        *)
(***************************************************************************)
EXTENDS Naturals, FiniteSets, FiniteSetsExt

CONSTANTS
    Users,          \* EVM addresses that deposit (each has a deposit address)
    Utxos,          \* outpoints that may arrive at a deposit address
    Runes,
    UtxoUser,       \* [Utxos -> Users]: the deposit address the UTXO pays
    UtxoRunes,      \* [Utxos -> SUBSET Runes]: rune balances in the UTXO
    UtxoValue,      \* [Utxos -> Nat]: satoshis
    DepositFee,     \* State::deposit_fee
    Calls,          \* concurrent `deposit` calls
    MaxNonce,       \* bound on the NONCE counter
    BtcChainId,     \* State::btc_chain_id
    ErcChainId,     \* State::erc20_chain_id
    MaxSignFailures,\* environment: bound on threshold-signer failures
    LostResponses,  \* environment: may an EVM response be lost after the tx executed?
    MaxUpgrades,
    Withdraws       \* withdraw calls (each runs once)

ASSUME /\ UtxoUser \in [Utxos -> Users]
       /\ UtxoRunes \in [Utxos -> SUBSET Runes]
       /\ UtxoValue \in [Utxos -> Nat]
       /\ MaxSignFailures \in Nat /\ LostResponses \in BOOLEAN

VARIABLES
    btc,        \* Utxos -> "none" | "unconfirmed" | "confirmed" on Bitcoin
    ledger,     \* UTXOs recorded by ledger_mut().deposit (stable)
    nonce,      \* static NONCE: AtomicU32 (heap, 0 after an upgrade)
    store,      \* mint_orders: set of [key, nonce, order] (stable)
    issued,     \* history: every signed mint order
    evmNonce,   \* evm_params.nonce cached in State
    chainNonce, \* transaction count of the bridge's EVM account
    minted,     \* history: mint orders executed on the EVM
    call,       \* Calls -> the local state of a deposit call
    signFails,  \* signer failures so far
    upgrades,
    wd,         \* Withdraws -> the local state of a withdraw call
    spent,      \* UTXOs spent by a bridge transaction that Bitcoin accepted
    broadcast,  \* history: [w, inputs] of every transaction send_tx handed over
    runeCache   \* State::runes: the runes whose RuneInfo is cached (heap)

vars == <<btc, ledger, nonce, store, issued, evmNonce, chainNonce, minted, call, signFails, upgrades,
          wd, spent, broadcast, runeCache>>

Idle == [pc |-> "idle", user |-> CHOOSE u \in Users : TRUE, utxos |-> {},
         todo |-> {}, rune |-> CHOOSE r \in Runes : TRUE, n |-> 0, txNonce |-> 0]

\* Mutant: the order's sender is built with erc20_chain_id.
OrderErc(usr, r, n, us) == [sender |-> <<usr, ErcChainId>>, rune |-> r, nonce |-> n, utxos |-> us]

\* A signed mint order, abstracted to the fields the properties tell apart.
Order(usr, r, n, us) == [sender |-> <<usr, BtcChainId>>, rune |-> r, nonce |-> n, utxos |-> us]

WdIdle == [pc |-> "idle", inputs |-> {}]

Orders == [sender : Users \X {BtcChainId}, rune : Runes, nonce : 0..MaxNonce,
           utxos : SUBSET Utxos]

\* Every call and withdraw is at one of its program points, orders are
\* built with the btc_chain_id sender and the erc20_chain_id store key, and
\* spent outputs are ledger entries.
TypeOK ==
    /\ btc \in [Utxos -> {"none", "unconfirmed", "confirmed"}]
    /\ ledger \subseteq Utxos
    /\ nonce \in 0..MaxNonce
    /\ store \subseteq [key : Users \X {ErcChainId}, nonce : 0..MaxNonce, order : Orders]
    /\ issued \subseteq Orders /\ minted \subseteq Orders
    /\ evmNonce \in Nat /\ chainNonce \in Nat
    /\ call \in [Calls -> [pc : {"idle", "get_utxos", "runes", "rune_list", "next", "signing",
                                 "send_read", "sending"},
                           user : Users, utxos : SUBSET Utxos, todo : SUBSET Runes,
                           rune : Runes, n : 0..MaxNonce, txNonce : Nat]]
    /\ signFails \in 0..MaxSignFailures
    /\ upgrades \in 0..MaxUpgrades
    /\ wd \in [Withdraws -> [pc : {"idle", "fee", "signing", "sending", "done"},
                             inputs : SUBSET Utxos]]
    /\ spent \subseteq ledger
    /\ runeCache \subseteq Runes

Init ==
    /\ btc = [u \in Utxos |-> "none"]
    /\ ledger = {} /\ nonce = 0 /\ store = {} /\ issued = {}
    /\ evmNonce = 0 /\ chainNonce = 0 /\ minted = {}
    /\ call = [c \in Calls |-> Idle]
    /\ signFails = 0 /\ upgrades = 0
    /\ wd = [w \in Withdraws |-> WdIdle]
    /\ spent = {} /\ broadcast = {}
    /\ runeCache = {}

(***************************************************************************)
(* Bitcoin: a user pays a UTXO to a deposit address; it gets confirmed     *)
(* (reaches min_confirmations).                                            *)
(***************************************************************************)
Pay(u) ==
    /\ btc[u] = "none"
    /\ btc' = [btc EXCEPT ![u] = "unconfirmed"]
    /\ UNCHANGED <<ledger, nonce, store, issued, evmNonce, chainNonce, minted, call, signFails, upgrades, wd, spent, broadcast, runeCache>>

Confirm(u) ==
    /\ btc[u] = "unconfirmed"
    /\ btc' = [btc EXCEPT ![u] = "confirmed"]
    /\ UNCHANGED <<ledger, nonce, store, issued, evmNonce, chainNonce, minted, call, signFails, upgrades, wd, spent, broadcast, runeCache>>

\* Everything but the local state of the calls.
NotCall == <<btc, ledger, nonce, store, issued, evmNonce, chainNonce, minted, signFails, upgrades, wd, spent, broadcast, runeCache>>

(***************************************************************************)
(* deposit(eth_address): anyone may call it for any address.               *)
(***************************************************************************)
Deposit(c, usr) ==
    /\ call[c].pc = "idle"
    /\ call' = [call EXCEPT ![c] = [Idle EXCEPT !.pc = "get_utxos", !.user = usr]]
    /\ UNCHANGED NotCall

\* get_utxos after its await, with filter_out_used_utxos against the ledger.
UtxosOf(usr) == {u \in Utxos : UtxoUser[u] = usr /\ btc[u] # "none"} \ ledger

\* validate_utxo_confirmations: the least-confirmed UTXO reaches the minimum.
ConfirmationsOk(us) == \A u \in us : btc[u] = "confirmed"

\* validate_utxo_btc_amount: the sum of the values covers the deposit fee.
AmountOk(us) == MapThenSumSet(LAMBDA u : UtxoValue[u], us) >= DepositFee

GetUtxosDone(c) ==
    /\ call[c].pc = "get_utxos"
    /\ LET us == UtxosOf(call[c].user)
       IN call' = [call EXCEPT ![c] =
                     IF us # {} /\ ConfirmationsOk(us) /\ AmountOk(us)
                     THEN [@ EXCEPT !.pc = "runes", !.utxos = us]
                     ELSE Idle]     \* NotingToDeposit | Pending | NotEnoughBtc
    /\ UNCHANGED NotCall

\* bitcoin_get_utxos, the indexer's /output or /runes request fail or
\* answer something that does not parse: Unavailable.
RemoteFail(c) ==
    /\ call[c].pc \in {"get_utxos", "runes", "rune_list"}
    /\ call' = [call EXCEPT ![c] = Idle]
    /\ UNCHANGED NotCall

\* get_tx_rune_amounts: the rune names in the indexer's /output answer for
\* one UTXO (amounts are not tracked).
TxRuneAmounts(u) == UtxoRunes[u]

\* get_rune_amounts: the runes of all the UTXOs, one request per UTXO.
RuneAmounts(us) == UNION {TxRuneAmounts(u) : u \in us}

\* fill_rune_infos_from_state: Some only if every rune is cached.
FillFromState(rs) == rs \subseteq runeCache

\* fill_rune_infos: from the cache without an await, or else an await on
\* get_rune_list (the program point the call moves to).
FillRuneInfos(rs) == IF FillFromState(rs) THEN "next" ELSE "rune_list"

\* get_rune_amounts after its awaits, then fill_rune_infos.
RuneAmountsDone(c) ==
    /\ call[c].pc = "runes"
    /\ LET rs == RuneAmounts(call[c].utxos)
       IN call' = [call EXCEPT ![c] =
                     IF rs = {} THEN Idle    \* NoRunesToDeposit
                     ELSE [@ EXCEPT !.pc = FillRuneInfos(rs), !.todo = rs]]
    /\ UNCHANGED NotCall

\* fill_rune_infos_from_indexer after get_rune_list: the page lists some of
\* the etched runes.  A rune of the deposit missing from it gives None
\* (Unavailable); otherwise the cache is replaced by the page.
RuneListDone(c, listed) ==
    /\ call[c].pc = "rune_list"
    /\ IF call[c].todo \subseteq listed
       THEN /\ runeCache' = listed
            /\ call' = [call EXCEPT ![c].pc = "next"]
       ELSE /\ call' = [call EXCEPT ![c] = Idle]
            /\ UNCHANGED runeCache
    /\ UNCHANGED <<btc, ledger, nonce, store, issued, evmNonce, chainNonce, minted, signFails,
                   upgrades, wd, spent, broadcast>>

(***************************************************************************)
(* The loop over (rune_info, amount): NONCE.fetch_add, then the await on   *)
(* encode_and_sign in create_mint_order.                                   *)
(***************************************************************************)
NextRune(c) ==
    /\ call[c].pc = "next"
    /\ call[c].todo # {}
    /\ nonce < MaxNonce
    /\ \E r \in call[c].todo :
         call' = [call EXCEPT ![c] = [@ EXCEPT !.pc = "signing", !.rune = r,
                                               !.n = nonce, !.todo = @ \ {r}]]
    /\ nonce' = nonce + 1
    /\ UNCHANGED <<btc, ledger, store, issued, evmNonce, chainNonce, minted, signFails, upgrades, wd, spent, broadcast, runeCache>>

\* The loop ends: Ok(results).
DepositReturn(c) ==
    /\ call[c].pc = "next"
    /\ call[c].todo = {}
    /\ call' = [call EXCEPT ![c] = Idle]
    /\ UNCHANGED NotCall

\* MintOrders::insert under (sender, nonce): an order already there is replaced.
Push(k, n, o) == {x \in store : ~(x.key = k /\ x.nonce = n)} \cup {[key |-> k, nonce |-> n, order |-> o]}

\* The signature arrives: mint_orders_mut().push(sender, nonce, order), where
\* sender is built with erc20_chain_id, then ledger_mut().deposit(utxos).
MintOrderSigned(c) ==
    /\ call[c].pc = "signing"
    /\ LET cl == call[c]
           o  == Order(cl.user, cl.rune, cl.n, cl.utxos)
       IN /\ store' = Push(<<cl.user, ErcChainId>>, cl.n, o)
          /\ issued' = issued \cup {o}
          /\ ledger' = ledger \cup cl.utxos
    /\ call' = [call EXCEPT ![c].pc = "send_read"]
    /\ UNCHANGED <<btc, nonce, evmNonce, chainNonce, minted, signFails, upgrades, wd, spent, broadcast, runeCache>>

\* encode_and_sign fails: `?` returns DepositError::Sign, dropping the other runes.
MintOrderSignFail(c) ==
    /\ signFails < MaxSignFailures
    /\ call[c].pc = "signing"
    /\ call' = [call EXCEPT ![c] = Idle]
    /\ signFails' = signFails + 1
    /\ UNCHANGED <<btc, ledger, nonce, store, issued, evmNonce, chainNonce, minted, upgrades, wd, spent, broadcast, runeCache>>

(***************************************************************************)
(* send_mint_order: after the await on get_address it reads evm_params,    *)
(* then awaits sign_transaction and send_raw_transaction; on Ok it         *)
(* increments the cached nonce.  Any Err makes the result Signed.          *)
(***************************************************************************)
SendMintOrderRead(c) ==
    /\ call[c].pc = "send_read"
    /\ call' = [call EXCEPT ![c].pc = "sending", ![c].txNonce = evmNonce]
    /\ UNCHANGED NotCall

CurrentOrder(c) == Order(call[c].user, call[c].rune, call[c].n, call[c].utxos)

\* The node executes the transaction (its nonce is the account's next one).
SendMintOrderOk(c) ==
    /\ call[c].pc = "sending"
    /\ call[c].txNonce = chainNonce
    /\ chainNonce' = chainNonce + 1
    /\ minted' = minted \cup {CurrentOrder(c)}
    /\ evmNonce' = evmNonce + 1
    /\ call' = [call EXCEPT ![c].pc = "next"]
    /\ UNCHANGED <<btc, ledger, nonce, store, issued, signFails, upgrades, wd, spent, broadcast, runeCache>>

\* get_address, signing or the RPC fails, or the node rejects the nonce.
SendMintOrderFail(c) ==
    /\ call[c].pc \in {"send_read", "sending"}
    /\ call' = [call EXCEPT ![c].pc = "next"]
    /\ UNCHANGED NotCall

\* The node executes the transaction but the response is lost: Err(Evm).
SendMintOrderLost(c) ==
    /\ LostResponses
    /\ call[c].pc = "sending"
    /\ call[c].txNonce = chainNonce
    /\ chainNonce' = chainNonce + 1
    /\ minted' = minted \cup {CurrentOrder(c)}
    /\ call' = [call EXCEPT ![c].pc = "next"]
    /\ UNCHANGED <<btc, ledger, nonce, store, issued, evmNonce, signFails, upgrades, wd, spent, broadcast, runeCache>>

(***************************************************************************)
(* withdraw(amount, rune_id, address), run for a burn: it loads the whole  *)
(* ledger as inputs, awaits the fee rate and the signatures of the inputs  *)
(* (build_withdraw_transaction), then awaits bitcoin_send_transaction.     *)
(* Nothing removes the inputs from the ledger.                             *)
(***************************************************************************)
\* Everything but the withdraw calls and Bitcoin's view of their transactions.
NotWithdraw == <<btc, ledger, nonce, store, issued, evmNonce, chainNonce, minted, call, signFails, upgrades, runeCache>>

\* The derivation path a ledger entry stores is the deposit address's user.
OnePath(us) == \A u1, u2 \in us : UtxoUser[u1] = UtxoUser[u2]

\* inputs.is_empty(): Err(NoInputs).
WithdrawNoInputs(w) ==
    /\ wd[w].pc = "idle" /\ ledger = {}
    /\ wd' = [wd EXCEPT ![w].pc = "done"]
    /\ UNCHANGED <<spent, broadcast>> /\ UNCHANGED NotWithdraw

\* Inputs with different derivation paths reach todo!(): the call traps and
\* its effects (none before the first await) are rolled back.
WithdrawMixedPaths(w) ==
    /\ wd[w].pc = "idle" /\ ledger # {} /\ ~OnePath(ledger)
    /\ wd' = [wd EXCEPT ![w].pc = "done"]
    /\ UNCHANGED <<spent, broadcast>> /\ UNCHANGED NotWithdraw

\* ledger().load_all(), the path check and get_change_address; then the
\* await on bitcoin_get_current_fee_percentiles.
WithdrawStart(w) ==
    /\ wd[w].pc = "idle" /\ ledger # {} /\ OnePath(ledger)
    /\ wd' = [wd EXCEPT ![w] = [pc |-> "fee", inputs |-> ledger]]
    /\ UNCHANGED <<spent, broadcast>> /\ UNCHANGED NotWithdraw

\* The fee rate arrives; create_edict_transaction; the await on sign_transaction.
FeeRateDone(w) ==
    /\ wd[w].pc = "fee"
    /\ wd' = [wd EXCEPT ![w].pc = "signing"]
    /\ UNCHANGED <<spent, broadcast>> /\ UNCHANGED NotWithdraw

WithdrawSigned(w) ==
    /\ wd[w].pc = "signing"
    /\ wd' = [wd EXCEPT ![w].pc = "sending"]
    /\ UNCHANGED <<spent, broadcast>> /\ UNCHANGED NotWithdraw

\* FeeRateRequest, TransactionCreation, TransactionSigning, TransactionSending.
WithdrawFail(w) ==
    /\ wd[w].pc \in {"fee", "signing", "sending"}
    /\ wd' = [wd EXCEPT ![w].pc = "done"]
    /\ UNCHANGED <<spent, broadcast>> /\ UNCHANGED NotWithdraw

\* bitcoin_send_transaction returns Ok: withdraw returns Ok(txid).  Bitcoin
\* accepts the transaction only if none of its inputs is already spent.
SendTxDone(w) ==
    /\ wd[w].pc = "sending"
    /\ wd' = [wd EXCEPT ![w].pc = "done"]
    /\ broadcast' = broadcast \cup {[w |-> w, inputs |-> wd[w].inputs]}
    /\ spent' = IF wd[w].inputs \cap spent = {} THEN spent \cup wd[w].inputs ELSE spent
    /\ UNCHANGED NotWithdraw

(***************************************************************************)
(* Upgrade: no call in flight; the NONCE static restarts at 0; the stable  *)
(* store and ledger survive; evm_params is re-queried from the chain.      *)
(***************************************************************************)
PostUpgrade ==
    /\ upgrades < MaxUpgrades
    /\ \A c \in Calls : call[c].pc = "idle"
    /\ \A w \in Withdraws : wd[w].pc \in {"idle", "done"}
    /\ nonce' = 0
    /\ evmNonce' = chainNonce
    /\ upgrades' = upgrades + 1
    /\ runeCache' = {}
    /\ UNCHANGED <<btc, ledger, store, issued, chainNonce, minted, call, signFails, wd, spent, broadcast>>

Next ==
    \/ \E u \in Utxos : Pay(u) \/ Confirm(u)
    \/ \E c \in Calls :
         \/ \E usr \in Users : Deposit(c, usr)
         \/ GetUtxosDone(c) \/ RemoteFail(c) \/ RuneAmountsDone(c)
         \/ \E listed \in SUBSET Runes : RuneListDone(c, listed)
         \/ NextRune(c) \/ DepositReturn(c)
         \/ MintOrderSigned(c) \/ MintOrderSignFail(c)
         \/ SendMintOrderRead(c) \/ SendMintOrderOk(c)
         \/ SendMintOrderFail(c) \/ SendMintOrderLost(c)
    \/ \E w \in Withdraws :
         \/ WithdrawNoInputs(w) \/ WithdrawMixedPaths(w) \/ WithdrawStart(w)
         \/ FeeRateDone(w) \/ WithdrawSigned(w) \/ WithdrawFail(w) \/ SendTxDone(w)
    \/ PostUpgrade

Spec == Init /\ [][Next]_vars

-----------------------------------------------------------------------------
(* Properties *)

\* Spec section 8: (sender, src_token, nonce) of the signed mint orders are
\* pairwise distinct; NONCE.fetch_add is the only source of nonces.
NonceUnique ==
    \A o1, o2 \in issued : o1.sender = o2.sender /\ o1.nonce = o2.nonce => o1 = o2

\* Spec section 5: a UTXO backs at most one mint order per rune, so the same
\* deposit is never minted twice.
UtxoMintedOnce ==
    \A o1, o2 \in issued :
        o1 # o2 /\ o1.rune = o2.rune => o1.utxos \cap o2.utxos = {}

\* Spec sections 3 and 5: no UTXO is used as an input by two transactions
\* the bridge broadcasts (reserve before sign).  withdraw takes the whole
\* ledger as inputs.
UtxoNotReused ==
    \A b1, b2 \in broadcast : b1 # b2 => b1.inputs \cap b2.inputs = {}

=============================================================================
