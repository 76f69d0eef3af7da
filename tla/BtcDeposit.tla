------------------------------ MODULE BtcDeposit ------------------------------
(***************************************************************************)
(* The ckBTC bridge deposit path (src/btc-bridge/src/ops.rs): btc_to_erc20 *)
(* asks the ckBTC minter to update_balance of the caller's subaccount of   *)
(* the bridge, and for every UTXO the minter reports as Minted runs        *)
(* mint_erc20: fee check, prepare_mint_order (signing await),              *)
(* transfer_ckbtc_from_subaccount (ledger await), store_mint_order and     *)
(* send_mint_order (three awaits).  Calls interleave at every await.       *)
(*                                                                         *)
(* The ckBTC minter mints a confirmed UTXO into the subaccount once and     *)
(* reports it once; the ckBTC ledger moves funds and charges its fee.      *)
(***************************************************************************)
EXTENDS Naturals, FiniteSets, FiniteSetsExt, Functions, TLC

CONSTANTS
    Users,          \* EVM addresses (each has its own ckBTC subaccount)
    Utxos,          \* Bitcoin deposits to those subaccounts
    UtxoUser,       \* the address whose subaccount a UTXO pays
    UtxoHeight,     \* the block a UTXO is mined in
    UtxoValue,      \* the ckBTC the minter mints for it
    Fee,            \* ck_btc_ledger_fee
    Calls,          \* concurrent btc_to_erc20 calls
    MaxFaults,      \* signer, ledger and EVM failures allowed
    MaxTasks        \* MintErc20 tasks counted (the count saturates)

NoParams == -1      \* evm_params = None

VARIABLES
    btc,        \* Bitcoin status of each UTXO: "none" | "pending" | "confirmed"
    reported,   \* UTXOs the ckBTC minter has minted and reported
    sub,        \* ckBTC balance of each subaccount
    pool,       \* ckBTC of the bridge's main account
    store,      \* the mint orders store: (sender, nonce) -> order
    issued,     \* every signed mint order (history)
    moved,      \* UTXOs whose ckBTC was transferred to the main account
    evmNonce,   \* evm_params.nonce, NoParams while evm_params is None
    chainNonce, \* the transaction count of the bridge's EVM account
    minted,     \* mint orders executed on the EVM
    scheduled,  \* MintErc20 tasks appended by schedule_mint
    faults,     \* remote failures so far
    call        \* local state of each btc_to_erc20 call

vars == <<btc, reported, sub, pool, store, issued, moved, evmNonce,
          chainNonce, minted, scheduled, faults, call>>

Idle == [pc |-> "idle", usr |-> CHOOSE x \in Users : TRUE, todo |-> {},
         u |-> CHOOSE x \in Utxos : TRUE, txNonce |-> 0]

Heights == {UtxoHeight[u] : u \in Utxos}
Order == [sender : Users, nonce : Heights, amount : Nat, utxo : Utxos]

-----------------------------------------------------------------------------
(* The environment: Bitcoin, and the canister code outside src/ that sets *)
(* evm_params through State::update_evm_params.                           *)

Pay(u) == /\ btc[u] = "none" /\ btc' = [btc EXCEPT ![u] = "pending"]
          /\ UNCHANGED <<reported, sub, pool, store, issued, moved, evmNonce,
                         chainNonce, minted, scheduled, faults, call>>

Confirm(u) == /\ btc[u] = "pending" /\ btc' = [btc EXCEPT ![u] = "confirmed"]
              /\ UNCHANGED <<reported, sub, pool, store, issued, moved, evmNonce,
                             chainNonce, minted, scheduled, faults, call>>

UpdateEvmParams ==
    /\ evmNonce # chainNonce
    /\ evmNonce' = chainNonce
    /\ UNCHANGED <<btc, reported, sub, pool, store, issued, moved,
                   chainNonce, minted, scheduled, faults, call>>

-----------------------------------------------------------------------------
(* btc_to_erc20 and request_update_balance *)

BtcToErc20(c, usr) ==
    /\ call[c].pc = "idle"
    /\ call' = [call EXCEPT ![c] = [Idle EXCEPT !.pc = "update", !.usr = usr]]
    /\ UNCHANGED <<btc, reported, sub, pool, store, issued, moved, evmNonce,
                   chainNonce, minted, scheduled, faults>>

NewUtxos(usr) == {u \in Utxos : UtxoUser[u] = usr /\ btc[u] = "confirmed" /\ u \notin reported}
PendingUtxos(usr) == {u \in Utxos : UtxoUser[u] = usr /\ btc[u] = "pending"}

\* update_balance returns Ok(Minted...): the minter has minted them into the
\* subaccount; the loop over the statuses starts.
UpdateBalanceMinted(c) ==
    LET usr == call[c].usr
        new == NewUtxos(usr)
    IN /\ call[c].pc = "update"
       /\ new # {}
       /\ reported' = reported \cup new
       /\ sub' = [sub EXCEPT ![usr] = @ + MapThenSumSet(LAMBDA u : UtxoValue[u], new)]
       /\ call' = [call EXCEPT ![c].pc = "next", ![c].todo = new]
       /\ UNCHANGED <<btc, pool, store, issued, moved, evmNonce, chainNonce,
                      minted, scheduled, faults>>

\* schedule_mint: append_task(MintErc20(eth_address)), counted up to MaxTasks.
ScheduleMint(n) == IF n < MaxTasks THEN n + 1 ELSE n

\* NoNewUtxos with current_confirmations Some(_): schedule_mint.
UpdateBalancePending(c) ==
    /\ call[c].pc = "update"
    /\ NewUtxos(call[c].usr) = {} /\ PendingUtxos(call[c].usr) # {}
    /\ scheduled' = ScheduleMint(scheduled)
    /\ call' = [call EXCEPT ![c] = Idle]
    /\ UNCHANGED <<btc, reported, sub, pool, store, issued, moved, evmNonce,
                   chainNonce, minted, faults>>

\* NoNewUtxos with current_confirmations None: Err(NothingToMint).
NothingToMint(c) ==
    /\ call[c].pc = "update"
    /\ NewUtxos(call[c].usr) = {} /\ PendingUtxos(call[c].usr) = {}
    /\ call' = [call EXCEPT ![c] = Idle]
    /\ UNCHANGED <<btc, reported, sub, pool, store, issued, moved, evmNonce,
                   chainNonce, minted, scheduled, faults>>

\* Any other UpdateBalanceError, or the call to the minter failing.
UpdateBalanceFail(c) ==
    /\ call[c].pc = "update"
    /\ faults < MaxFaults
    /\ faults' = faults + 1
    /\ call' = [call EXCEPT ![c] = Idle]
    /\ UNCHANGED <<btc, reported, sub, pool, store, issued, moved, evmNonce,
                   chainNonce, minted, scheduled>>

\* The loop has handled every reported UTXO: btc_to_erc20 returns.
LoopEnd(c) ==
    /\ call[c].pc = "next" /\ call[c].todo = {}
    /\ call' = [call EXCEPT ![c] = Idle]
    /\ UNCHANGED <<btc, reported, sub, pool, store, issued, moved, evmNonce,
                   chainNonce, minted, scheduled, faults>>

-----------------------------------------------------------------------------
(* mint_erc20 *)

\* amount.checked_sub(fee) is None: Err(ValueTooSmall), next UTXO.
ValueTooSmall(c, u) ==
    /\ call[c].pc = "next" /\ u \in call[c].todo
    /\ UtxoValue[u] < Fee
    /\ call' = [call EXCEPT ![c].todo = @ \ {u}]
    /\ UNCHANGED <<btc, reported, sub, pool, store, issued, moved, evmNonce,
                   chainNonce, minted, scheduled, faults>>

\* Mutant: amount - fee without checked_sub.
MintErc20Unchecked(c, u) ==
    /\ call[c].pc = "next" /\ u \in call[c].todo
    /\ call' = [call EXCEPT ![c].pc = "sign", ![c].todo = @ \ {u}, ![c].u = u]
    /\ UNCHANGED <<btc, reported, sub, pool, store, issued, moved, evmNonce,
                   chainNonce, minted, scheduled, faults>>

\* prepare_mint_order is entered; it suspends on encode_and_sign.
MintErc20(c, u) ==
    /\ call[c].pc = "next" /\ u \in call[c].todo
    /\ UtxoValue[u] >= Fee
    /\ call' = [call EXCEPT ![c].pc = "sign", ![c].todo = @ \ {u}, ![c].u = u]
    /\ UNCHANGED <<btc, reported, sub, pool, store, issued, moved, evmNonce,
                   chainNonce, minted, scheduled, faults>>

\* Mutant: the order carries the minted amount, not amount_minus_fee.
MintOrderForGross(usr, u) ==
    [sender |-> usr, nonce |-> UtxoHeight[u], amount |-> UtxoValue[u], utxo |-> u]

\* The MintOrder of prepare_mint_order: sender Id256(eth_address, btc chain),
\* nonce = utxo.height, amount = amount_minus_fee.  utxo names the deposit
\* it comes from (history only).
MintOrderFor(usr, u) ==
    [sender |-> usr, nonce |-> UtxoHeight[u], amount |-> UtxoValue[u] - Fee, utxo |-> u]

\* Mutant: the order is stored as soon as it is signed.
SignDoneAndStore(c) ==
    LET o == MintOrderFor(call[c].usr, call[c].u)
    IN /\ call[c].pc = "sign"
       /\ issued' = issued \cup {o}
       /\ store' = (<<o.sender, o.nonce>> :> o) @@ store
       /\ call' = [call EXCEPT ![c].pc = "transfer"]
       /\ UNCHANGED <<btc, reported, sub, pool, moved, evmNonce, chainNonce,
                      minted, scheduled, faults>>

SignDone(c) ==
    /\ call[c].pc = "sign"
    /\ issued' = issued \cup {MintOrderFor(call[c].usr, call[c].u)}
    /\ call' = [call EXCEPT ![c].pc = "transfer"]
    /\ UNCHANGED <<btc, reported, sub, pool, store, moved, evmNonce, chainNonce,
                   minted, scheduled, faults>>

\* A remote failure at an await of mint_erc20: Err(Sign) from the signer,
\* a TransferError from the ledger, or Err from get_address/sign_transaction
\* (send_mint_order's error becomes Ok(Signed)).  The loop goes on.
MintStepFail(c) ==
    /\ call[c].pc \in {"sign", "transfer", "send_addr", "send_sign"}
    /\ faults < MaxFaults
    /\ faults' = faults + 1
    /\ call' = [call EXCEPT ![c].pc = "next"]
    /\ UNCHANGED <<btc, reported, sub, pool, store, issued, moved, evmNonce,
                   chainNonce, minted, scheduled>>

\* MintOrdersStore::push(sender, nonce, order): insert, replacing the order
\* already at (sender, nonce).
Push(s, k, o) == (k :> o) @@ s

\* The icrc1_transfer that transfer_ckbtc_from_subaccount asks for: amount
\* from the user's subaccount to the main account, with fee = the ledger
\* fee charged on top; the ledger refuses it (InsufficientFunds) when the
\* subaccount cannot pay both.
Icrc1Transfer(usr, amount) ==
    /\ sub[usr] >= amount + Fee
    /\ sub' = [sub EXCEPT ![usr] = @ - (amount + Fee)]
    /\ pool' = pool + amount

\* Mutant: the transfer asks for the minted amount, not amount_minus_fee.
TransferOkGross(c) ==
    LET u == call[c].u
        usr == call[c].usr
        o == MintOrderFor(usr, u)
    IN /\ call[c].pc = "transfer"
       /\ Icrc1Transfer(usr, UtxoValue[u])
       /\ moved' = moved \cup {u}
       /\ store' = Push(store, <<usr, o.nonce>>, o)
       /\ call' = [call EXCEPT ![c].pc = "send_addr"]
       /\ UNCHANGED <<btc, reported, issued, evmNonce, chainNonce, minted,
                      scheduled, faults>>

\* transfer_ckbtc_from_subaccount of amount_minus_fee returns Ok, then
\* store_mint_order.
TransferOk(c) ==
    LET u == call[c].u
        usr == call[c].usr
        o == MintOrderFor(usr, u)
    IN /\ call[c].pc = "transfer"
       /\ Icrc1Transfer(usr, o.amount)
       /\ moved' = moved \cup {u}
       /\ store' = Push(store, <<usr, o.nonce>>, o)
       /\ call' = [call EXCEPT ![c].pc = "send_addr"]
       /\ UNCHANGED <<btc, reported, issued, evmNonce, chainNonce, minted,
                      scheduled, faults>>

-----------------------------------------------------------------------------
(* send_mint_order *)

\* get_address returned; evm_params is None: Err(NotInitialized).
SendNotInitialized(c) ==
    /\ call[c].pc = "send_addr" /\ evmNonce = NoParams
    /\ call' = [call EXCEPT ![c].pc = "next"]
    /\ UNCHANGED <<btc, reported, sub, pool, store, issued, moved, evmNonce,
                   chainNonce, minted, scheduled, faults>>

\* get_address returned; the transaction is built with evm_params.nonce and
\* suspends on sign_transaction.
SendReadParams(c) ==
    /\ call[c].pc = "send_addr" /\ evmNonce # NoParams
    /\ call' = [call EXCEPT ![c].pc = "send_sign", ![c].txNonce = evmNonce]
    /\ UNCHANGED <<btc, reported, sub, pool, store, issued, moved, evmNonce,
                   chainNonce, minted, scheduled, faults>>

SendSigned(c) ==
    /\ call[c].pc = "send_sign"
    /\ call' = [call EXCEPT ![c].pc = "send_raw"]
    /\ UNCHANGED <<btc, reported, sub, pool, store, issued, moved, evmNonce,
                   chainNonce, minted, scheduled, faults>>

\* send_raw_transaction: the node executes a transaction whose nonce is the
\* account's next one.  The cached evm_params.nonce is left as it was.
SendRawOk(c) ==
    /\ call[c].pc = "send_raw" /\ call[c].txNonce = chainNonce
    /\ chainNonce' = chainNonce + 1
    /\ minted' = minted \cup {MintOrderFor(call[c].usr, call[c].u)}
    /\ call' = [call EXCEPT ![c].pc = "next"]
    /\ UNCHANGED <<btc, reported, sub, pool, store, issued, moved, evmNonce,
                   scheduled, faults>>

\* The node rejects the transaction (a used nonce, or an error).
SendRawFail(c) ==
    /\ call[c].pc = "send_raw"
    /\ call' = [call EXCEPT ![c].pc = "next"]
    /\ UNCHANGED <<btc, reported, sub, pool, store, issued, moved, evmNonce,
                   chainNonce, minted, scheduled, faults>>

-----------------------------------------------------------------------------
Init ==
    /\ btc = [u \in Utxos |-> "none"]
    /\ reported = {} /\ moved = {} /\ issued = {} /\ minted = {}
    /\ sub = [usr \in Users |-> 0]
    /\ pool = 0
    /\ store = <<>>
    /\ evmNonce = NoParams /\ chainNonce = 0
    /\ scheduled = 0 /\ faults = 0
    /\ call = [c \in Calls |-> Idle]

Next ==
    \/ \E u \in Utxos : Pay(u) \/ Confirm(u)
    \/ UpdateEvmParams
    \/ \E c \in Calls :
         \/ \E usr \in Users : BtcToErc20(c, usr)
         \/ UpdateBalanceMinted(c) \/ UpdateBalancePending(c)
         \/ NothingToMint(c) \/ UpdateBalanceFail(c)
         \/ LoopEnd(c)
         \/ \E u \in Utxos : ValueTooSmall(c, u) \/ MintErc20(c, u)
         \/ SignDone(c) \/ MintStepFail(c) \/ TransferOk(c)
         \/ SendNotInitialized(c) \/ SendReadParams(c) \/ SendSigned(c)
         \/ SendRawOk(c) \/ SendRawFail(c)

Spec == Init /\ [][Next]_vars

-----------------------------------------------------------------------------
(* Properties *)

\* Balances are natural numbers, the store maps (sender, nonce) keys to
\* orders, and each call is at one of its program points.
TypeOK ==
    /\ btc \in [Utxos -> {"none", "pending", "confirmed"}]
    /\ sub \in [Users -> Nat] /\ pool \in Nat
    /\ DOMAIN store \subseteq Users \X Heights
    /\ \A k \in DOMAIN store : store[k] \in Order
    /\ issued \subseteq Order /\ minted \subseteq issued
    /\ \A c \in Calls : call[c].pc \in {"idle", "update", "next", "sign", "transfer",
                                        "send_addr", "send_sign", "send_raw"}

\* store_mint_order runs only after the ckBTC transfer succeeded: every
\* stored mint order is backed by ckBTC moved out of the user's subaccount.
BackedOrders == \A k \in DOMAIN store : store[k].utxo \in moved

\* prepare_mint_order signs before the transfer, for amount_minus_fee: the
\* ckBTC of every UTXO moved to the main account has a signed order for the
\* net amount, the transfer's ledger fee being charged on top.
MovedHasSignedOrder ==
    \A u \in moved : \E o \in issued : o.utxo = u /\ o.amount + Fee = UtxoValue[u]

\* The subaccount of an address is shared by all its deposits, and each
\* mint_erc20 moves amount_minus_fee plus the ledger fee out of it: every
\* subaccount holds exactly the value of its reported UTXOs whose ckBTC has
\* not been moved, so no transfer takes the ckBTC of another deposit of the
\* same address, whatever the order the calls reach the ledger in; the main
\* account holds the net amount of the moved ones.
CkBtcConserved ==
    /\ \A usr \in Users :
         sub[usr] = MapThenSumSet(LAMBDA u : UtxoValue[u],
                                  {u \in reported \ moved : UtxoUser[u] = usr})
    /\ pool = MapThenSumSet(LAMBDA u : UtxoValue[u] - Fee, moved)

\* Spec (section 8): (sender, nonce) pairs of mint orders are distinct, since
\* the BFT bridge contract accepts each pair once.
NonceUnique ==
    \A o1, o2 \in issued : o1.sender = o2.sender /\ o1.nonce = o2.nonce => o1 = o2
=============================================================================
