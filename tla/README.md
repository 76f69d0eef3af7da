# TLA+ models of the ChainFusion SDK bridges

The SDK (`src/src/...`) holds Internet Computer canisters that bridge Bitcoin
assets (ckBTC, Runes, BRC-20, ordinals) and ICRC tokens to an EVM chain that
runs the BFT bridge contract.

Every canister runs its handlers one at a time. A handler is suspended at each
`await`: an inter-canister call, an HTTPS outcall or a threshold signature.
While it is suspended, other handlers, timer callbacks and scheduler tasks run.
This interleaving at `await` is the concurrency the models explore; each await
splits a handler into separate actions.

Heap state (`thread_local! STATE`, statics such as `NONCE`, caches) is lost on
upgrade. Stable structures survive it: the task queue, mint orders, ledger and
signer.

## System inventory

| Part | Source | Module | Status |
|---|---|---|---|
| BRC-20 bridge EVM collector, bridge configuration, `InscribeBrc20` and `RemoveMintOrder` task runs | `brc20-bridge/src/scheduler.rs`, `canister.rs`, `state.rs` | `EvmCollector` | partly |
| Rune bridge deposit and withdraw | `rune-bridge/src/ops.rs` | `RuneDeposit` | deposit partly, withdraw modelled |
| ckBTC bridge deposit | `btc-bridge/src/ops.rs`, `state.rs` | `BtcDeposit` | partly |
| ERC-721 mint order codec and `MintOrders` store | `minter-contract-utils/src/erc721_mint_order.rs` | `MintOrderCodec` | modelled |
| NFT bridge stores (`NftStore`, `BurnRequestStore`, `MintOrdersStore`) | `btc-nft-bridge/src/interface/store.rs` | `MintOrderCodec` | modelled |
| Abstract mint order store | spec section 4.2 | `MintOrdersSpec` | refined by `MintOrderCodec` |
| Inscriber wallet, ERC-20 minter, EVM minter and minter state, ICRC-2 inspect and signer, DID types, deployment tool, build script, integration tests | see PROJECT.json | none | not modelled (see below) |

PROJECT.json lists each component, each hazard at its source line, and the map
from each definition to the lines it translates.

## Modules

### `EvmCollector` (BRC-20 collector, instantiated by `MC_EvmCollector`)

State:
- `head` and `safe` are the EVM chain.
- `evmParams` is `State::evm_params`, abstracted to `next_block`. It is `None`
  until `InitEvmState` succeeds.
- `initTask` is the `InitEvmState` task: its status and its failures so far.
- `slot[s]` is one `CollectEvmEvents` task. It is idle, waiting, or suspended
  on `collect_logs`. It holds the `from` it captured and the safe block at its
  request.
- `tasks[e]` is the number of tasks `task_by_log` appended for log `e`. It
  saturates at 2.
- `bridgeAddr`, `admin` and `tokenSymbol` are the heap configuration:
  `bft_config.bridge_address`, `config.admin` and `bft_config.token_symbol`.
  The bridge address is the zero address until the admin configures it, and
  the zero address emits no logs.
- `mintOrders` holds the Minted logs whose signed order is still in the
  `MintOrdersStore`. The store is stable memory. Each Minted log's order is
  there from the start: the canister stored it before the user could submit it.
- `executed[e]` and `retries[e]` count the completed and the failed runs of
  the task of log `e`: `InscribeBrc20` for a Burnt log, `RemoveMintOrder` for
  a Minted one.

Actions:
- `Init` is `init`: `State::configure` panics unless `validate_indexer_url`
  accepts the URL (not empty, starting with https), so only a valid config
  reaches a state.
- `TimerTick` is the 1-second timer's `append_task`.
- `InitEvmStateOk` and `InitEvmStateFail` are `init_evm_state` and its
  exponential retry budget (5 attempts).
- `CollectEvmEventsStart`, `CollectEvmEventsFail` and `CollectEvmEventsDone`
  are `collect_evm_events` before its await, its failure (retried forever) and
  its completion. The completion includes the checkpoint update and
  `append_tasks(task_by_log)`.
- `AdminConfigureBftBridge` is `check_admin` followed by `configure_bft`. The
  new `BftBridgeConfig` replaces the old one whole.
- `SetTokenSymbol` is `State::set_token_symbol`:
  - a 16-byte tick replaces the symbol;
  - a shorter tick overwrites only the symbol's first bytes;
  - a longer tick is rejected.
  Its caller, the BRC-20 deposit path, is not among the sources.
- `RemoveMintOrder` is `remove_mint_order`. It removes the log's order from
  the store. `RemoveMintOrderFail` is the same task for a log whose `sender_id`
  is not a valid `Id256`; the task fails and is retried (`u32::MAX` retries).
- `InscribeBrc20` is the `InscribeBrc20` arm of `Brc20Task::execute`: the
  recipient decodes as UTF-8 and `erc20_to_brc20` succeeds. Its effect on
  Bitcoin is outside the sources. `InscribeBrc20Fail` is a failing run: the
  recipient is not UTF-8 (`BadRecipient`, every run fails), or
  `erc20_to_brc20` returns `Err` (`InscriberFails`, the first run fails).
- A task is due while fewer of its runs completed than were appended and
  `RetryAllowed` holds. `RetryAllowed` is `with_max_retries_policy(u32::MAX)`:
  more retries than any behaviour of the model reaches.
- `PostUpgrade` is the upgrade. `State::default` resets the heap
  configuration: the management canister becomes admin, and the bridge address
  and token symbol become zero. `evm_params` becomes `None`. The stable mint
  orders and task queue survive.

The node answers at some moment between the request and the response, so the
block it serves is any safe block in that window. With `PendingLogs`, logs of
blocks not yet safe may be reported without a block number.

### `RuneDeposit` (Rune bridge, instantiated by `MC_RuneDeposit`)

State:
- `btc` is the Bitcoin status of each UTXO.
- `ledger` holds the UTXOs the ledger records as used.
- `nonce` is the `NONCE` static.
- `store` holds the mint orders, keyed the way `deposit` keys them.
- `issued` and `minted` are history: every signed order, and every order
  executed on the EVM.
- `evmNonce` and `chainNonce` are the cached EVM nonce and the account's real
  transaction count.
- `runeCache` is `State::runes`, the rune infos cached from the indexer.
- `call[c]` is the local state of one `deposit` call.
- `wd[w]` is one `withdraw` call. `spent` holds the UTXOs Bitcoin saw spent.
  `broadcast` records the transactions handed to `send_transaction`.

Actions of `deposit`, one per await:
- `Deposit`, then `GetUtxosDone`: `get_utxos` with the ledger filter, then the
  confirmation gate and the amount gate.
- `RuneAmountsDone`: `get_rune_amounts`, then `fill_rune_infos` from the
  cache.
- `RuneListDone`: `get_rune_list` when a rune is not cached. The indexer's
  `/runes` page may lack any rune; if it lacks one of the deposit's runes the
  call returns `Unavailable`, otherwise the page replaces the cache.
- `NextRune` (`NONCE.fetch_add`), then `MintOrderSigned` (`push` and ledger
  `deposit`) or `MintOrderSignFail`.
- `SendMintOrderRead`, then `SendMintOrderOk`, `SendMintOrderFail` or
  `SendMintOrderLost`.
- `DepositReturn`.

`RemoteFail` covers the error returns of `bitcoin_get_utxos` and of the two
indexer requests.

Actions of `withdraw`:
- `WithdrawNoInputs` and `WithdrawMixedPaths` (the `todo!()`).
- `WithdrawStart`, where the inputs are the whole ledger.
- `FeeRateDone`, `WithdrawSigned` and `WithdrawFail`.
- `SendTxDone`. Bitcoin accepts the transaction only if its inputs are
  unspent.

`PostUpgrade` resets `NONCE`, re-reads the EVM nonce and empties the rune
cache. The rune-bridge `State`, ledger and mint-order store are not under
`src/`. They are modelled from the spec and marked `spec_modelled` in the map.

### `BtcDeposit` (ckBTC bridge, instantiated by `MC_BtcDeposit`)

State:
- `reported` holds the UTXOs the ckBTC minter has reported as minted.
- `sub` and `pool` are the ckBTC balances of the subaccounts and of the main
  account.
- `store` maps `(sender, nonce)` to a mint order.
- `moved` holds the UTXOs whose ckBTC was transferred.
- `evmNonce` and `chainNonce` are as in `RuneDeposit`.
- `scheduled` counts the `MintErc20` tasks.
- `call[c]` is one `btc_to_erc20` call.

Actions:
- `btc_to_erc20`: `BtcToErc20`, `UpdateBalanceMinted`, `UpdateBalancePending`
  (with `schedule_mint`), `NothingToMint`, `UpdateBalanceFail` and `LoopEnd`.
- `mint_erc20`: `ValueTooSmall` and `MintErc20`, then `SignDone`, `TransferOk`
  (with `store_mint_order`) and `MintStepFail`.
- `Icrc1Transfer` is the ledger transfer that `transfer_ckbtc_from_subaccount`
  asks for. It moves `amount_minus_fee` to the main account and charges the
  ledger fee on top. `TransferOk` uses it.
- `send_mint_order`: `SendNotInitialized`, `SendReadParams`, `SendSigned`,
  `SendRawOk` and `SendRawFail`.

The mint order's nonce is the UTXO's height (`ops.rs:34`).

`CkBtcConserved` is about the subaccount that all deposits of one address
share (`ops.rs:132-159`). Each `mint_erc20` moves `amount_minus_fee` plus the
ledger fee out of it:
- each subaccount holds exactly the value of its reported UTXOs whose ckBTC
  has not been moved, so no transfer takes the ckBTC of another deposit of
  the same address, in whatever order the calls reach the ledger;
- a UTXO whose signing or transfer failed (`ops.rs:116`) keeps its ckBTC there;
- the main account holds the net amount of the moved UTXOs.

### `MintOrderCodec` and `MintOrdersSpec` (instantiated by `MC_MintOrderCodec`)

The codec:
- `EncodeData`, `SignedPart`, `DecodeData` and `DecodeSigned` translate
  `encode_and_sign`, `decode_data` and `decode_signed` over byte sequences.
- `ToBE` and `FromBE` are the big-endian integers. `Utf8Valid` is
  `String::from_utf8`, with overlong forms, surrogates and code points past
  U+10FFFF rejected.
- A behaviour encodes and signs one order (`EncodeAndSign`, or
  `EncodeAndSignFail`). The blob may then be altered on its way: `AlterDataSize`
  changes its data-size field and `Truncate` cuts it. `DecodeSignedStep`
  decodes it.
- `TypeOK` checks that a decoded order has every fixed-width field at its
  width (32, 20 or 16 bytes), chain ids and nonce that fit a `u32`, and a
  65-byte signature.

The store:
- `mintOrdersMap` is the `StableMultimap`, keyed by
  `<<MintOrderKey::to_bytes, operation id>>`.
- `InsertOrder`, `GetOrder`, `GetAllOrders`, `RemoveOrder` and `ClearOrders`
  are the `MintOrders` methods. `reply` holds what the last call returned.
- Read through `MintOrderKey::from_bytes`, the store refines `MintOrdersSpec`,
  the keyed map of spec section 4.2, in which a push at an occupied key returns
  the replaced value.

The NFT bridge stores (`btc-nft-bridge/src/interface/store.rs`):
- `NftMintOrderPush` and `NftMintOrderRemove` are `MintOrdersStore::push` and
  `remove`. They use the same `MintOrders` with the all-zero `SRC_TOKEN`, so
  the refinement covers them.
- `nftStore` is `NftStore`, keyed by reveal txid:
  - `NftInsert` builds the entry with `NftInfo::new`. `ParseU32` parses the
    vout after the last `:` of the output string as Rust's `u32` parse does
    (an optional leading `+`, then digits); a piece that is not a `u32` is
    `MalformedAddress`, and nothing is inserted.
  - `NftRemove` removes the entry.
- `burnRequests` is `BurnRequestStore`. It has `BurnInsert`, `BurnRemove` and
  `BurnSetTransferred`; the last does nothing for an unknown id.

## Runs

| Run | Expect | States | Shows |
|---|---|---|---|
| `evm_collector` | pass | 210,900 | With two collectors and pending logs, the checkpoint never passes an unscheduled event or an unsafe block. Under fairness, once the admin has configured the bridge, the task of every Burnt or Minted event eventually completes, even when the first inscription attempt fails. |
| `evm_faults` | pass | 2,873,792 | Two collectors, pending logs, an init failure, one upgrade, a Minted log whose sender does not decode, a Burnt log whose recipient is not UTF-8, a failing inscription and the three ticks: every variable keeps its type, and the checkpoint never goes past one block beyond the chain. |
| `evm_duplicate` | violation | | Overlapping collectors, or a log reported before and after it gets its block number, append two `InscribeBrc20` tasks for one burn. |
| `evm_upgrade` | violation | | An upgrade resets `evm_params`, the admin and the bridge address, and nothing re-initialises `evm_params`, so later events are never handled. |
| `evm_rollback` | violation | | With two collections in flight, the older answer writes a smaller `next_block` over the newer one (spec lines 36 and 191 say it never decreases). |
| `rune_faults` | pass | 52,564 | Two users, one deposit call at a time, with a signer failure, lost EVM answers, an upgrade and a withdraw: every order is built with the Bitcoin chain id as sender and the EVM chain id in its store key, and the withdraw spends only ledger entries. |
| `rune_double` | violation | | Two concurrent deposits mint the same UTXO. |
| `rune_nonce_reset` | violation | | After an upgrade, a mint order reuses a nonce. |
| `rune_reuse` | violation | | Two withdraws spend the same ledger UTXOs. |
| `codec` | pass | 213,408 | Decoded orders have their field widths; round trip and signature coverage for 72 orders. The `MintOrders` store, driven also through the NFT bridge's `MintOrdersStore`, refines `MintOrdersSpec`. The NFT and burn-request stores run beside it. |
| `btc_deposit` | pass | 438,140 | Two interleaved `btc_to_erc20` calls of two users with a failure: every stored order is backed by moved ckBTC, every moved deposit has a net-of-fee order, and ckBTC is conserved between subaccounts, main account and ledger fees. |
| `btc_nonce` | violation | | Two deposits mined in the same block get the same `(sender, nonce)`. |

Every violation run has a finding in PROJECT.json.

Every property of a passing run has a mutant in PROJECT.json: a plausible bug in
the code the property is about, which the run detects. Examples:
- an off-by-one;
- a dropped filter or gate;
- `load` instead of `fetch_add`;
- little-endian instead of big-endian bytes;
- a key that repeats its sender half.

### Disagreements seen while modelling that no run keeps

These are reached by the models, but they have no run of their own:
- **Rune deposit, lost EVM answer** (`ops.rs:629`). After `SendMintOrderLost`
  the cached EVM nonce lags the account's transaction count; every later send
  then uses a nonce the chain already consumed.
- **Rune deposit, signer failure** (`ops.rs:77`). The ledger marks the
  deposit's UTXOs as used once the first rune's order is signed; a signer
  failure on a later rune returns `Err`, and the ledger filter hides the
  UTXOs from every later deposit, so that rune is never minted.
- **ckBTC send** (`btc-bridge/src/ops.rs:265`). `send_mint_order` never
  increments `evm_params.nonce`, so every send after the first executed one
  reuses a spent nonce. Spec section 4.6 step 7 says the nonce is incremented.
- **Decode panics** (`erc721_mint_order.rs:169`). `decode_data` panics on a
  data-size field past the end of the blob, and on invalid UTF-8, instead of
  returning `None`. `DecodeSigned` yields "panic" for the blobs
  `AlterDataSize` produces.
- **BRC-20 mint order removed on an unfinalised log** (`scheduler.rs:96`). A
  Minted log without a block number still becomes a `RemoveMintOrder` task.
  The comment at line 81 says such logs are filtered out. The model has no
  chain reorganisation, so the loss this could cause is not reached.
- **BRC-20 burn with an undecodable recipient** (`scheduler.rs:187`). Its
  `InscribeBrc20` task fails on every run and is retried every 5 s for ever;
  spec line 193 promises every burn a terminal success. `EveryEventHandled`
  leaves such logs out, and `evm_faults` reaches the endless retry.

## Bounds

`EvmCollector`:
- Four events on blocks 1 to 3. Two share block 2, so a range can end inside a
  block that has several logs.
- The kinds are Burnt, Minted and Other (which `task_by_log` drops).
- Two slots are the fewest that let collections overlap.
- `InitRetries = 5`. Init fails at most once (`evm_faults`) or not at all
  (`evm_collector`, where the liveness check dominates the run time).
- At most one upgrade.
- Two callers, the admin and one other user.
- In `evm_faults`, the Minted log `e2` has a sender that does not decode and
  the Burnt log `e3` a recipient that is not UTF-8. The ticks are "abc", then
  the shorter "d", and a 17-byte tick that is rejected. The other runs leave
  the ticks empty to keep their state spaces small.
- The inscriber fails the first run of the burn `e1` (`InscriberFails`) in
  `evm_collector` and `evm_faults`: one failure is enough for a task that is
  not run again to lose the burn.
- The indexer URL of the init config is empty, plain http or https.

`RuneDeposit`:
- UTXO `u1` carries two runes, so the per-rune loop runs more than once. `u2`
  alone misses the fee in the one-user configuration.
- `rune_faults` runs one deposit call at a time: with faults, two calls
  would need `MaxNonce = 8` and take too long. The interleaving of two calls
  is explored by `rune_double`.
- `MaxNonce = 4` is the most orders these UTXOs can produce in one call's
  lifetime here, so the bound never cuts a behaviour.
- The rune page is any subset of the two runes.
- At most one signer failure and one upgrade. One or two withdraws.

`BtcDeposit`:
- Two users. User `a` has two UTXOs above the ledger fee (2). User `b` has
  one below the fee and one above it, so calls of both users move ckBTC
  while they interleave.
- `u1` and `u2` are in different blocks in `btc_deposit` and in the same
  block in `btc_nonce`.
- Two calls, one remote failure.

`MintOrderCodec`:
- Every field that can differ takes two byte patterns.
- The nonce is 0, 258 (a carry between bytes) or 2^31-1. TLC integers are
  32-bit signed, so this stands in for `u32::MAX`.
- The token URIs are empty, ASCII, and a two-byte UTF-8 character.
- The data-size alterations are 1 and 300 (past the end); the cut is one byte.
- The store has one sender, two `src_token`s that differ only in their last
  byte, and two operation ids.
- The NFT stores have one reveal txid, one holder and one burn id. The outputs
  are "ab:1", which parses, and "ab:x", which does not.

## Fairness

`FairSpec` (`EvmCollector`) assumes:
- The chain keeps producing blocks, and the safe tag follows the head.
- The timer keeps firing, and the scheduler runs a waiting task: weak fairness.
- A pending init query is eventually answered.
- An `eth_getLogs` request that is retried forever is eventually answered. This
  needs strong fairness, because a failure keeps disabling the completion.
- A due `RemoveMintOrder` or `InscribeBrc20` task is eventually run: weak
  fairness. The timer calls the scheduler's `run` every second, and a failed
  task is rescheduled after 5 s. The inscriber fails a bounded number of
  times (`InscriberFails`).

These are the environment assumptions under which "every event is handled"
is the right promise. The other modules check safety and refinement only. A
deposit or withdraw runs only when a user calls it, so no fairness on those
calls is justified.

## Not modelled

- **canister.rs of the ckBTC bridge.** It is an older copy of the deposit flow
  that calls `State` methods that no longer exist and leaves `schedule_mint`
  as `todo!()`. The spec (section 9, design notes) treats the `ops.rs` form as authoritative.
- **What `erc20_to_brc20` and `brc20_to_erc20` do.** They are in the BRC-20
  `ops` module, which is not among the sources. `InscribeBrc20` models the
  task around the call (success or failure); the `MintErc20` task, which
  nothing under `src/` appends, ignores its call's result.
- **Token symbol padding** (`brc20-bridge/src/state.rs:259`). Spec line 144
  says a tick shorter than 16 bytes is zero-padded. `set_token_symbol` leaves
  the previous tick's trailing bytes instead, and `evm_faults` reaches such a
  symbol. This disagreement has a hazard in PROJECT.json and no violation run.
- **Inscriber fee rate.** `get_fee_rate` indexes `fee_percentiles[90]`, which
  panics when the network returns fewer than 91 entries. The values are in
  millisatoshi per vbyte, but they are passed to `from_sat_per_vb`. This is
  arithmetic on one response, with no interleaving for a model to explore.
- **ERC-20 minter BftBridge deployment.** `init_bft_bridge_contract` reads
  the side's deployment status, awaits `initialize`, and writes the status
  back. Two overlapping calls can both deploy. The status type and its
  transitions are outside the sources and the spec, so this is a hazard
  without a model.
- **Inscriber wallet.** `inscribe` locks UTXOs with the inscriber state's
  `process_utxos` and releases all of them with `reset_utxo_vault`. That state
  module is not among the sources, and the spec does not describe the vault.
  The hazards at `wallet.rs:232` and `wallet.rs:253` (locks lost to a
  concurrent call, or left behind by an error return) are listed but not
  modelled.
- **ERC-20 minter.** Its handlers only append `InitEvmState` and
  `CollectEvmEvents` tasks for the two bridge sides. What the tasks do, and
  the BftBridge deployment status, are in modules that are not among the
  sources.
- **Configuration and types.** The EVM minter state, the minter canister
  state, the ICRC-2 signer cell and inspect predicate, the DID types, the
  deployment tool, the build script and the integration tests are
  configuration, types, I/O or tests. They have no interleaving state
  machine.
- **The ledger, the OrdersStore and the rune-bridge `State`.** These are not
  under `src/`. They are modelled from the spec as plain sets and functions.
