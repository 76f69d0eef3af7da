---------------------------- MODULE EvmCollector ----------------------------
(***************************************************************************)
(* The EVM event collector of the BRC-20 bridge canister                   *)
(* (src/brc20-bridge/src/scheduler.rs, canister.rs).                       *)
(*                                                                         *)
(* A 1-second timer appends a CollectEvmEvents task and runs the task      *)
(* scheduler.  The scheduler spawns every due task, so several collection  *)
(* tasks can be suspended on their eth_getLogs call at the same time.  A   *)
(* task reads the checkpoint EvmParams.next_block before its await and     *)
(* writes next_block after it; every returned log of a Burnt or Minted     *)
(* event becomes an InscribeBrc20 or RemoveMintOrder task.                 *)
(*                                                                         *)
(* The EVM chain is abstracted to a set of bridge events, each at a fixed  *)
(* block; blocks up to `safe` are finalised, blocks in (safe, head] exist  *)
(* but may be reported as logs without a block number.                    *)
(*                                                                         *)
(* The logs are those of the BftBridge contract.  Its address reaches the  *)
(* canister only through admin_configure_bft_bridge; until then            *)
(* bft_config.bridge_address is H160::default() and collection queries    *)
(* the zero address, which emits no logs.  State lives on the heap, so an  *)
(* upgrade rebuilds it with Default: no evm_params, the zero bridge        *)
(* address, and the management canister as admin.                          *)
(*                                                                         *)
(* A RemoveMintOrder task removes the signed order of a Minted event from  *)
(* the MintOrdersStore, which lives in stable memory and survives an       *)
(* upgrade.  Its orders are those whose Minted event the chain carries:    *)
(* the canister stored each before the user could submit it.               *)
(***************************************************************************)
EXTENDS Naturals, Sequences, FiniteSets, FiniteSetsExt

CONSTANTS
    Events,         \* the bridge-contract logs the chain will ever carry
    EventBlock,     \* [Events -> 1..MaxBlock]: block of each log
    EventKind,      \* [Events -> {"Burnt", "Minted", "Other"}]
    MaxBlock,       \* last block of the modelled chain
    Slots,          \* bound on CollectEvmEvents tasks pending at once
    InitRetries,    \* EVM_INFO_INITIALIZATION_RETRIES
    InitFailuresMax,\* environment: failures of the EVM before it answers InitEvmState
    PendingLogs,    \* environment: may eth_getLogs return logs without a block number?
    MaxUpgrades,    \* bound on canister upgrades
    None,           \* model value: Option::None
    Callers,        \* principals that call admin_configure_bft_bridge
    Admin,          \* Brc20BridgeConfig.admin passed to init (one of Callers)
    Bridge,         \* the BftBridge contract address the admin configures
    BadSender,      \* Minted logs whose sender_id is not a valid Id256
    BadRecipient,   \* Burnt logs whose recipient_id is not UTF-8
    InscriberFails, \* environment: Burnt logs whose first erc20_to_brc20 call fails
    Ticks           \* BRC-20 ticks (byte strings) passed to set_token_symbol

ASSUME /\ EventBlock \in [Events -> 1..MaxBlock]
       /\ EventKind \in [Events -> {"Burnt", "Minted", "Other"}]
       /\ InitFailuresMax <= InitRetries + 1
       /\ PendingLogs \in BOOLEAN
       /\ Admin \in Callers
       /\ Ticks \subseteq Seq(0..255)
       /\ BadSender \subseteq {e \in Events : EventKind[e] = "Minted"}
       /\ BadRecipient \subseteq {e \in Events : EventKind[e] = "Burnt"}
       /\ InscriberFails \subseteq {e \in Events : EventKind[e] = "Burnt"}

VARIABLES
    head,       \* latest EVM block
    safe,       \* latest block returned for the "Safe" tag
    evmParams,  \* State.evm_params (heap): None or [next_block]
    initTask,   \* the InitEvmState scheduled task
    slot,       \* Slots -> a CollectEvmEvents task and its captured values
    tasks,      \* Events -> number of tasks appended for the log (2 = "two or more")
    upgrades,
    bridgeAddr, \* State.bft_config.bridge_address (heap)
    admin,      \* State.config.admin (heap)
    tokenSymbol,\* State.bft_config.token_symbol: 16 bytes (heap)
    mintOrders, \* Minted logs whose order is still in the MintOrdersStore (stable)
    executed,   \* Events -> InscribeBrc20/RemoveMintOrder tasks of the log that completed
    retries     \* Events -> failed runs of the log's task (2 = "more")

cfgVars == <<bridgeAddr, admin, tokenSymbol>>
execVars == <<mintOrders, executed, retries>>
vars == <<head, safe, evmParams, initTask, slot, tasks, upgrades, cfgVars, execVars>>

Blocks == 0..MaxBlock + 1
SlotStates == {"idle", "waiting", "awaiting"}
Idle == [state |-> "idle", contract |-> "zero", from |-> 0, safeSeen |-> 0]

\* Indexer URLs, abstracted to their scheme and host: empty, plain http, https.
IndexerUrls == {<<>>, <<"http", "indexer">>, <<"https", "indexer">>}

\* Brc20BridgeConfig::default: the management canister as admin, an empty
\* indexer URL.
Brc20BridgeConfigDefault == [admin |-> "management_canister", indexer_url |-> <<>>]

\* State::default: Brc20BridgeConfig::default(), BftBridgeConfig::default()
\* (bridge_address H160 zero), no evm_params.
SymbolBytes == 1..16
ZeroSymbol == [i \in SymbolBytes |-> 0]
StateDefault == [admin |-> Brc20BridgeConfigDefault.admin, bridge_address |-> "zero",
                 token_symbol |-> ZeroSymbol, evm_params |-> None]

\* Brc20BridgeConfig::validate_indexer_url: not empty, and starting with https.
ValidateIndexerUrl(url) == url # <<>> /\ Head(url) = "https"

\* State::configure: a config that fails validate_indexer_url makes init
\* panic, so the canister never reaches a state with it; the signer and
\* the logger it sets up are not modelled.  The admin is the config's.
Configure(config) == ValidateIndexerUrl(config.indexer_url) /\ admin = config.admin

\* State::get_evm_info: the bridge contract and a copy of evm_params.
GetEvmInfo == [bridge_contract |-> bridgeAddr, params |-> evmParams]

\* State::update_evm_params.
UpdateEvmParams(p) == evmParams' = p

\* The logs an address emits: only the BftBridge's are modelled.
LogsOf(contract) == IF contract = Bridge THEN Events ELSE {}

\* Logs that task_by_log turns into a task; "Other" fails BridgeEvent::from_log.
Compatible == {e \in Events : EventKind[e] \in {"Burnt", "Minted"}}

\* A task counter that saturates: the properties tell apart 0, 1 and "more".
Bump(n) == IF n < 2 THEN n + 1 ELSE 2

\* Every variable has its type; in particular the checkpoint next_block that
\* collect_evm_events writes is at most one past the last block of the chain.
TypeOK ==
    /\ head \in 0..MaxBlock /\ safe \in 0..head
    /\ evmParams \in {None} \cup [next_block : Blocks]
    /\ initTask \in [status : {"waiting", "completed", "failed"},
                     failures : 0..InitRetries + 1]
    /\ slot \in [Slots -> [state : SlotStates, contract : {"zero", Bridge}, from : Blocks,
                           safeSeen : 0..MaxBlock]]
    /\ tasks \in [Events -> 0..2]
    /\ upgrades \in 0..MaxUpgrades
    /\ bridgeAddr \in {"zero", Bridge}
    /\ admin \in Callers \cup {"management_canister"}
    /\ tokenSymbol \in [SymbolBytes -> 0..255]
    /\ mintOrders \subseteq {e \in Events : EventKind[e] = "Minted"}
    /\ executed \in [Events -> 0..2] /\ retries \in [Events -> 0..2]

(***************************************************************************)
(* init: State::configure keeps the config (its admin); the init task is  *)
(* appended before the timer is set.                                       *)
(***************************************************************************)
Init ==
    /\ head = 0 /\ safe = 0
    /\ evmParams = StateDefault.evm_params
    /\ bridgeAddr = StateDefault.bridge_address
    /\ tokenSymbol = StateDefault.token_symbol
    /\ \E url \in IndexerUrls : Configure([admin |-> Admin, indexer_url |-> url])
    /\ initTask = [status |-> "waiting", failures |-> 0]
    /\ slot = [s \in Slots |-> Idle]
    /\ tasks = [e \in Events |-> 0]
    /\ upgrades = 0
    /\ mintOrders = {e \in Events : EventKind[e] = "Minted"}
    /\ executed = [e \in Events |-> 0] /\ retries = [e \in Events |-> 0]

(***************************************************************************)
(* The EVM chain: new blocks, and the safe tag following the head.         *)
(***************************************************************************)
NewBlock ==
    /\ head < MaxBlock
    /\ head' = head + 1
    /\ UNCHANGED <<safe, evmParams, initTask, slot, tasks, upgrades, cfgVars, execVars>>

SafeAdvance ==
    /\ safe < head
    /\ safe' = safe + 1
    /\ UNCHANGED <<head, evmParams, initTask, slot, tasks, upgrades, cfgVars, execVars>>

(***************************************************************************)
(* Timer tick: append_task(collect_evm_events_task()); run().              *)
(***************************************************************************)
TimerTick(s) ==
    /\ slot[s].state = "idle"
    /\ slot' = [slot EXCEPT ![s].state = "waiting"]
    /\ UNCHANGED <<head, safe, evmParams, initTask, tasks, upgrades, cfgVars, execVars>>

(***************************************************************************)
(* init_evm_state: the query succeeds and evm_params is set, or it fails   *)
(* and the task is retried up to InitRetries times, then marked Failed.    *)
(***************************************************************************)
InitEvmStateOk ==
    /\ initTask.status = "waiting"
    /\ UpdateEvmParams([next_block |-> 0])
    /\ initTask' = [initTask EXCEPT !.status = "completed"]
    /\ UNCHANGED <<head, safe, slot, tasks, upgrades, cfgVars, execVars>>

InitEvmStateFail ==
    /\ initTask.status = "waiting"
    /\ initTask.failures < InitFailuresMax
    /\ initTask' = [failures |-> initTask.failures + 1,
                    status |-> IF initTask.failures + 1 > InitRetries
                               THEN "failed" ELSE "waiting"]
    /\ UNCHANGED <<head, safe, evmParams, slot, tasks, upgrades, cfgVars, execVars>>

(***************************************************************************)
(* collect_evm_events up to the await on collect_logs: without params the  *)
(* task returns Ok; otherwise it captures the bridge address and params   *)
(* and asks for the contract's logs from next_block to Safe.               *)
(***************************************************************************)
CollectEvmEventsStart(s) ==
    /\ slot[s].state = "waiting"
    /\ LET info == GetEvmInfo
       IN slot' = [slot EXCEPT ![s] =
                     IF info.params = None THEN Idle
                     ELSE [state |-> "awaiting", contract |-> info.bridge_contract,
                           from |-> info.params.next_block, safeSeen |-> safe]]
    /\ UNCHANGED <<head, safe, evmParams, initTask, tasks, upgrades, cfgVars, execVars>>

\* collect_logs fails: into_scheduler_result gives Err and the task, whose
\* retry policy is Infinite, is rescheduled.
CollectEvmEventsFail(s) ==
    /\ slot[s].state = "awaiting"
    /\ slot' = [slot EXCEPT ![s].state = "waiting"]
    /\ UNCHANGED <<head, safe, evmParams, initTask, tasks, upgrades, cfgVars, execVars>>

\* Mutant: the range excludes its first block.
FinalisedFromExclusive(contract, from, served) ==
    {e \in LogsOf(contract) : from < EventBlock[e] /\ EventBlock[e] <= served}

\* Mutant: logs are asked up to BlockNumber::Latest instead of Safe.
FinalisedLatest(contract, from, served) ==
    {e \in LogsOf(contract) : from <= EventBlock[e] /\ EventBlock[e] <= head}

\* Logs with a block number that the node returns for [from, served]: the
\* node answers at some moment between the request and the response.
Finalised(contract, from, served) ==
    {e \in LogsOf(contract) : from <= EventBlock[e] /\ EventBlock[e] <= served}

\* Logs of blocks not yet safe, which the node may report without a block number.
PendingChoices(contract, served) ==
    IF PendingLogs THEN {{}, {e \in LogsOf(contract) : served < EventBlock[e] /\ EventBlock[e] <= head}}
    ELSE {{}}

\* Mutant: the checkpoint skips a block.
NextBlockAfterSkip(fin) == Max({EventBlock[e] : e \in fin}) + 2

\* take_while(block_number.is_some()).last(): the new checkpoint, if any.
NextBlockAfter(fin) == Max({EventBlock[e] : e \in fin}) + 1

\* append_tasks(logs.filter_map(task_by_log)): every returned log counts.
TaskByLog(logs) == [e \in Events |-> IF e \in logs /\ e \in Compatible
                                     THEN Bump(tasks[e]) ELSE tasks[e]]

CollectEvmEventsDone(s) ==
    /\ slot[s].state = "awaiting"
    /\ \E served \in slot[s].safeSeen..safe :
       \E pend \in PendingChoices(slot[s].contract, served) :
         LET fin  == Finalised(slot[s].contract, slot[s].from, served)
             logs == fin \cup pend
         IN  /\ IF fin = {} THEN UNCHANGED evmParams
                ELSE UpdateEvmParams([next_block |-> NextBlockAfter(fin)])
             /\ tasks' = TaskByLog(logs)
    /\ slot' = [slot EXCEPT ![s] = Idle]
    /\ UNCHANGED <<head, safe, initTask, upgrades, cfgVars, execVars>>

(***************************************************************************)
(* admin_configure_bft_bridge: check_admin panics for any other caller    *)
(* (the call traps and changes nothing); configure_bft then replaces the   *)
(* whole bft_config, whose bridge_address is the deployed BftBridge.       *)
(***************************************************************************)
\* State::check_admin.
CheckAdmin(caller) == caller = admin

\* State::configure_bft: the new BftBridgeConfig replaces the old one.
ConfigureBft(bftConfig) == /\ bridgeAddr' = bftConfig.bridge_address
                           /\ tokenSymbol' = bftConfig.token_symbol

AdminConfigureBftBridge(caller) ==
    /\ CheckAdmin(caller)
    /\ ConfigureBft([bridge_address |-> Bridge, token_symbol |-> ZeroSymbol])
    /\ UNCHANGED <<head, safe, evmParams, initTask, slot, tasks, upgrades, admin, execVars>>

(***************************************************************************)
(* State::set_token_symbol, called by the deposit path with the BRC-20     *)
(* tick: a tick of 16 bytes replaces the symbol, a shorter one is copied   *)
(* over its first bytes and leaves the others as they were, and a longer   *)
(* one returns Err(SetTokenSymbol) and changes nothing.                    *)
(***************************************************************************)
SetTokenSymbol(tick) ==
    /\ Len(tick) <= Len(tokenSymbol)
    /\ tokenSymbol' = [i \in SymbolBytes |-> IF i <= Len(tick) THEN tick[i] ELSE tokenSymbol[i]]
    /\ UNCHANGED <<head, safe, evmParams, initTask, slot, tasks, upgrades, bridgeAddr, admin,
                   execVars>>

(***************************************************************************)
(* The tasks task_by_log appends for a Burnt or a Minted log, run by      *)
(* Brc20Task::execute.  A task is due while fewer runs of it completed    *)
(* than were appended and its retry policy still allows a run: the        *)
(* options are u32::MAX retries with a fixed 5 s backoff.                  *)
(***************************************************************************)
\* Mutant: TaskOptions::default() without with_max_retries_policy, so a
\* task that failed once is not run again.
RetryAllowedOnce(n) == n = 0

\* with_max_retries_policy(u32::MAX): 2^32 - 1 retries, 5 s apart, are more
\* than any behaviour of the model reaches.
RetryAllowed(n) == TRUE

TaskDue(e) == executed[e] < tasks[e] /\ RetryAllowed(retries[e])

\* A run of the task failed: TaskExecutionFailed, rescheduled by the policy.
TaskFailed(e) == retries' = [retries EXCEPT ![e] = Bump(@)]

\* mint_orders_mut().remove(sender_id, nonce): MintOrders::remove of an
\* absent key changes nothing.
RemoveFromStore(e) == mintOrders' = mintOrders \ {e}

RemoveMintOrderDue(e) == EventKind[e] = "Minted" /\ TaskDue(e)

\* remove_mint_order: Id256::from_slice on the event's sender_id fails for a
\* BadSender log, and the task returns TaskExecutionFailed.
RemoveMintOrder(e) ==
    /\ RemoveMintOrderDue(e)
    /\ e \notin BadSender
    /\ RemoveFromStore(e)
    /\ executed' = [executed EXCEPT ![e] = Bump(@)]
    /\ UNCHANGED <<head, safe, evmParams, initTask, slot, tasks, upgrades, cfgVars, retries>>

RemoveMintOrderFail(e) ==
    /\ RemoveMintOrderDue(e)
    /\ e \in BadSender
    /\ TaskFailed(e)
    /\ UNCHANGED <<head, safe, evmParams, initTask, slot, tasks, upgrades, cfgVars,
                   mintOrders, executed>>

\* InscribeBrc20: String::from_utf8(recipient_id) must succeed, then
\* ops::erc20_to_brc20 (the inscriber, outside this crate) creates the
\* inscription.  Its effects are on Bitcoin and are not modelled.
InscribeBrc20Due(e) == EventKind[e] = "Burnt" /\ TaskDue(e)

InscribeBrc20(e) ==
    /\ InscribeBrc20Due(e)
    /\ e \notin BadRecipient
    /\ executed' = [executed EXCEPT ![e] = Bump(@)]
    /\ UNCHANGED <<head, safe, evmParams, initTask, slot, tasks, upgrades, cfgVars,
                   mintOrders, retries>>

\* The task fails: a recipient that is not UTF-8 fails every run, and
\* erc20_to_brc20 returns Err (the inscriber's failures are bounded to the
\* first run of an InscriberFails log).
InscribeBrc20Fail(e) ==
    /\ InscribeBrc20Due(e)
    /\ \/ e \in BadRecipient
       \/ e \in InscriberFails /\ retries[e] = 0
    /\ TaskFailed(e)
    /\ UNCHANGED <<head, safe, evmParams, initTask, slot, tasks, upgrades, cfgVars,
                   mintOrders, executed>>

(***************************************************************************)
(* Upgrade: the canister is stopped (no call in flight), STATE is rebuilt  *)
(* with State::default, the stable task queue survives, and post_upgrade   *)
(* only sets the timers.                                                   *)
(***************************************************************************)
PostUpgrade ==
    /\ upgrades < MaxUpgrades
    /\ \A s \in Slots : slot[s].state # "awaiting"
    /\ evmParams' = StateDefault.evm_params
    /\ bridgeAddr' = StateDefault.bridge_address
    /\ admin' = StateDefault.admin
    /\ tokenSymbol' = StateDefault.token_symbol
    /\ upgrades' = upgrades + 1
    /\ UNCHANGED <<head, safe, initTask, slot, tasks, execVars>>

Next ==
    \/ NewBlock \/ SafeAdvance
    \/ InitEvmStateOk \/ InitEvmStateFail
    \/ \E s \in Slots : TimerTick(s) \/ CollectEvmEventsStart(s)
                        \/ CollectEvmEventsFail(s) \/ CollectEvmEventsDone(s)
    \/ \E c \in Callers : AdminConfigureBftBridge(c)
    \/ \E e \in Events : \/ RemoveMintOrder(e) \/ RemoveMintOrderFail(e)
                         \/ InscribeBrc20(e) \/ InscribeBrc20Fail(e)
    \/ \E t \in Ticks : SetTokenSymbol(t)
    \/ PostUpgrade

Spec == Init /\ [][Next]_vars

(***************************************************************************)
(* Fairness: the chain progresses, the timer keeps firing, the scheduler   *)
(* runs due tasks, the init query is answered once it is asked, and an     *)
(* eth_getLogs request that keeps being retried is eventually answered;   *)
(* a due RemoveMintOrder task is run by the scheduler the timer drives.   *)
(* A due InscribeBrc20 task is likewise run again every 5 s; the          *)
(* inscriber's failures are bounded by InscriberFails.                     *)
(***************************************************************************)
FairSpec ==
    /\ Spec
    /\ WF_vars(NewBlock) /\ WF_vars(SafeAdvance) /\ WF_vars(InitEvmStateOk)
    /\ \A s \in Slots : /\ WF_vars(TimerTick(s))
                        /\ WF_vars(CollectEvmEventsStart(s))
                        /\ SF_vars(CollectEvmEventsDone(s))
    /\ \A e \in Events : WF_vars(RemoveMintOrder(e)) /\ WF_vars(InscribeBrc20(e))

-----------------------------------------------------------------------------
(* Properties *)

\* The checkpoint never passes a bridge event that has not been turned into
\* a task: collect_evm_events advances next_block only past logs it appended.
NoLostEvents ==
    evmParams # None =>
        \A e \in Compatible : EventBlock[e] < evmParams.next_block => tasks[e] > 0

\* The checkpoint only moves past finalised blocks: collect_evm_events takes
\* the block of the last log that carries a block number.
CheckpointBehindSafe == evmParams # None => evmParams.next_block <= safe + 1

\* Spec sections 3 and 8 (spec.md lines 36 and 191): next_block never
\* decreases across collector runs.  collect_evm_events writes next_block
\* from the logs of its own range after the await, so with two collections
\* in flight an older answer can write a smaller checkpoint over a newer one.
CheckpointMonotonic ==
    [][evmParams # None /\ evmParams' # None =>
          evmParams'.next_block >= evmParams.next_block]_evmParams

\* Once the admin has configured the BftBridge address, the task of every
\* Burnt or Minted log of the bridge eventually completes: its InscribeBrc20
\* (at-least-once burn handling, spec.md line 193) or its RemoveMintOrder.
\* This needs collection to turn the log into a task even if it started, and
\* was in flight, while the address was still the zero default, and the
\* unbounded retry policy of task_by_log to run a failed task again.  Logs
\* whose recipient or sender does not decode fail on every run.
EveryEventHandled ==
    \A e \in Compatible \ (BadRecipient \cup BadSender) :
        (bridgeAddr = Bridge) ~> (executed[e] > 0)

\* A burn is handled once: no Burnt log yields two InscribeBrc20 tasks.
BurnHandledOnce == \A e \in Events : EventKind[e] = "Burnt" => tasks[e] <= 1
=============================================================================
