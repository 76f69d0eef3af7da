\* Two collection tasks in flight and logs without a block number, no upgrade.
CONSTANTS
    e1 = e1  e2 = e2  e3 = e3  e4 = e4
    Events <- MCEvents
    EventBlock <- MCEventBlock
    EventKind <- MCEventKind
    MaxBlock = 3
    InitRetries = 5
    InitFailuresMax = 1
    None = None
    Callers = {padmin, puser}
    Admin = padmin
    Bridge = bridge
    BadSender = {}
    BadRecipient = {}
    InscriberFails = {}
    Ticks = {}
    Slots = {1, 2}
    PendingLogs = TRUE
    MaxUpgrades = 0
SPECIFICATION Spec
INVARIANT BurnHandledOnce
