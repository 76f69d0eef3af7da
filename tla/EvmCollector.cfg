\* Two collection tasks may be in flight, logs may arrive without a block
\* number, the init query fails once before it is answered, the first
\* inscription of the burn e1 fails, no upgrade.
CONSTANTS
    e1 = e1  e2 = e2  e3 = e3  e4 = e4
    Events <- MCEvents
    EventBlock <- MCEventBlock
    EventKind <- MCEventKind
    MaxBlock = 3
    Slots = {1, 2}
    InitRetries = 5
    InitFailuresMax = 0
    PendingLogs = TRUE
    MaxUpgrades = 0
    None = None
    Callers = {padmin, puser}
    Admin = padmin
    Bridge = bridge
    BadSender = {}
    BadRecipient = {}
    InscriberFails = {e1}
    Ticks = {}
SPECIFICATION FairSpec
INVARIANT NoLostEvents
INVARIANT CheckpointBehindSafe
PROPERTY EveryEventHandled
