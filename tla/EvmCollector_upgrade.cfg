\* One collection task at a time, only finalised logs, one upgrade.
CONSTANTS
    e1 = e1  e2 = e2  e3 = e3  e4 = e4
    Events <- MCEvents
    EventBlock <- MCEventBlock
    EventKind <- MCEventKind
    MaxBlock = 3
    InitRetries = 5
    InitFailuresMax = 1
    None = None
    Callers = {padmin, puser}
    Admin = padmin
    Bridge = bridge
    BadSender = {}
    BadRecipient = {}
    InscriberFails = {}
    Ticks = {}
    Slots = {1}
    PendingLogs = FALSE
    MaxUpgrades = 1
SPECIFICATION FairSpec
PROPERTY EveryEventHandled
