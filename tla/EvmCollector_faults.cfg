\* Two collection tasks in flight, logs without a block number, one
\* upgrade, a Minted log whose sender does not decode, a Burnt log whose
\* recipient is not UTF-8, and the three ticks
\* passed to set_token_symbol.
CONSTANTS
    e1 = e1  e2 = e2  e3 = e3  e4 = e4
    Events <- MCEvents
    EventBlock <- MCEventBlock
    EventKind <- MCEventKind
    MaxBlock = 3
    InitRetries = 5
    InitFailuresMax = 1
    None = None
    Callers = {padmin, puser}
    Admin = padmin
    Bridge = bridge
    BadSender = {e2}
    BadRecipient = {e3}
    InscriberFails = {e1}
    Ticks <- MCTicks
    Slots = {1, 2}
    PendingLogs = TRUE
    MaxUpgrades = 1
SPECIFICATION Spec
INVARIANT TypeOK
