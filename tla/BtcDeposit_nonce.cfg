CONSTANTS
    a = a
    b = b
    u1 = u1
    u2 = u2
    u3 = u3
    u4 = u4
    c1 = c1
    c2 = c2
    Users <- MCUsers
    Utxos <- MCUtxos
    UtxoUser <- MCUtxoUser
    UtxoValue <- MCUtxoValue
    UtxoHeight <- MCHeightsShared
    Fee = 2
    Calls = {c1}
    MaxFaults = 0
    MaxTasks = 1
SPECIFICATION Spec
INVARIANT NonceUnique
