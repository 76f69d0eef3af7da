CONSTANTS
    a = a
    b = b
    u1 = u1
    u2 = u2
    r1 = r1
    r2 = r2
    c1 = c1
    c2 = c2
    w1 = w1
    w2 = w2
    Users <- MCUsers
    Utxos <- MCUtxos
    Runes <- MCRunes
    UtxoUser <- MCUtxoUser
    UtxoRunes <- MCUtxoRunes
    UtxoValue <- MCUtxoValue
    DepositFee = 2
    Calls = {c1}
    MaxNonce = 4
    BtcChainId = 0
    ErcChainId = 355113
    MaxSignFailures = 0
    LostResponses = FALSE
    MaxUpgrades = 0
    Withdraws = {w1, w2}
SPECIFICATION Spec
INVARIANT UtxoNotReused
