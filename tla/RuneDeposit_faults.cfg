\* One deposit call at a time for two users, one withdraw, one signer
\* failure, lost EVM answers and one upgrade.
CONSTANTS
    a = a
    b = b
    u1 = u1
    u2 = u2
    r1 = r1
    r2 = r2
    c1 = c1
    c2 = c2
    w1 = w1
    w2 = w2
    Users <- MCUsersTwo
    Utxos <- MCUtxos
    Runes <- MCRunes
    UtxoUser <- MCUtxoUserTwo
    UtxoRunes <- MCUtxoRunes
    UtxoValue <- MCUtxoValueTwo
    DepositFee = 2
    Calls = {c1}
    MaxNonce = 4
    BtcChainId = 0
    ErcChainId = 355113
    MaxSignFailures = 1
    LostResponses = TRUE
    MaxUpgrades = 1
    Withdraws = {w1}
SPECIFICATION Spec
INVARIANT TypeOK
