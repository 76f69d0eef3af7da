CONSTANTS
    Orders <- MCOrders
    SigBytes <- MCSigBytes
    DataSizes = {1, 300}
    Cuts = {1}
    Senders <- MCSenders
    Tokens <- MCTokens
    OpIds <- MCOpIds
    RevealTxIds <- MCRevealTxIds
    Holders <- MCHolders
    Outputs <- MCOutputs
    BurnIds <- MCBurnIds
SPECIFICATION Spec
 
INVARIANT RoundTrip
INVARIANT SignatureCoversOrder
PROPERTY RefinesMintOrdersSpec
