SPECIFICATION BoundedSpec
CONSTANTS
    Recipients = {r1, r2}
    TopUps = {3}
    Deltas <- MCDeltas
    Requested = {0, 2}
    MinPrice = 1
    DefaultPrice = 2
    Opening = 0
    MaxToppedUp = 3
    MaxAdjust = 2
    MaxForgiven = 1
    MaxCharges = 2
    MaxDirect = 1
INVARIANTS
    WalletTypeOK
    LedgerReconciles
    ChargedOncePerArming
    MessagesCoverOpenCharges
