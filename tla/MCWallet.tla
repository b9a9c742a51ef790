------------------------------ MODULE MCWallet ------------------------------
(* The wallet alone, with every operation at any time: two recipients, two  *)
(* prices, and the bounds below on what would otherwise grow for ever.      *)
EXTENDS Wallet

CONSTANTS MaxToppedUp, MaxAdjust, MaxForgiven, MaxCharges, MaxDirect

MCDeltas == {-2, 1}

Bounded ==
    /\ toppedUp <= MaxToppedUp
    /\ ledger.adjust \in -MaxAdjust .. MaxAdjust
    /\ forgiven <= MaxForgiven
    /\ direct <= MaxDirect
    /\ \A r \in Recipients : charges[r] <= MaxCharges

BoundedSpec == WalletInit /\ [][WalletNext /\ Bounded']_walletVars
=============================================================================
