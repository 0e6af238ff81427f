----------------------------- MODULE MCDelegation -----------------------------
EXTENDS Delegation, TLC

CONSTANTS edge, core, low, mid, high, alice

MCHosts == edge :> {low} @@ core :> {mid, high}
MCHigh == low :> 4 @@ mid :> 1 @@ high :> 1
===============================================================================
