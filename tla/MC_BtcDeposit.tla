---------------------------- MODULE MC_BtcDeposit ----------------------------
(* Two addresses with two deposits each.  a's u1 and u2 are worth more     *)
(* than the ledger fee; b's u3 is not and u4 is, so both subaccounts are   *)
(* moved from while the calls interleave.  The cfgs give the heights.      *)
EXTENDS BtcDeposit, TLC

CONSTANTS a, b, u1, u2, u3, u4, c1, c2

MCUsers == {a, b}
MCUtxos == {u1, u2, u3, u4}
MCUtxoUser == u1 :> a @@ u2 :> a @@ u3 :> b @@ u4 :> b
MCUtxoValue == u1 :> 3 @@ u2 :> 4 @@ u3 :> 1 @@ u4 :> 3
\* u1 and u2 mined in different blocks.
MCHeightsDistinct == u1 :> 1 @@ u2 :> 2 @@ u3 :> 2 @@ u4 :> 3
\* u1 and u2 mined in the same block.
MCHeightsShared == u1 :> 1 @@ u2 :> 1 @@ u3 :> 2 @@ u4 :> 3
=============================================================================
