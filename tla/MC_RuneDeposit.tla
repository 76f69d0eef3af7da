--------------------------- MODULE MC_RuneDeposit ---------------------------
(* One user with two UTXOs: u1 carries runes r1 and r2, u2 carries r1.      *)
(* u2 alone does not cover the deposit fee.  The *Two variant gives u2 to a *)
(* second user and lets it cover the fee.  w1 and w2 are withdraw calls.   *)
EXTENDS RuneDeposit, TLC

CONSTANTS a, b, u1, u2, r1, r2, c1, c2, w1, w2

MCUsers == {a}
MCUtxos == {u1, u2}
MCRunes == {r1, r2}
MCUtxoUser == u1 :> a @@ u2 :> a
MCUtxoRunes == u1 :> {r1, r2} @@ u2 :> {r1}
MCUtxoValue == u1 :> 2 @@ u2 :> 1
\* Two users: u2 pays b's deposit address and alone covers the fee.
MCUsersTwo == {a, b}
MCUtxoUserTwo == u1 :> a @@ u2 :> b
MCUtxoValueTwo == u1 :> 2 @@ u2 :> 2
=============================================================================
