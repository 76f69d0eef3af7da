--------------------------- MODULE MC_EvmCollector ---------------------------
(* Model-checking instance of EvmCollector: four logs over three blocks.   *)
(* Block 1 carries a burn, block 2 a mint and a second burn, block 3 a log *)
(* that is not a bridge event; so one block holds two logs and the last   *)
(* block holds nothing the bridge acts on.                                 *)
EXTENDS EvmCollector, TLC

CONSTANTS e1, e2, e3, e4

MCEvents == {e1, e2, e3, e4}
MCEventBlock == e1 :> 1 @@ e2 :> 2 @@ e3 :> 2 @@ e4 :> 3
MCEventKind == e1 :> "Burnt" @@ e2 :> "Minted" @@ e3 :> "Burnt" @@ e4 :> "Other"

\* Ticks "abc" and "d" (the second shorter than the first) and a 17-byte
\* tick that set_token_symbol rejects.
MCTicks == {<<97, 98, 99>>, <<100>>, [i \in 1..17 |-> 120]}
=============================================================================
