---------------------------- MODULE MintOrdersSpec ----------------------------
(***************************************************************************)
(* What the mint order store promises (spec section 4.2, MintOrdersStore): *)
(* a map keyed by (sender, src_token) of maps nonce -> SignedMintOrder,    *)
(* with push, get, get_all, remove and clear; a push at an existing        *)
(* (sender, src_token, nonce) returns the replaced value.                  *)
(*                                                                         *)
(* The stored values are not enumerated: push leaves the value at its key  *)
(* free and every other entry as it was.                                   *)
(***************************************************************************)
EXTENDS Naturals, FiniteSets

CONSTANTS Senders, Tokens, OpIds

VARIABLES
    orders,     \* function from <<sender, src_token, nonce>> to a signed order
    reply       \* the value the last operation returned

Keys == Senders \X Tokens \X OpIds

Unit == [kind |-> "unit"]

\* Option<SignedMintOrder> for the entry at k.
Lookup(k) == IF k \in DOMAIN orders THEN [kind |-> "some", value |-> orders[k]]
             ELSE [kind |-> "none"]

\* orders' agrees with orders everywhere except, possibly, at k.
OthersKept(k) == \A j \in DOMAIN orders \ {k} : j \in DOMAIN orders' /\ orders'[j] = orders[j]

Init == orders = [k \in {} |-> Unit] /\ reply = Unit

Push(s, t, n) ==
    /\ reply' = Lookup(<<s, t, n>>)
    /\ DOMAIN orders' = DOMAIN orders \cup {<<s, t, n>>}
    /\ OthersKept(<<s, t, n>>)

Get(s, t, n) ==
    /\ reply' = Lookup(<<s, t, n>>)
    /\ UNCHANGED orders

\* get_all: every (nonce, order) pair of the key.
GetAll(s, t) ==
    /\ reply' = [kind |-> "list",
                 entries |-> {<<k[3], orders[k]>> :
                              k \in {j \in DOMAIN orders : j[1] = s /\ j[2] = t}}]
    /\ UNCHANGED orders

Remove(s, t, n) ==
    /\ reply' = Lookup(<<s, t, n>>)
    /\ DOMAIN orders' = DOMAIN orders \ {<<s, t, n>>}
    /\ OthersKept(<<s, t, n>>)

Clear ==
    /\ orders' = [k \in {} |-> Unit]
    /\ reply' = Unit

Next ==
    \/ \E s \in Senders, t \in Tokens :
         \/ GetAll(s, t)
         \/ \E n \in OpIds : Push(s, t, n) \/ Get(s, t, n) \/ Remove(s, t, n)
    \/ Clear

Spec == Init /\ [][Next]_<<orders, reply>>

=============================================================================
