-------------------------- MODULE MC_MintOrderCodec --------------------------
(* MintOrders over two byte patterns per fixed-size field, nonces at the    *)
(* byte boundaries, and token URIs that are empty, ASCII ("h") and a        *)
(* two-byte UTF-8 character ("é" = C3 A9).  TLC integers are 32-bit    *)
(* signed, so the largest nonce is 2^31 - 1 rather than u32::MAX.           *)
EXTENDS MintOrderCodec

Bytes(n, b) == [i \in 1..n |-> b]
Marked(n) == [Bytes(n, 0) EXCEPT ![n] = 1]

MCOrders ==
    [sender : {Bytes(32, 0), Marked(32)},
     src_token : {Marked(32)},
     recipient : {Bytes(20, 170)},
     dst_token : {Bytes(20, 0), Marked(20)},
     nonce : {0, 258, 2147483647},
     sender_chain_id : {0, 355113},
     recipient_chain_id : {355113},
     name : {Bytes(32, 65)},
     symbol : {Bytes(16, 66)},
     approve_spender : {Bytes(20, 0)},
     token_uri : {<<>>, <<104>>, <<195, 169>>}]

\* MintOrders keys: two src_tokens that differ in their last byte only, and
\* operation ids whose big-endian bytes differ in more than one place.
MCSenders == {Bytes(32, 5)}
MCTokens == {Bytes(32, 0), Marked(32)}
MCOpIds == {1, 258}

\* BTC-NFT stores: one reveal txid and one burn request id (their keys are
\* independent map entries); outputs "ab:1" (parses, vout 1) and "ab:x"
\* (MalformedAddress), as ASCII codes split at ':'.
MCRevealTxIds == {"r1"}
MCHolders == {"h1"}
MCOutputs == {<<<<97, 98>>, <<49>>>>, <<<<97, 98>>, <<120>>>>}
MCBurnIds == {7}

\* r and s of 17s, v = 27.
MCSigBytes == [i \in 1..65 |-> IF i = 65 THEN 27 ELSE 17]
=============================================================================
