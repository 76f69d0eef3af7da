---------------------------- MODULE MintOrderCodec ----------------------------
(***************************************************************************)
(* The ERC-721 mint order codec (src/minter-contract-utils/src/            *)
(* erc721_mint_order.rs): MintOrder::encode_and_sign lays the fields out   *)
(* at fixed offsets, big-endian, followed by the token URI and the 65-byte *)
(* signature; decode_data and decode_signed read them back.                *)
(*                                                                         *)
(* A blob is a sequence of byte values.  A behaviour encodes one order,    *)
(* may have the blob altered on its way (a blob the decoder receives need  *)
(* not come from the encoder), and decodes it.  Decoding either returns    *)
(* Some, returns None, or panics (a slice out of range or an unwrap of     *)
(* invalid UTF-8).                                                         *)
(*                                                                         *)
(* The signed blob is then kept in MintOrders, the stable multimap keyed   *)
(* by MintOrderKey {sender, src_token} and the operation id (lines 204-    *)
(* 309): insert, get, get_all, remove and clear.  The store must behave as *)
(* the map of spec section 4.2 (MintOrdersSpec).                           *)
(*                                                                         *)
(* The BTC-NFT bridge keeps its signed orders there under the constant     *)
(* src_token SRC_TOKEN, and keeps two more stable maps of its own          *)
(* (btc-nft-bridge/src/interface/store.rs): NftStore, reveal txid ->       *)
(* NftInfo, and BurnRequestStore, request id -> BurnRequestInfo.           *)
(***************************************************************************)
EXTENDS Naturals, Sequences, SequencesExt, TLC

CONSTANTS
    Orders,     \* the MintOrder values encoded (records with byte-sequence fields)
    SigBytes,   \* the 65 bytes the signer returns
    DataSizes,  \* values an altered blob may carry in its data-size field
    Cuts,       \* numbers of trailing bytes an altered blob may lose
    Senders,    \* Id256 values (32 bytes) used as MintOrderKey.sender
    Tokens,     \* Id256 values (32 bytes) used as MintOrderKey.src_token
    OpIds,      \* operation ids (u32) used as the second key
    RevealTxIds,\* RevealTxId strings of inscriptions
    Holders,    \* holder addresses
    Outputs,    \* "txid:vout" strings, as sequences of ':'-separated pieces
    BurnIds     \* BurnRequestId values

\* Output pieces are short enough for TLC's integers and for u32.
ASSUME \A o \in Outputs : o # <<>> /\ \A i \in DOMAIN o : Len(o[i]) <= 9

ENCODED_DATA_SIZE == 188
SIGNED_ENCODED_DATA_SIZE == ENCODED_DATA_SIZE + 65

VARIABLES
    order,      \* the MintOrder being encoded
    phase,      \* "new" | "signed" | "sign_failed" | "decoded"
    blob,       \* the SignedMintOrder bytes
    signed,     \* the bytes whose digest the signer signed
    altered,    \* the blob is not the encoder's output
    result,     \* the outcome of decode_signed
    mintOrdersMap, \* StableMultimap: <<MintOrderKey bytes, operation id>> -> blob
    reply,      \* the value the last MintOrders call returned
    nftStore,   \* NftStore: RevealTxId -> NftInfo
    burnRequests \* BurnRequestStore: BurnRequestId -> BurnRequestInfo

codecVars == <<order, phase, blob, signed, altered, result>>
storeVars == <<mintOrdersMap, reply>>
nftVars == <<nftStore, burnRequests>>
vars == <<codecVars, storeVars, nftVars>>

NoResult == [kind |-> "none_yet"]

Unit == [kind |-> "unit"]

(***************************************************************************)
(* Integer <-> bytes: u32::to_be_bytes and u32::from_be_bytes.             *)
(***************************************************************************)
\* Mutant: to_le_bytes instead of to_be_bytes.
RECURSIVE ToLE(_, _)
ToLE(n, w) == IF w = 0 THEN <<>> ELSE <<n % 256>> \o ToLE(n \div 256, w - 1)

RECURSIVE ToBE(_, _)
ToBE(n, w) == IF w = 0 THEN <<>> ELSE ToBE(n \div 256, w - 1) \o <<n % 256>>

FromBE(s) == FoldLeft(LAMBDA acc, b : acc * 256 + b, 0, s)

\* Bytes lo..hi-1 of a blob, in Rust's half-open range notation data[lo..hi].
Slice(s, lo, hi) == SubSeq(s, lo + 1, hi)

(***************************************************************************)
(* String::from_utf8: well-formed UTF-8 (with the exclusions of overlong   *)
(* forms, surrogates and code points above U+10FFFF).                      *)
(***************************************************************************)
Cont(b, lo, hi) == lo <= b /\ b <= hi

\* Length of the well-formed sequence starting at s[1], 0 when there is none.
CharLen(s) ==
    LET b1 == s[1]
        ok(n, lo2, hi2) ==
            /\ Len(s) >= n
            /\ Cont(s[2], lo2, hi2)
            /\ \A i \in 3..n : Cont(s[i], 128, 191)
    IN CASE b1 < 128 -> 1
         [] Cont(b1, 194, 223) -> IF ok(2, 128, 191) THEN 2 ELSE 0
         [] b1 = 224 -> IF ok(3, 160, 191) THEN 3 ELSE 0
         [] b1 = 237 -> IF ok(3, 128, 159) THEN 3 ELSE 0
         [] Cont(b1, 225, 239) -> IF ok(3, 128, 191) THEN 3 ELSE 0
         [] b1 = 240 -> IF ok(4, 144, 191) THEN 4 ELSE 0
         [] Cont(b1, 241, 243) -> IF ok(4, 128, 191) THEN 4 ELSE 0
         [] b1 = 244 -> IF ok(4, 128, 143) THEN 4 ELSE 0
         [] OTHER -> 0

RECURSIVE Utf8Valid(_)
Utf8Valid(s) ==
    s = <<>> \/ (CharLen(s) > 0 /\ Utf8Valid(SubSeq(s, CharLen(s) + 1, Len(s))))

(***************************************************************************)
(* encode_and_sign: the signed data, buf[..last_data_index].               *)
(***************************************************************************)
EncodeData(o) ==
    o.sender \o o.src_token \o o.recipient \o o.dst_token
    \o ToBE(o.nonce, 4) \o ToBE(o.sender_chain_id, 4) \o ToBE(o.recipient_chain_id, 4)
    \o o.name \o o.symbol \o o.approve_spender
    \o ToBE(Len(o.token_uri), 4) \o o.token_uri

\* Mutant: the digest covers the fixed part only, not the token URI.
SignedPartFixed(buf, o) == Slice(buf, 0, ENCODED_DATA_SIZE)

\* keccak256(&buf[..last_data_index]): the signer is given these bytes.
SignedPart(buf, o) == Slice(buf, 0, ENCODED_DATA_SIZE + Len(o.token_uri))

(***************************************************************************)
(* decode_data and decode_signed.  A record with kind "some", "none" or    *)
(* "panic".                                                                *)
(***************************************************************************)
DecodeData(d) ==
    IF Len(d) < ENCODED_DATA_SIZE THEN [kind |-> "none"]
    ELSE LET size == FromBE(Slice(d, 184, 188))
         IN IF ENCODED_DATA_SIZE + size > Len(d) THEN [kind |-> "panic"]
            ELSE LET uri == Slice(d, 188, 188 + size)
                 IN IF ~Utf8Valid(uri) THEN [kind |-> "panic"]
                    ELSE [kind |-> "some",
                          order |-> [sender |-> Slice(d, 0, 32),
                                     src_token |-> Slice(d, 32, 64),
                                     recipient |-> Slice(d, 64, 84),
                                     dst_token |-> Slice(d, 84, 104),
                                     nonce |-> FromBE(Slice(d, 104, 108)),
                                     sender_chain_id |-> FromBE(Slice(d, 108, 112)),
                                     recipient_chain_id |-> FromBE(Slice(d, 112, 116)),
                                     name |-> Slice(d, 116, 148),
                                     symbol |-> Slice(d, 148, 164),
                                     approve_spender |-> Slice(d, 164, 184),
                                     token_uri |-> uri]]

DecodeSigned(d) ==
    IF Len(d) < SIGNED_ENCODED_DATA_SIZE THEN [kind |-> "none"]
    ELSE LET dd == DecodeData(d)
         IN IF dd.kind # "some" THEN dd
            ELSE LET start == ENCODED_DATA_SIZE + Len(dd.order.token_uri)
                 IN IF start + 65 > Len(d) THEN [kind |-> "panic"]
                    ELSE [kind |-> "some", order |-> dd.order,
                          signature |-> Slice(d, start, start + 65)]

-----------------------------------------------------------------------------
Init ==
    /\ order \in Orders
    /\ phase = "new"
    /\ blob = <<>> /\ signed = <<>>
    /\ altered = FALSE
    /\ result = NoResult
    /\ mintOrdersMap = [k \in {} |-> <<>>]
    /\ reply = Unit
    /\ nftStore = [t \in {} |-> Unit]
    /\ burnRequests = [i \in {} |-> Unit]

\* encode_and_sign: the buffer, the digest handed to the signer, the signature appended.
EncodeAndSign ==
    /\ phase = "new"
    /\ LET buf == EncodeData(order)
       IN /\ signed' = SignedPart(buf, order)
          /\ blob' = buf \o SigBytes
    /\ phase' = "signed"
    /\ UNCHANGED <<order, altered, result>>
    /\ UNCHANGED storeVars

\* sign_digest fails: encode_and_sign returns Err and no blob exists.
EncodeAndSignFail ==
    /\ phase = "new"
    /\ phase' = "sign_failed"
    /\ UNCHANGED <<order, blob, signed, altered, result>>
    /\ UNCHANGED storeVars

\* The decoder is handed a blob whose data-size field differs or that was cut.
AlterDataSize(n) ==
    /\ phase = "signed" /\ ~altered
    /\ blob' = Slice(blob, 0, 184) \o ToBE(n, 4) \o SubSeq(blob, 189, Len(blob))
    /\ altered' = TRUE
    /\ UNCHANGED <<order, phase, signed, result>>
    /\ UNCHANGED storeVars

Truncate(k) ==
    /\ phase = "signed" /\ ~altered
    /\ blob' = SubSeq(blob, 1, Len(blob) - k)
    /\ altered' = TRUE
    /\ UNCHANGED <<order, phase, signed, result>>
    /\ UNCHANGED storeVars

DecodeSignedStep ==
    /\ phase = "signed"
    /\ result' = DecodeSigned(blob)
    /\ phase' = "decoded"
    /\ UNCHANGED <<order, blob, signed, altered>>
    /\ UNCHANGED storeVars

(***************************************************************************)
(* MintOrders.  A MintOrderKey is stored as its to_bytes image; the        *)
(* SignedMintOrder as its bytes (Storable for SignedMintOrder is the Vec). *)
(***************************************************************************)
\* Mutant: the src_token half of the key is a second copy of the sender.
KeyToBytesSenderTwice(k) == k.sender \o k.sender

\* MintOrderKey::to_bytes: sender then src_token, 64 bytes.
KeyToBytes(k) == k.sender \o k.src_token

\* MintOrderKey::from_bytes: bytes[..32] and bytes[32..64].
KeyFromBytes(b) == [sender |-> Slice(b, 0, 32), src_token |-> Slice(b, 32, 64)]

MapKey(s, t, op) == <<KeyToBytes([sender |-> s, src_token |-> t]), op>>

\* The Option<SignedMintOrder> the multimap returns for an entry.
Stored(k) == IF k \in DOMAIN mintOrdersMap
             THEN [kind |-> "some", value |-> mintOrdersMap[k]]
             ELSE [kind |-> "none"]

\* insert: the signed order just produced by encode_and_sign is stored; the
\* replaced order, if any, is returned.
InsertOrder(s, t, op) ==
    /\ phase \in {"signed", "decoded"} /\ ~altered
    /\ reply' = Stored(MapKey(s, t, op))
    /\ mintOrdersMap' = (MapKey(s, t, op) :> blob) @@ mintOrdersMap
    /\ UNCHANGED codecVars

GetOrder(s, t, op) ==
    /\ reply' = Stored(MapKey(s, t, op))
    /\ UNCHANGED <<codecVars, mintOrdersMap>>

\* get_all: range(&key) over the entries whose first key is the key's bytes.
GetAllOrders(s, t) ==
    /\ reply' = [kind |-> "list",
                 entries |-> {<<k[2], mintOrdersMap[k]>> :
                              k \in {j \in DOMAIN mintOrdersMap :
                                       j[1] = KeyToBytes([sender |-> s, src_token |-> t])}}]
    /\ UNCHANGED <<codecVars, mintOrdersMap>>

RemoveOrder(s, t, op) ==
    /\ reply' = Stored(MapKey(s, t, op))
    /\ mintOrdersMap' = [k \in DOMAIN mintOrdersMap \ {MapKey(s, t, op)} |-> mintOrdersMap[k]]
    /\ UNCHANGED codecVars

ClearOrders ==
    /\ mintOrdersMap' = [k \in {} |-> <<>>]
    /\ reply' = Unit
    /\ UNCHANGED codecVars

StoreNext ==
    \/ \E s \in Senders, t \in Tokens :
         \/ GetAllOrders(s, t)
         \/ \E op \in OpIds : InsertOrder(s, t, op) \/ GetOrder(s, t, op) \/ RemoveOrder(s, t, op)
    \/ ClearOrders

(***************************************************************************)
(* The BTC-NFT bridge stores.                                              *)
(***************************************************************************)
SRC_TOKEN == [i \in 1..32 |-> 0]

\* MintOrdersStore::push and ::remove delegate to MintOrders with SRC_TOKEN.
NftMintOrderPush(sender, nonce) == InsertOrder(sender, SRC_TOKEN, nonce)

NftMintOrderRemove(sender, nonce) == RemoveOrder(sender, SRC_TOKEN, nonce)

\* str::parse::<u32> of a piece (a sequence of ASCII codes): an optional
\* '+' (43) followed by a non-empty run of the digits '0'..'9' (48..57).
\* Pieces have at most 9 characters (see the ASSUME above), so the overflow
\* error of parse cannot arise.
ParseU32(piece) ==
    LET ds == IF piece # <<>> /\ Head(piece) = 43 THEN Tail(piece) ELSE piece
    IN IF ds # <<>> /\ \A i \in 1..Len(ds) : ds[i] \in 48..57
       THEN [ok |-> TRUE, value |-> FoldLeft(LAMBDA acc, c : acc * 10 + (c - 48), 0, ds)]
       ELSE [ok |-> FALSE]

\* NftInfo::new: vout is the last ':'-separated piece of the output, parsed;
\* a piece that does not parse gives Err(MalformedAddress).
NftInfoNew(txid, holder, output) ==
    LET vout == ParseU32(Last(output))
    IN IF vout.ok THEN [ok |-> TRUE, info |-> [tx_id |-> txid, vout |-> vout.value,
                                               holder |-> holder]]
       ELSE [ok |-> FALSE]

\* NftStore::insert of an NftInfo that NftInfo::new built: keyed by its tx_id,
\* an entry already there is replaced.
NftInsert(txid, holder, output) ==
    /\ NftInfoNew(txid, holder, output).ok
    /\ LET info == NftInfoNew(txid, holder, output).info
       IN nftStore' = (info.tx_id :> info) @@ nftStore
    /\ UNCHANGED burnRequests

\* NftStore::remove: Ok when the entry was there; Err("Token not found in
\* store") otherwise, which changes nothing (the Result is not kept).
NftRemove(txid) ==
    /\ nftStore' = [t \in DOMAIN nftStore \ {txid} |-> nftStore[t]]
    /\ UNCHANGED burnRequests

\* BurnRequestStore::insert: a new, not yet transferred request.
BurnInsert(id, address, txid) ==
    /\ burnRequests' = (id :> [address |-> address, reveal_txid |-> txid,
                               is_transferred |-> FALSE]) @@ burnRequests
    /\ UNCHANGED nftStore

BurnRemove(id) ==
    /\ burnRequests' = [i \in DOMAIN burnRequests \ {id} |-> burnRequests[i]]
    /\ UNCHANGED nftStore

\* BurnRequestStore::set_transferred: remove, then insert the same request
\* with is_transferred set; nothing happens for an absent id.
BurnSetTransferred(id) ==
    /\ id \in DOMAIN burnRequests
    /\ burnRequests' = [burnRequests EXCEPT ![id].is_transferred = TRUE]
    /\ UNCHANGED nftStore

NftNext ==
    \/ \E t \in RevealTxIds :
         \/ NftRemove(t)
         \/ \E h \in Holders, o \in Outputs : NftInsert(t, h, o)
    \/ \E i \in BurnIds :
         \/ BurnRemove(i) \/ BurnSetTransferred(i)
         \/ \E h \in Holders, t \in RevealTxIds : BurnInsert(i, h, t)

Next ==
    \/ /\ \/ EncodeAndSign \/ EncodeAndSignFail \/ DecodeSignedStep
          \/ \E n \in DataSizes : AlterDataSize(n)
          \/ \E k \in Cuts : Truncate(k)
          \/ StoreNext
          \/ \E s \in Senders, op \in OpIds :
               NftMintOrderPush(s, op) \/ NftMintOrderRemove(s, op)
       /\ UNCHANGED nftVars
    \/ NftNext /\ UNCHANGED <<codecVars, storeVars>>

Spec == Init /\ [][Next]_vars

-----------------------------------------------------------------------------
(* Properties *)

\* The field widths of the wire layout (spec.md line 160, NFT variant).
FieldWidths == [sender |-> 32, src_token |-> 32, recipient |-> 20, dst_token |-> 20,
                name |-> 32, symbol |-> 16, approve_spender |-> 20]

\* Whatever blob decode_signed is given, an order it returns has every
\* fixed-width field at its width, a nonce and chain ids that fit a u32,
\* and a 65-byte signature; the stores are keyed by their ids.
TypeOK ==
    /\ order \in Orders
    /\ phase \in {"new", "signed", "sign_failed", "decoded"}
    /\ altered \in BOOLEAN
    /\ result.kind \in {"none_yet", "none", "panic", "some"}
    /\ result.kind = "some" =>
         /\ \A f \in DOMAIN FieldWidths : Len(result.order[f]) = FieldWidths[f]
         /\ \A f \in {"nonce", "sender_chain_id", "recipient_chain_id"} : result.order[f] >= 0
         /\ Len(result.signature) = 65
    /\ DOMAIN nftStore \subseteq RevealTxIds /\ DOMAIN burnRequests \subseteq BurnIds

\* Spec "codec round-trip": decode_signed of what encode_and_sign produced
\* returns the same MintOrder and the signature, and the blob is
\* SIGNED_ENCODED_DATA_SIZE + the token URI long.
RoundTrip ==
    phase = "decoded" /\ ~altered =>
        /\ result = [kind |-> "some", order |-> order, signature |-> SigBytes]
        /\ Len(blob) = SIGNED_ENCODED_DATA_SIZE + Len(order.token_uri)

\* The digest the signer signs covers every field of the order, the token
\* URI included: decoding the signed bytes gives the order back.
SignatureCoversOrder ==
    phase \in {"signed", "decoded"} =>
        DecodeData(signed) = [kind |-> "some", order |-> order]

\* The store seen through MintOrderKey::from_bytes: the map of spec 4.2.
AbsKey(k) == <<KeyFromBytes(k[1]).sender, KeyFromBytes(k[1]).src_token, k[2]>>

AbsOrders ==
    [j \in {AbsKey(k) : k \in DOMAIN mintOrdersMap} |-> mintOrdersMap[MapKey(j[1], j[2], j[3])]]

StoreAbs == INSTANCE MintOrdersSpec WITH orders <- AbsOrders

\* MintOrders implements the store of spec section 4.2: through the key's
\* to_bytes/from_bytes, each insert, get, get_all, remove and clear returns
\* and changes what the keyed map of (sender, src_token, nonce) would, and
\* an insert at an occupied key returns the order it replaced.
RefinesMintOrdersSpec == StoreAbs!Spec

=============================================================================
