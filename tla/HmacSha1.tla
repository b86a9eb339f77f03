------------------------------ MODULE HmacSha1 ------------------------------
(***************************************************************************)
(* The HMAC-SHA1 crypto method: _nx_crypto_method_hmac_sha1_init,          *)
(* _operation and _cleanup.                                                *)
(*                                                                         *)
(* Every operation first points the HMAC metadata at SHA-1 (block size,    *)
(* 20-byte ICV, the SHA-1 functions) and then runs the generic HMAC        *)
(* routines: HASH_INITIALIZE keys the inner hash, HASH_UPDATE feeds it,    *)
(* HASH_CALCULATE finishes inner and outer hash and writes the MAC,        *)
(* truncated to the caller's buffer; any other op computes the MAC of one  *)
(* input in one call.  The generic HMAC routines and SHA-1 are not under   *)
(* src/; they are modelled by what RFC 2104 says they compute, with SHA-1  *)
(* an uninterpreted function of the bytes hashed.                          *)
(***************************************************************************)
EXTENDS Naturals, Sequences

CONSTANTS KeyMem,     \* the bytes at the caller's key pointer
          KeyLens,    \* key lengths in bytes callers pass (as bits << 3)
          Chunks,     \* input buffers callers hash
          OutLenSet,  \* output buffer sizes callers pass
          MaxMsg      \* bound on the bytes fed to one MAC

IcvLen == 20   \* NX_CRYPTO_HMAC_SHA1_ICV_FULL_LEN_IN_BITS >> 3

\* SHA-1, uninterpreted: the digest of a byte sequence.
Sha1(s) == [sha1 |-> s]

\* The key padded with ipad / opad: which pad, and which key bytes.
Pad(which, key) == <<[pad |-> which, key |-> key]>>

\* RFC 2104: H((K xor opad) || H((K xor ipad) || m)), truncated to n bytes.
Hmac(key, m, n) == [mac |-> Sha1(Pad("opad", key) \o <<Sha1(Pad("ipad", key) \o m)>>),
                    len |-> n]

VARIABLES
  hm_keyed,   \* the metadata holds a keyed inner hash (HASH_INITIALIZE ran)
  hm_key,     \* the key bytes the inner and outer hash were keyed with
  hm_inner,   \* what the inner SHA-1 context has absorbed
  hm_fed,     \* the message fed since HASH_INITIALIZE (ghost)
  hm_out,     \* the last MAC written, with its length, or none
  hm_of       \* the key and message that MAC was asked for (ghost)

hvars == <<hm_keyed, hm_key, hm_inner, hm_fed, hm_out, hm_of>>

NoMac == [mac |-> Sha1(<<>>), len |-> 0]

HmacTypeOK ==
  /\ hm_keyed \in BOOLEAN
  /\ hm_out.len \in 0..IcvLen
  /\ Len(hm_fed) <= MaxMsg

HmacInitState ==
  /\ hm_keyed = FALSE
  /\ hm_key = <<>>
  /\ hm_inner = <<>>
  /\ hm_fed = <<>>
  /\ hm_out = NoMac
  /\ hm_of = [key |-> <<>>, msg |-> <<>>, buf |-> 0]

\* The key bytes the HMAC routines read: key_size_in_bits >> 3 bytes.
KeyBytes(bits) == SubSeq(KeyMem, 1, bits \div 8)

-----------------------------------------------------------------------------
(* The generic HMAC routines (not under src/), by what they compute        *)

HmacInitialize(key) ==
  /\ hm_keyed' = TRUE
  /\ hm_key' = key
  /\ hm_inner' = Pad("ipad", key)
  /\ hm_fed' = <<>>

HmacUpdate(in) ==
  /\ hm_inner' = hm_inner \o in
  /\ hm_fed' = hm_fed \o in
  /\ UNCHANGED <<hm_keyed, hm_key>>

HmacDigestCalculate(n) ==
  hm_out' = [mac |-> Sha1(Pad("opad", hm_key) \o <<Sha1(hm_inner)>>), len |-> n]

-----------------------------------------------------------------------------
(* _nx_crypto_method_hmac_sha1_operation                                   *)

\* The MAC is cut to the caller's buffer, but never longer than the ICV.
\* Mutant: the larger of the two is taken.
TruncLenMax(outLen) == IF outLen > IcvLen THEN outLen ELSE IcvLen

TruncLen(outLen) == IF outLen > IcvLen THEN IcvLen ELSE outLen

\* NX_CRYPTO_HASH_INITIALIZE: a key is required.
OpInitialize(bits) ==
  /\ HmacInitialize(KeyBytes(bits))
  /\ UNCHANGED <<hm_out, hm_of>>

\* NX_CRYPTO_HASH_UPDATE on a keyed context.
OpUpdate(in) ==
  /\ hm_keyed
  /\ Len(hm_fed) + Len(in) <= MaxMsg
  /\ HmacUpdate(in)
  /\ UNCHANGED <<hm_out, hm_of>>

\* NX_CRYPTO_HASH_CALCULATE: an empty output buffer is
\* NX_CRYPTO_INVALID_BUFFER_SIZE; otherwise the MAC of what was fed.
OpCalculate(outLen) ==
  /\ hm_keyed
  /\ outLen # 0
  /\ HmacDigestCalculate(TruncLen(outLen))
  /\ hm_of' = [key |-> hm_key, msg |-> hm_fed, buf |-> outLen]
  /\ UNCHANGED <<hm_keyed, hm_key, hm_inner, hm_fed>>

\* Any other op (NX_CRYPTO_AUTHENTICATE): _nx_crypto_hmac over one input
\* with the key passed in; it re-keys the metadata's hash contexts, so a
\* stream in progress is lost.
OpAuthenticate(in, bits, outLen) ==
  /\ outLen # 0
  /\ hm_out' = Hmac(KeyBytes(bits), in, TruncLen(outLen))
  /\ hm_of' = [key |-> KeyBytes(bits), msg |-> in, buf |-> outLen]
  /\ hm_keyed' = FALSE
  /\ UNCHANGED <<hm_key, hm_inner, hm_fed>>

\* _nx_crypto_method_hmac_sha1_cleanup with NX_SECURE_KEY_CLEAR: the
\* metadata is zeroed.
HmacCleanup ==
  /\ hm_keyed' = FALSE
  /\ hm_key' = <<>>
  /\ hm_inner' = <<>>
  /\ hm_fed' = <<>>
  /\ UNCHANGED <<hm_out, hm_of>>

HmacNext ==
  \/ \E l \in KeyLens : OpInitialize(8 * l)
  \/ \E in \in Chunks : OpUpdate(in)
  \/ \E n \in OutLenSet : OpCalculate(n)
  \/ \E in \in Chunks, l \in KeyLens, n \in OutLenSet : OpAuthenticate(in, 8 * l, n)
  \/ HmacCleanup

HmacSpec == HmacInitState /\ [][HmacNext]_hvars

====
