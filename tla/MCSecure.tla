------------------------------ MODULE MCSecure ------------------------------
(***************************************************************************)
(* Model-checking instance of NetX Secure and the crypto library it calls: *)
(* a TLS session's handshake tail, certificates and settings; a DTLS       *)
(* server's shared local certificates; the crypto methods (MD5, RSA,       *)
(* HMAC-SHA1) and the PKCS#1 and RNG self tests.  Each of these works on  *)
(* its own control block or metadata area and shares no state with the    *)
(* others in this model, so a behaviour that interleaves calls on several *)
(* of them projects onto a behaviour of each alone, and every property    *)
(* here is about one of them.  An initial state therefore picks the part  *)
(* under test (phase); the others keep their initial state.  Every        *)
(* behaviour of each part is explored, and the state count is the sum of  *)
(* the parts, not their product.                                           *)
(***************************************************************************)
EXTENDS TlsSession, DtlsServer, Md5, Rsa, HmacSha1, SelfTest

CONSTANTS d1, d2, d3

VARIABLE phase

allvars == <<vars, dvars, md5vars, rvars, hvars, svars, phase>>

\* Three DTLS local certificates, so that a remove can take the head, a
\* middle one or the tail.
MCInitialCerts == <<d1, d2, d3>>

\* RSA: two toy key pairs with 3-"byte" moduli in base 4, so that a public
\* exponent (1 byte) is shorter than the modulus as in real keys.
MCKeys == {[n |-> 33, p |-> 3, q |-> 11, e |-> 3, d |-> 7],
           [n |-> 35, p |-> 5, q |-> 7, e |-> 5, d |-> 5]}

\* HMAC: a 2-byte key read from a 6-byte area, two input chunks.
MCKeyMem == <<1, 2, 3, 4, 5, 6>>
MCChunks == {<<7>>, <<8, 9>>}

\* PKCS#1 method tables: every combination of missing or failing entries
\* and of the exponents the implementation signs and verifies with.
MCPkcs1Methods ==
  [init : {"null", "ok", "fail"}, operation : BOOLEAN,
   fails : {"none", "set", "sign"}, sign_exp : {3, 5, 7},
   verify_exp : {3, 5, 7}, cleanup : {"null", "ok", "fail"}]

SecureInit ==
  /\ phase \in {"tls", "dtls", "md5", "rsa", "hmac", "selftest"}
  /\ Init
  /\ DtlsInit
  /\ Md5Init
  /\ RsaInitState
  /\ HmacInitState
  /\ SelfTestInit

SecureNext ==
  \/ phase = "tls" /\ Next /\ UNCHANGED <<dvars, md5vars, rvars, hvars, svars, phase>>
  \/ phase = "dtls" /\ DtlsNext /\ UNCHANGED <<vars, md5vars, rvars, hvars, svars, phase>>
  \/ phase = "md5" /\ Md5Next /\ UNCHANGED <<vars, dvars, rvars, hvars, svars, phase>>
  \/ phase = "rsa" /\ RsaNext /\ UNCHANGED <<vars, dvars, md5vars, hvars, svars, phase>>
  \/ phase = "hmac" /\ HmacNext /\ UNCHANGED <<vars, dvars, md5vars, rvars, svars, phase>>
  \/ phase = "selftest" /\ SelfTestNext /\ UNCHANGED <<vars, dvars, md5vars, rvars, hvars, phase>>

SecureSpec == SecureInit /\ [][SecureNext]_allvars

\* Every variable of the TLS sessions, the DTLS server, the MD5 context,
\* the RSA method, the HMAC-SHA1 method and the two self tests stays
\* within its type (a certificate list walked past its end, a bit count
\* that wraps, an output cut to the wrong length or a result code outside
\* the ones the code returns shows up here).
SecureTypeOK ==
  TypeOK /\ DtlsTypeOK /\ Md5TypeOK /\ RsaTypeOK /\ HmacTypeOK /\ SelfTestTypeOK

====
