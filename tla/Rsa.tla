--------------------------------- MODULE Rsa ---------------------------------
(***************************************************************************)
(* The RSA crypto method: _nx_crypto_method_rsa_init, _operation,          *)
(* _cleanup and the modular exponentiation _nx_crypto_rsa_operation.       *)
(*                                                                         *)
(* The context (NX_CRYPTO_RSA) holds the modulus given to init and, once  *)
(* the application has set them with NX_CRYPTO_SET_PRIME_P/Q, the two     *)
(* primes, which select the Chinese-remainder path.  An encrypt or        *)
(* decrypt takes the exponent as its key and writes the result, as many   *)
(* bytes as the modulus has, into the caller's output buffer.             *)
(*                                                                         *)
(* Numbers are integers; a "byte" is a digit of base Base, so that a       *)
(* public exponent is shorter than the modulus as it is in practice.  The *)
(* huge-number library (not under src/) is modelled by what it computes:  *)
(* the power modulo the modulus, or the same power by Garner's CRT        *)
(* recombination of the powers modulo p and q.                             *)
(***************************************************************************)
EXTENDS Naturals, TLC

CONSTANTS Base,      \* values of one byte of a huge number
          Keys,      \* key pairs: [n, p, q, e, d] (n = p * q)
          Msgs,      \* input values the caller encrypts or decrypts
          OutLens,   \* output buffer sizes (bytes) callers pass
          KeyClear   \* NX_SECURE_KEY_CLEAR: cleanup zeroes the context

\* Bytes of the shortest big-endian encoding of v (at least one).
RECURSIVE Digits(_)
Digits(v) == IF v < Base THEN 1 ELSE 1 + Digits(v \div Base)

\* b^e mod m, the reference definition.
RECURSIVE PowMod(_, _, _)
PowMod(b, e, m) == IF e = 0 THEN 1 % m ELSE (b * PowMod(b, e - 1, m)) % m

Moduli == {k.n : k \in Keys}
Primes == {k.p : k \in Keys} \cup {k.q : k \in Keys}
Exponents == {k.e : k \in Keys} \cup {k.d : k \in Keys}
MaxLen == Digits(CHOOSE n \in Moduli : \A m \in Moduli : m <= n) + 1
Statuses == {"none", "success", "invalid_buffer_size", "ptr_error"}

VARIABLES
  modulus,         \* nx_crypto_rsa_modulus (0: NX_CRYPTO_NULL)
  modulus_length,  \* nx_crypto_rsa_modulus_length, in bytes
  prime_p,         \* nx_crypto_rsa_prime_p (0: NX_CRYPTO_NULL)
  prime_q,         \* nx_crypto_rsa_prime_q (0: NX_CRYPTO_NULL)
  last             \* the last operation: inputs, result and status

rvars == <<modulus, modulus_length, prime_p, prime_q, last>>

NoOp == [x |-> 0, exp |-> 0, n |-> 0, out |-> 0, written |-> 0, buf |-> 0,
         status |-> "none"]

RsaTypeOK ==
  /\ modulus \in Moduli \cup {0}
  /\ modulus_length \in 0..MaxLen
  /\ prime_p \in Primes \cup {0}
  /\ prime_q \in Primes \cup {0}
  /\ last.status \in Statuses
  /\ last.written \in 0..MaxLen

\* The context before init: a zeroed metadata area.
RsaInitState ==
  /\ modulus = 0 /\ modulus_length = 0 /\ prime_p = 0 /\ prime_q = 0
  /\ last = NoOp

-----------------------------------------------------------------------------
(* The huge-number library, by what it computes                            *)

\* _nx_crypto_huge_number_crt_power_modulus: x^e mod p and x^e mod q,
\* recombined (Garner) into x^e mod pq.
CrtPowerModulus(x, e, p, q) ==
  LET m1   == PowMod(x % p, e, p)
      m2   == PowMod(x % q, e, q)
      qinv == CHOOSE i \in 1..(p - 1) : (q * i) % p = 1
      h    == (qinv * ((m1 + p - m2) % p)) % p
  IN  m2 + h * q

\* _nx_crypto_rsa_operation: Montgomery exponentiation modulo the modulus,
\* or the CRT path when both primes are set; the result is extracted into
\* modulus_length bytes of the output.
RsaPower(x, e) ==
  IF prime_p # 0 /\ prime_q # 0
  THEN CrtPowerModulus(x, e, prime_p, prime_q)
  ELSE PowMod(x, e, modulus)

-----------------------------------------------------------------------------
(* The method's entry points                                               *)

\* Mutant: key_size_in_bits is stored without the >> 3.
RsaInitBits(k) ==
  /\ modulus' = k.n
  /\ modulus_length' = Digits(k.n) * 8
  /\ prime_p' = 0
  /\ prime_q' = 0
  /\ UNCHANGED last

\* Mutant: init loads the modulus but leaves the primes of the last key.
RsaInitKeepPrimes(k) ==
  /\ modulus' = k.n
  /\ modulus_length' = Digits(k.n)
  /\ UNCHANGED <<prime_p, prime_q, last>>

\* _nx_crypto_method_rsa_init: the key is the modulus, key_size_in_bits
\* its size; the primes are cleared (CRT only once they are set again).
RsaInit(k) ==
  /\ modulus' = k.n
  /\ modulus_length' = Digits(k.n)
  /\ prime_p' = 0
  /\ prime_q' = 0
  /\ UNCHANGED last

\* NX_CRYPTO_SET_PRIME_P and NX_CRYPTO_SET_PRIME_Q: the application hands
\* in a prime of the key it loaded.
RsaSetPrime(which, k) ==
  /\ k.n = modulus
  /\ IF which = "p"
     THEN prime_p' = k.p /\ UNCHANGED prime_q
     ELSE prime_q' = k.q /\ UNCHANGED prime_p
  /\ UNCHANGED <<modulus, modulus_length, last>>

\* Any other op (encrypt, decrypt): the output must hold key_size_in_bits
\* >> 3 bytes (the exponent's size) and the input may not be longer than
\* the modulus; then the power is written as modulus_length bytes.
RsaOperation(x, inLen, exp, outLen) ==
  /\ modulus # 0
  /\ last' =
       LET result ==
             IF outLen < Digits(exp)
             THEN [out |-> 0, written |-> 0, status |-> "invalid_buffer_size"]
             ELSE IF inLen > modulus_length
             THEN [out |-> 0, written |-> 0, status |-> "ptr_error"]
             ELSE [out |-> RsaPower(x, exp), written |-> modulus_length,
                   status |-> "success"]
       IN  [x |-> x, exp |-> exp, n |-> modulus, buf |-> outLen] @@ result
  /\ UNCHANGED <<modulus, modulus_length, prime_p, prime_q>>

\* _nx_crypto_method_rsa_cleanup: zeroes the context when built with
\* NX_SECURE_KEY_CLEAR, and does nothing otherwise.
RsaCleanup ==
  /\ IF KeyClear
     THEN /\ modulus' = 0 /\ modulus_length' = 0
          /\ prime_p' = 0 /\ prime_q' = 0
     ELSE UNCHANGED <<modulus, modulus_length, prime_p, prime_q>>
  /\ UNCHANGED last

RsaNext ==
  \/ \E k \in Keys : RsaInit(k)
  \/ \E which \in {"p", "q"}, k \in Keys : RsaSetPrime(which, k)
  \/ \E x \in Msgs, exp \in Exponents, outLen \in OutLens :
       \E inLen \in {Digits(x), modulus_length + 1} :
         x < modulus /\ RsaOperation(x, inLen, exp, outLen)
  \/ RsaCleanup

RsaSpec == RsaInitState /\ [][RsaNext]_rvars

-----------------------------------------------------------------------------
(* Properties                                                              *)

\* Whatever sequence of init, prime setting, operations and cleanups the
\* application makes, a successful operation returns x^e mod n for the
\* modulus it ran with, on the CRT path as on the Montgomery path: primes
\* left over from an earlier key never reach a later one.
ResultIsModPow ==
  last.status = "success" => last.out = PowMod(last.x, last.exp, last.n)

\* A successful operation never writes more bytes than the output buffer
\* the caller said it has: the size check before the power guards the
\* extract that writes modulus_length bytes.
OutputFits ==
  last.status = "success" => last.written <= last.buf

====
