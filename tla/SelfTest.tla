------------------------------ MODULE SelfTest ------------------------------
(***************************************************************************)
(* Two power-on self tests: the PKCS#1 v1.5 known-answer test              *)
(* (_nx_crypto_method_self_test_pkcs1) and the random number uniqueness   *)
(* test (_nx_secure_crypto_rng_self_test).                                 *)
(*                                                                         *)
(* The PKCS#1 method under test is a method table whose init and cleanup  *)
(* entries may be NX_CRYPTO_NULL, whose operation entry may be missing,   *)
(* and whose calls may fail; its signature and verification are RSA       *)
(* powers with the exponents the implementation actually uses, so that a  *)
(* faulty implementation is one that uses the wrong one.  The test data   *)
(* (a 2048-bit key, a message and its signature) are a toy key of Rsa and *)
(* the encoded digest KatMsg, with the expected signature computed from   *)
(* the key's private exponent.                                             *)
(***************************************************************************)
EXTENDS Rsa, Functions

CONSTANTS Pkcs1Methods,  \* method tables that may be passed to the test
          KatMsg,        \* the encoded digest of the test message
          RngCheckCount, \* NX_SECURE_RNG_CHECK_COUNT
          RandValues     \* values NX_RAND may return

\* The key of the test vectors (m_2048, pub_e_2048, pri_e_2048).
KatKey == CHOOSE k \in Keys : \A j \in Keys : k.n <= j.n

\* The expected signature s[] of the test vectors.
KatSig == PowMod(KatMsg, KatKey.d, KatKey.n)

Pkcs1Results == {"none", "success", "ptr_error", "not_successful",
                 "init_failed", "set_failed", "sign_failed", "verify_failed",
                 "cleanup_failed"}

\* The method field before any test has run.
NoMethod == [init |-> "null", operation |-> FALSE, fails |-> "none",
             sign_exp |-> 0, verify_exp |-> 0, cleanup |-> "null"]

VARIABLES
  pk_method,   \* the method table last tested
  pk_result,   \* what the PKCS#1 self test returned
  rng_draws,   \* the values NX_RAND returned in the last RNG test
  rng_result   \* what the RNG self test returned (0, 1, or -1 before)

svars == <<pk_method, pk_result, rng_draws, rng_result>>

SelfTestTypeOK ==
  /\ pk_method \in Pkcs1Methods \cup {NoMethod}
  /\ pk_result \in Pkcs1Results
  /\ rng_draws \in [0..(RngCheckCount - 1) -> RandValues \cup {0}]
  /\ rng_result \in {-1, 0, 1}

SelfTestInit ==
  /\ pk_method = NoMethod /\ pk_result = "none"
  /\ rng_draws = [i \in 0..(RngCheckCount - 1) |-> 0] /\ rng_result = -1

-----------------------------------------------------------------------------
(* _nx_crypto_method_self_test_pkcs1                                       *)

\* The method's NX_CRYPTO_AUTHENTICATE with pri_e: the signature it writes.
Sign(m, x) == PowMod(x, m.sign_exp, KatKey.n)

\* The method's NX_CRYPTO_VERIFY with pub_e: whether it accepts sig for x.
Accepts(m, x, sig) == PowMod(sig, m.verify_exp, KatKey.n) = x

\* Mutant: the output is not compared with the known answer.
Pkcs1NoCompare(m) ==
  CASE m.init = "fail"                        -> "init_failed"
    [] ~m.operation                           -> "ptr_error"
    [] m.fails = "set"                        -> "set_failed"
    [] m.fails = "sign"                       -> "sign_failed"
    [] ~Accepts(m, KatMsg, KatSig)            -> "verify_failed"
    [] m.cleanup = "fail"                     -> "cleanup_failed"
    [] OTHER                                  -> "success"

\* The test's control flow: init if present (its failure returned), the
\* operation entry must exist, NX_CRYPTO_SET_ADDITIONAL_DATA, the signature
\* into the cleared output buffer compared with s[], the verification of
\* s[], and cleanup if present, whose status is the test's result.
Pkcs1Result(m) ==
  CASE m.init = "fail"                        -> "init_failed"
    [] ~m.operation                           -> "ptr_error"
    [] m.fails = "set"                        -> "set_failed"
    [] m.fails = "sign"                       -> "sign_failed"
    [] Sign(m, KatMsg) # KatSig               -> "not_successful"
    [] ~Accepts(m, KatMsg, KatSig)            -> "verify_failed"
    [] m.cleanup = "fail"                     -> "cleanup_failed"
    [] OTHER                                  -> "success"

\* A self test of method table m.
SelfTestPkcs1(m) ==
  /\ pk_method' = m
  /\ pk_result' = Pkcs1Result(m)
  /\ UNCHANGED <<rng_draws, rng_result>>

-----------------------------------------------------------------------------
(* _nx_secure_crypto_rng_self_test                                         *)

\* for i: for j < i: if results[i] == results[j] return 1.  The loops stop
\* at the first duplicate; whether one exists is what the return says.
FirstDuplicate(r) ==
  \E i \in DOMAIN r : \E j \in 0..(i - 1) : r[i] = r[j]

\* Mutant: the index of the duplicate is returned in place of 1.
SelfTestRngReturnsIndex ==
  \E r \in [0..(RngCheckCount - 1) -> RandValues] :
    /\ rng_draws' = r
    /\ rng_result' = IF FirstDuplicate(r)
                     THEN CHOOSE i \in DOMAIN r : \E j \in 0..(i - 1) : r[i] = r[j]
                     ELSE 0
    /\ UNCHANGED <<pk_method, pk_result>>

\* NX_RAND is called NX_SECURE_RNG_CHECK_COUNT times (drawn here all at
\* once: each draw is independent of the loop's comparisons).
SelfTestRng ==
  \E r \in [0..(RngCheckCount - 1) -> RandValues] :
    /\ rng_draws' = r
    /\ rng_result' = IF FirstDuplicate(r) THEN 1 ELSE 0
    /\ UNCHANGED <<pk_method, pk_result>>

SelfTestNext ==
  \/ \E m \in Pkcs1Methods : SelfTestPkcs1(m)
  \/ SelfTestRng

SelfTestSpec == SelfTestInit /\ [][SelfTestNext]_svars

-----------------------------------------------------------------------------
(* Properties                                                              *)

\* A PKCS#1 method that passes the known-answer test signs every message
\* below the modulus as the key's private exponent does and accepts every
\* such signature, although the test tries one message: the signature
\* comparison and the verification of s[] together rule out the wrong
\* exponents.  And the table's cleanup, whose status is returned last after
\* a correct signature and verification, did not fail.
Pkcs1PassImpliesCorrect ==
  pk_result = "success" =>
    /\ pk_method.cleanup # "fail"
    /\ \A x \in 0..(KatKey.n - 1) :
         /\ Sign(pk_method, x) = PowMod(x, KatKey.d, KatKey.n)
         /\ Accepts(pk_method, x, PowMod(x, KatKey.d, KatKey.n))

====
