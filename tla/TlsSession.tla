----------------------------- MODULE TlsSession -----------------------------
(***************************************************************************)
(* NetX Secure TLS sessions: the tail of a client handshake (the TLS 1.3   *)
(* EncryptedExtensions and the Finished check of both versions, which      *)
(* releases the peer's certificates), the session's certificate and        *)
(* callback settings, and the deletion of sessions one by one or all at    *)
(* once by _nx_secure_tls_shutdown.                                        *)
(*                                                                         *)
(* Every service runs under the global _nx_secure_tls_protection mutex (or *)
(* is a single store) and is one atomic step.  The routines under src/ are *)
(* translated; what they call and what drives the handshake up to the      *)
(* Finished (session create and delete, receiving the peer's certificates  *)
(* and ChangeCipherSpec, the Finished hash generators) is modelled from    *)
(* its effect.  A Finished message is abstracted to whether its verify     *)
(* data is the one expected and how its length compares with the hash.    *)
(***************************************************************************)
EXTENDS Naturals, Sequences, SequencesExt

CONSTANTS Sessions,        \* NX_SECURE_TLS_SESSION control blocks
          Certs,           \* X.509 certificates the application owns
          CertIds,         \* cert_id values passed to server_certificate_add
          Callbacks,       \* application callback functions
          MaxRemoteCerts,  \* certificates the peer may send
          FailingVersions, \* versions whose Finished hash generation may fail
          NULL

Versions == {"1.2", "1.3"}
ClientStates == {"IDLE", "ENCRYPTED_EXTENSIONS", "HANDSHAKE_FINISHED"}

VARIABLES
  created,          \* _nx_secure_tls_created_ptr list, head first
  created_count,    \* _nx_secure_tls_created_count
  tls_id,           \* session -> nx_secure_tls_id = NX_SECURE_TLS_ID
  protection,       \* _nx_secure_tls_protection: "ready" or "deleted"
  version,          \* session -> negotiated version
  client_state,     \* session -> nx_secure_tls_client_state
  remote_active,    \* session -> nx_secure_tls_remote_session_active
  credentials,      \* session -> nx_secure_tls_received_remote_credentials
  remote_certs,     \* session -> remote certificates held in the store
  buffer_reduced,   \* session -> packet buffer shrunk by certificate storage
  remote_alloc,     \* session -> certificate structures the application gave
  remote_free,      \* session -> of those, the ones not holding a certificate
  peer_finished,    \* session -> the last Finished received: its verify
                    \* data ("GOOD", "BAD") and its message_length
  local_certs,      \* session -> local certificates in its store
  cert_ident,       \* certificate -> nx_secure_x509_cert_identifier
  active_cert,      \* session -> nx_secure_tls_active_certificate
  verify_client,    \* session -> nx_secure_tls_verify_client_certificate
  callbacks,        \* session -> [time, client, certificate] callbacks
  trusted           \* session -> trusted certificates in its store

vars == <<created, created_count, tls_id, protection, version, client_state,
          remote_active, credentials, remote_certs, buffer_reduced, remote_alloc, remote_free,
          peer_finished, local_certs, cert_ident, active_cert, verify_client,
          callbacks, trusted>>

\* No Finished received yet.
NoFinished == [data |-> "NONE", len |-> 0]

\* The length of the hash a Finished generator produces, in the units the
\* message length offsets below are counted in.
HashLen == 2

\* Finished message lengths: one short of, equal to and one past the hash.
FinishedLens == {HashLen - 1, HashLen, HashLen + 1}

NoCallbacks == [time |-> NULL, client |-> NULL, certificate |-> NULL]

TypeOK ==
  /\ created \in Seq(Sessions) /\ created_count \in 0..Cardinality(Sessions)
  /\ tls_id \in [Sessions -> BOOLEAN]
  /\ protection \in {"ready", "deleted"}
  /\ version \in [Sessions -> Versions]
  /\ client_state \in [Sessions -> ClientStates]
  /\ remote_active \in [Sessions -> BOOLEAN]
  /\ credentials \in [Sessions -> BOOLEAN]
  /\ remote_certs \in [Sessions -> 0..MaxRemoteCerts]
  /\ buffer_reduced \in [Sessions -> BOOLEAN]
  /\ remote_alloc \in [Sessions -> 0..MaxRemoteCerts]
  /\ remote_free \in [Sessions -> 0..MaxRemoteCerts]
  /\ peer_finished \in [Sessions -> {NoFinished} \cup
                          [data : {"GOOD", "BAD"}, len : FinishedLens]]
  /\ local_certs \in [Sessions -> SUBSET Certs]
  /\ cert_ident \in [Certs -> CertIds \cup {0}]
  /\ active_cert \in [Sessions -> Certs \cup {NULL}]
  /\ verify_client \in [Sessions -> BOOLEAN]
  /\ callbacks \in [Sessions -> [time : Callbacks \cup {NULL},
                                 client : Callbacks \cup {NULL},
                                 certificate : Callbacks \cup {NULL}]]
  /\ trusted \in [Sessions -> SUBSET Certs]

Init ==
  /\ created = <<>> /\ created_count = 0
  /\ tls_id = [s \in Sessions |-> FALSE]
  /\ protection = "ready"
  /\ version = [s \in Sessions |-> "1.2"]   \* set by create before any read
  /\ client_state = [s \in Sessions |-> "IDLE"]
  /\ remote_active = [s \in Sessions |-> FALSE]
  /\ credentials = [s \in Sessions |-> FALSE]
  /\ remote_certs = [s \in Sessions |-> 0]
  /\ buffer_reduced = [s \in Sessions |-> FALSE]
  /\ remote_alloc = [s \in Sessions |-> 0]
  /\ remote_free = [s \in Sessions |-> 0]
  /\ peer_finished = [s \in Sessions |-> NoFinished]
  /\ local_certs = [s \in Sessions |-> {}]
  /\ cert_ident = [c \in Certs |-> 0]
  /\ active_cert = [s \in Sessions |-> NULL]
  /\ verify_client = [s \in Sessions |-> FALSE]
  /\ callbacks = [s \in Sessions |-> NoCallbacks]
  /\ trusted = [s \in Sessions |-> {}]

\* The variables of one session's handshake and store.
SessionVars == <<version, client_state, remote_active, credentials, remote_certs,
                 buffer_reduced, remote_alloc, remote_free, peer_finished, local_certs, active_cert,
                 verify_client, callbacks, trusted>>

-----------------------------------------------------------------------------
(* Session create and delete (not under src/, modelled from their effect)  *)

\* _nx_secure_tls_session_create: a cleared control block linked at the
\* end of the created list; the version is the one it will negotiate.
SessionCreate(s, v) ==
  /\ protection = "ready" /\ ~tls_id[s]
  /\ tls_id' = [tls_id EXCEPT ![s] = TRUE]
  /\ created' = Append(created, s)
  /\ created_count' = created_count + 1
  /\ version' = [version EXCEPT ![s] = v]
  /\ client_state' = [client_state EXCEPT ![s] = "IDLE"]
  /\ remote_active' = [remote_active EXCEPT ![s] = FALSE]
  /\ credentials' = [credentials EXCEPT ![s] = FALSE]
  /\ remote_certs' = [remote_certs EXCEPT ![s] = 0]
  /\ buffer_reduced' = [buffer_reduced EXCEPT ![s] = FALSE]
  /\ remote_alloc' = [remote_alloc EXCEPT ![s] = 0]
  /\ remote_free' = [remote_free EXCEPT ![s] = 0]
  /\ peer_finished' = [peer_finished EXCEPT ![s] = NoFinished]
  /\ local_certs' = [local_certs EXCEPT ![s] = {}]
  /\ active_cert' = [active_cert EXCEPT ![s] = NULL]
  /\ verify_client' = [verify_client EXCEPT ![s] = FALSE]
  /\ callbacks' = [callbacks EXCEPT ![s] = NoCallbacks]
  /\ trusted' = [trusted EXCEPT ![s] = {}]
  /\ UNCHANGED <<protection, cert_ident>>

\* _nx_secure_tls_session_delete: the id is cleared and the session
\* unlinked (the head moves on when the head is deleted).
SessionDelete(s) ==
  /\ tls_id' = [tls_id EXCEPT ![s] = FALSE]
  /\ created' = Remove(created, s)
  /\ created_count' = created_count - 1

\* _nxe_secure_tls_session_delete: NX_PTR_ERROR unless the session is
\* found by walking the circular created list from its head.
NxeSessionDelete(s) ==
  /\ protection = "ready"
  /\ Contains(created, s)
  /\ SessionDelete(s)
  /\ UNCHANGED <<protection, cert_ident>> /\ UNCHANGED SessionVars

\* _nx_secure_tls_shutdown: delete the head session until the created
\* list is empty, zero the count and delete the protection mutex.
Shutdown ==
  /\ protection = "ready"
  /\ tls_id' = [s \in Sessions |-> tls_id[s] /\ ~Contains(created, s)]
  /\ created' = <<>>
  /\ created_count' = 0
  /\ protection' = "deleted"
  /\ UNCHANGED <<cert_ident>> /\ UNCHANGED SessionVars

-----------------------------------------------------------------------------
(* The handshake up to the Finished (not under src/)                       *)

\* The peer's Certificate message: each certificate is parsed into one of
\* the free certificate structures the application allocated, or, when
\* none is left, into storage carved from the session's packet buffer,
\* and added to the remote store.
ReceiveCertificate(s) ==
  /\ tls_id[s] /\ client_state[s] # "HANDSHAKE_FINISHED"
  /\ remote_certs[s] < MaxRemoteCerts
  /\ remote_certs' = [remote_certs EXCEPT ![s] = @ + 1]
  /\ IF remote_free[s] > 0
     THEN /\ remote_free' = [remote_free EXCEPT ![s] = @ - 1]
          /\ UNCHANGED buffer_reduced
     ELSE /\ buffer_reduced' = [buffer_reduced EXCEPT ![s] = TRUE]
          /\ UNCHANGED remote_free
  /\ credentials' = [credentials EXCEPT ![s] = TRUE]
  /\ UNCHANGED <<created, created_count, tls_id, protection, version,
                 client_state, remote_active, peer_finished, local_certs,
                 cert_ident, active_cert, verify_client, callbacks, trusted,
                 remote_alloc>>

\* TLS 1.2 ChangeCipherSpec from the peer: its session keys are active.
ReceiveChangeCipherSpec(s) ==
  /\ tls_id[s] /\ version[s] = "1.2" /\ ~remote_active[s]
  /\ remote_active' = [remote_active EXCEPT ![s] = TRUE]
  /\ UNCHANGED <<created, created_count, tls_id, protection, version,
                 client_state, credentials, remote_certs, buffer_reduced, remote_alloc, remote_free,
                 peer_finished, local_certs, cert_ident, active_cert,
                 verify_client, callbacks, trusted>>

\* _nxe_secure_tls_remote_certificate_buffer_allocate: NX_PTR_ERROR for a
\* NULL session or buffer, NX_INVALID_PARAMETERS for no certificates or an
\* empty buffer, NX_SECURE_TLS_SESSION_UNINITIALIZED unless the session is
\* created; then the internal allocate (not under src/) cuts the buffer
\* into n certificate structures and puts each on the free list.
NxeRemoteCertificateBufferAllocate(s, n) ==
  /\ n # 0 /\ tls_id[s]
  /\ remote_alloc[s] + n <= MaxRemoteCerts
  /\ remote_alloc' = [remote_alloc EXCEPT ![s] = @ + n]
  /\ remote_free' = [remote_free EXCEPT ![s] = @ + n]
  /\ UNCHANGED <<created, created_count, tls_id, protection, version,
                 client_state, remote_active, credentials, remote_certs,
                 buffer_reduced, peer_finished, local_certs, cert_ident,
                 active_cert, verify_client, callbacks, trusted>>

-----------------------------------------------------------------------------
(* _nx_secure_tls_process_encrypted_extensions, _process_finished and       *)
(* _remote_certificate_free_all                                            *)

\* TLS 1.3 EncryptedExtensions: the client moves to that state.
ProcessEncryptedExtensions(s) ==
  /\ tls_id[s] /\ version[s] = "1.3" /\ client_state[s] = "IDLE"
  /\ client_state' = [client_state EXCEPT ![s] = "ENCRYPTED_EXTENSIONS"]
  /\ UNCHANGED <<created, created_count, tls_id, protection, version,
                 remote_active, credentials, remote_certs, buffer_reduced, remote_alloc, remote_free,
                 peer_finished, local_certs, cert_ident, active_cert,
                 verify_client, callbacks, trusted>>

\* Mutant: the packet buffer is not given back.
FreeAllKeepsBuffer(s) ==
  /\ remote_certs' = [remote_certs EXCEPT ![s] = 0]
  /\ remote_free' = [remote_free EXCEPT ![s] = remote_alloc[s]]
  /\ UNCHANGED buffer_reduced

\* Mutant: one certificate is freed (an if in place of the while).
FreeAllOnce(s) ==
  /\ buffer_reduced' = [buffer_reduced EXCEPT ![s] = FALSE]
  /\ remote_certs' = [remote_certs EXCEPT ![s] = IF @ > 0 THEN @ - 1 ELSE 0]
  /\ remote_free' = [remote_free EXCEPT ![s] = remote_alloc[s]]

\* Mutant: the list is freed with a do-while, one free before the test.
FreeAllDoWhile(s) ==
  /\ buffer_reduced' = [buffer_reduced EXCEPT ![s] = FALSE]
  /\ remote_certs' = [remote_certs EXCEPT ![s] = IF @ = 0 THEN -1 ELSE 0]
  /\ remote_free' = [remote_free EXCEPT ![s] = remote_alloc[s]]

\* Restore the packet buffer's original size, then free the head of the
\* remote certificate list until it is empty (_nx_secure_tls_remote_
\* certificate_free puts a certificate in an allocated structure back on
\* the free list).
RemoteCertificateFreeAll(s) ==
  /\ buffer_reduced' = [buffer_reduced EXCEPT ![s] = FALSE]
  /\ remote_certs' = [remote_certs EXCEPT ![s] = 0]
  /\ remote_free' = [remote_free EXCEPT ![s] = remote_alloc[s]]

\* Mutant: the TLS 1.2 branch does not return the generator's status.
FinishedVerifiedNoStatusCheck(s, good, msgLen, genOk, hashSize) ==
  IF version[s] = "1.3"
  THEN ~(hashSize > msgLen) /\ (hashSize = 0 \/ (genOk /\ good))
  ELSE msgLen = HashLen /\ remote_active[s] /\ credentials[s] /\ (~genOk \/ good)

\* Whether the Finished check passes.  TLS 1.3: the hash is generated (its
\* status is not looked at), a hash longer than the message fails, and
\* otherwise hash_size bytes are compared; a generator that failed leaves
\* hash_size at 0, or sets it without writing the expected hash.  TLS 1.2:
\* the length must be 12 bytes, the peer's keys active, its credentials
\* received and the generator successful before the 12 bytes compare.
FinishedVerified(s, good, msgLen, genOk, hashSize) ==
  IF version[s] = "1.3"
  THEN ~(hashSize > msgLen) /\ (hashSize = 0 \/ (genOk /\ good))
  ELSE msgLen = HashLen /\ remote_active[s] /\ credentials[s] /\ genOk /\ good

\* A Finished whose verify data is the expected one (good) or not, with
\* length msgLen; on success the client's handshake is finished and the
\* peer's certificates freed.  Every failure returns before any change.
ProcessFinished(s, good, msgLen) ==
  /\ tls_id[s]
  /\ client_state[s] = IF version[s] = "1.3" THEN "ENCRYPTED_EXTENSIONS" ELSE "IDLE"
  /\ peer_finished' = [peer_finished EXCEPT ![s] =
                          [data |-> IF good THEN "GOOD" ELSE "BAD", len |-> msgLen]]
  /\ \E genOk \in IF version[s] \in FailingVersions THEN BOOLEAN ELSE {TRUE} :
     \E hashSize \in IF genOk THEN {HashLen} ELSE {0, HashLen} :
       IF FinishedVerified(s, good, msgLen, genOk, hashSize)
       THEN /\ client_state' = [client_state EXCEPT ![s] = "HANDSHAKE_FINISHED"]
            /\ RemoteCertificateFreeAll(s)
       ELSE UNCHANGED <<client_state, remote_certs, buffer_reduced, remote_free>>
  /\ UNCHANGED <<created, created_count, tls_id, protection, version,
                 remote_active, credentials, remote_alloc, local_certs, cert_ident,
                 active_cert, verify_client, callbacks, trusted>>

-----------------------------------------------------------------------------
(* Certificates and settings of a session                                  *)

\* _nx_secure_tls_local_certificate_add (not under src/): the store takes
\* a certificate it does not hold yet.
LocalCertificateAdd(s, c) == c \notin local_certs[s]

\* _nx_secure_tls_server_certificate_add: NX_SECURE_TLS_CERT_ID_INVALID
\* for id 0; otherwise the certificate's identifier is set and the
\* certificate added (the identifier is written whatever the add returns).
ServerCertificateAdd(s, c, id) ==
  /\ id # 0
  /\ cert_ident' = [cert_ident EXCEPT ![c] = id]
  /\ local_certs' = [local_certs EXCEPT ![s] =
                       IF LocalCertificateAdd(s, c) THEN @ \cup {c} ELSE @]
  /\ UNCHANGED <<created, created_count, tls_id, protection, version,
                 client_state, remote_active, credentials, remote_certs,
                 buffer_reduced, remote_alloc, remote_free, peer_finished, active_cert, verify_client,
                 callbacks, trusted>>

\* _nxe_secure_tls_server_certificate_add: NX_SECURE_TLS_SESSION_UNINITIALIZED
\* unless the session is created.
NxeServerCertificateAdd(s, c, id) == tls_id[s] /\ ServerCertificateAdd(s, c, id)

\* _nx_secure_dtls_session_local_certificate_add: the DTLS session's TLS
\* session takes the certificate through the server-certificate add (its
\* error-checking wrapper, not under src/, requires a created session).
DtlsSessionLocalCertificateAdd(s, c, id) ==
  tls_id[s] /\ ServerCertificateAdd(s, c, id)

\* _nx_secure_tls_active_certificate_set: no check that it is in a store.
ActiveCertificateSet(s, c) ==
  /\ active_cert' = [active_cert EXCEPT ![s] = c]
  /\ UNCHANGED <<created, created_count, tls_id, protection, version,
                 client_state, remote_active, credentials, remote_certs,
                 buffer_reduced, remote_alloc, remote_free, peer_finished, local_certs, cert_ident,
                 verify_client, callbacks, trusted>>

\* The variables other than the trusted stores and the identifiers.
OtherThanTrusted == <<created, created_count, tls_id, protection, version,
                      client_state, remote_active, credentials, remote_certs,
                      buffer_reduced, remote_alloc, remote_free, peer_finished, local_certs, active_cert,
                      verify_client, callbacks>>

\* _nx_secure_tls_trusted_certificate_add: the store's add (through the
\* session's function pointer) links the certificate into the trusted list.
TrustedCertificateAdd(s, c) ==
  /\ trusted' = [trusted EXCEPT ![s] = @ \cup {c}]
  /\ UNCHANGED cert_ident /\ UNCHANGED OtherThanTrusted

\* _nx_secure_dtls_session_trusted_certificate_add: the certificate's
\* identifier is overwritten with id, then the certificate is added to the
\* trusted store of the DTLS session's TLS session.
DtlsSessionTrustedCertificateAdd(s, c, id) ==
  /\ cert_ident' = [cert_ident EXCEPT ![c] = id]
  /\ trusted' = [trusted EXCEPT ![s] = @ \cup {c}]
  /\ UNCHANGED OtherThanTrusted

\* _nxe_secure_dtls_session_trusted_certificate_add: NX_INVALID_PARAMETERS
\* for id 0, NX_SECURE_TLS_SESSION_UNINITIALIZED for a session not created.
NxeDtlsSessionTrustedCertificateAdd(s, c, id) ==
  id # 0 /\ tls_id[s] /\ DtlsSessionTrustedCertificateAdd(s, c, id)

\* _nx_secure_tls_trusted_certificate_remove by common name:
\* NX_SECURE_TLS_CERTIFICATE_NOT_FOUND if the store has no such name.
TrustedCertificateRemove(s, c) ==
  /\ c \in trusted[s]
  /\ trusted' = [trusted EXCEPT ![s] = @ \ {c}]
  /\ UNCHANGED <<created, created_count, tls_id, protection, version,
                 client_state, remote_active, credentials, remote_certs,
                 buffer_reduced, remote_alloc, remote_free, peer_finished, local_certs, cert_ident,
                 active_cert, verify_client, callbacks>>

\* _nx_secure_x509_store_certificate_remove by identifier (not under src/):
\* the first trusted certificate with that identifier is unlinked;
\* NX_SECURE_X509_CERTIFICATE_NOT_FOUND if there is none.
StoreRemoveById(s, id) ==
  /\ \E c \in trusted[s] : cert_ident[c] = id
  /\ \E c \in trusted[s] :
       /\ cert_ident[c] = id
       /\ trusted' = [trusted EXCEPT ![s] = @ \ {c}]

\* _nx_secure_dtls_session_trusted_certificate_remove: a nonzero id removes
\* by identifier, id 0 by the common name (here: the certificate c).
DtlsSessionTrustedCertificateRemove(s, c, id) ==
  /\ IF id # 0 THEN StoreRemoveById(s, id) /\ UNCHANGED cert_ident
               ELSE TrustedCertificateRemove(s, c)
  /\ UNCHANGED OtherThanTrusted

\* _nxe_secure_dtls_session_trusted_certificate_remove:
\* NX_SECURE_TLS_SESSION_UNINITIALIZED unless the session is created.
NxeDtlsSessionTrustedCertificateRemove(s, c, id) ==
  tls_id[s] /\ DtlsSessionTrustedCertificateRemove(s, c, id)

ClientVerifyEnable(s) ==
  /\ verify_client' = [verify_client EXCEPT ![s] = TRUE]
  /\ UNCHANGED <<created, created_count, tls_id, protection, version,
                 client_state, remote_active, credentials, remote_certs,
                 buffer_reduced, remote_alloc, remote_free, peer_finished, local_certs, cert_ident,
                 active_cert, callbacks, trusted>>

\* The three callback setters: one field each.
CallbackSet(s, field, f) ==
  /\ callbacks' = [callbacks EXCEPT ![s][field] = f]
  /\ UNCHANGED <<created, created_count, tls_id, protection, version,
                 client_state, remote_active, credentials, remote_certs,
                 buffer_reduced, remote_alloc, remote_free, peer_finished, local_certs, cert_ident,
                 active_cert, verify_client, trusted>>

TimeFunctionSet(s, f) == CallbackSet(s, "time", f)
ClientCallbackSet(s, f) == CallbackSet(s, "client", f)
CertificateCallbackSet(s, f) == CallbackSet(s, "certificate", f)

Next ==
  \/ Shutdown
  \/ \E s \in Sessions :
       \/ \E v \in Versions : SessionCreate(s, v)
       \/ NxeSessionDelete(s)
       \/ ReceiveCertificate(s) \/ ReceiveChangeCipherSpec(s)
       \/ ProcessEncryptedExtensions(s)
       \/ \E n \in {0, 1} : NxeRemoteCertificateBufferAllocate(s, n)
       \/ \E good \in BOOLEAN, len \in FinishedLens :
            ProcessFinished(s, good, len)
       \/ \E c \in Certs :
            \/ \E id \in CertIds :
                 \/ NxeServerCertificateAdd(s, c, id)
                 \/ DtlsSessionLocalCertificateAdd(s, c, id)
                 \/ NxeDtlsSessionTrustedCertificateAdd(s, c, id)
                 \/ NxeDtlsSessionTrustedCertificateRemove(s, c, id)
            \/ TrustedCertificateAdd(s, c) \/ TrustedCertificateRemove(s, c)
       \/ \E c \in Certs \cup {NULL} : ActiveCertificateSet(s, c)
       \/ ClientVerifyEnable(s)
       \/ \E f \in Callbacks \cup {NULL} :
            TimeFunctionSet(s, f) \/ ClientCallbackSet(s, f)
            \/ CertificateCallbackSet(s, f)

Spec == Init /\ [][Next]_vars

-----------------------------------------------------------------------------
(* Properties                                                              *)

\* A client reaches HANDSHAKE_FINISHED only on a Finished message whose
\* verify data is the one its own handshake hash gives, whatever the
\* version, the message length, the peer's earlier messages and the
\* outcome of the Finished hash generation; and under TLS 1.2 only after
\* the peer's ChangeCipherSpec and credentials, however early its Finished
\* arrived.
FinishedOnlyIfVerified ==
  \A s \in Sessions :
    client_state[s] = "HANDSHAKE_FINISHED" =>
      /\ peer_finished[s].data = "GOOD"
      /\ version[s] = "1.2" => remote_active[s] /\ credentials[s]

\* A finished handshake holds none of the peer's certificates, has its
\* whole packet buffer back and every certificate structure the
\* application allocated free again, however many certificates the peer
\* sent and wherever each was stored.
CertsReleasedOnFinish ==
  \A s \in Sessions :
    client_state[s] = "HANDSHAKE_FINISHED" =>
      /\ remote_certs[s] = 0 /\ ~buffer_reduced[s]
      /\ remote_free[s] = remote_alloc[s]

\* A client reaches HANDSHAKE_FINISHED only on a Finished message whose
\* length is the length of the verify data its own handshake hash gives
\* (the comment of _nx_secure_tls_process_finished: "Make sure the length
\* is what we expect"; RFC 8446 4.4.4 fixes it at the hash length).
FinishedOfHashLength ==
  \A s \in Sessions :
    client_state[s] = "HANDSHAKE_FINISHED" => peer_finished[s].len = HashLen

====
