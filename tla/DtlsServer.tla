----------------------------- MODULE DtlsServer -----------------------------
(***************************************************************************)
(* A DTLS server: one UDP socket and an array of DTLS sessions that share  *)
(* the server's local (identity) certificates.                             *)
(*                                                                         *)
(* The local certificates form one linked list of certificate structures  *)
(* (nx_secure_x509_next_certificate); each session's certificate store    *)
(* holds its own pointer to the list head (nx_secure_x509_local_          *)
(* certificates).  _nx_secure_dtls_server_local_certificate_remove removes *)
(* the certificate from session 0's store under the TLS protection mutex, *)
(* then, with no lock held, reads session 0's head and copies it into      *)
(* sessions 1..n-1 one by one.  Application threads may call it           *)
(* concurrently; each call is a small state machine here:                  *)
(*   "idle" -> (remove from session 0) -> "read" -> (read head) -> "copy"  *)
(*   -> (copy into session i, i = 1..n-1) -> "idle".                       *)
(*                                                                         *)
(* The server's other operations (stop, notify set, version override,     *)
(* the checked session start, delete) are single steps.                    *)
(***************************************************************************)
EXTENDS Naturals, Sequences, SequencesExt

CONSTANTS Threads,      \* application threads calling the server API
          NumSessions,  \* nx_dtls_server_sessions_count
          InitialCerts, \* the local certificate list after setup, in order
          NotifyCallbacks, \* notify callbacks the application may install
          OverrideVersions, \* protocol versions the application may force
          EccGroupCounts, \* supported_group_count values passed to ECC init
          NX_NULL       \* NX_NULL

DtlsSessions == 0..(NumSessions - 1)
LocalCerts == ToSet(InitialCerts)

VARIABLES
  next,         \* certificate -> nx_secure_x509_next_certificate
  head,         \* session -> its store's nx_secure_x509_local_certificates
  removed,      \* certificates a remove call has taken out (ghost)
  rpc,          \* thread -> "idle", "read", "copy" in a remove call
  r_head,       \* thread -> its local list_head
  r_i,          \* thread -> its loop index i
  disconnect_notify, error_notify, \* the server's notify callbacks
  version_override, \* nx_dtls_server_protocol_version_override
  listening,    \* the UDP socket is bound with the server's receive notify
  in_use,       \* session -> nx_secure_dtls_session_in_use
  started,      \* session -> a server session start was accepted
  server_created, \* the server is on _nx_secure_dtls_server_created_ptr
  ecc_groups     \* session -> supported ECC groups its TLS session was given

dvars == <<next, head, removed, rpc, r_head, r_i, disconnect_notify,
          error_notify, version_override, listening, in_use, started,
          server_created, ecc_groups>>

\* The certificates reachable from p through the next pointers, in order.
RECURSIVE ChainFrom(_, _)
ChainFrom(p, n) ==
  IF p = NX_NULL \/ n = 0 THEN <<>> ELSE <<p>> \o ChainFrom(next[p], n - 1)

List(s) == ChainFrom(head[s], Len(InitialCerts))

DtlsTypeOK ==
  /\ next \in [LocalCerts -> LocalCerts \cup {NX_NULL}]
  /\ head \in [DtlsSessions -> LocalCerts \cup {NX_NULL}]
  /\ removed \subseteq LocalCerts
  /\ rpc \in [Threads -> {"idle", "read", "copy"}]
  /\ r_head \in [Threads -> LocalCerts \cup {NX_NULL}]
  /\ r_i \in [Threads -> 0..NumSessions]
  /\ disconnect_notify \in NotifyCallbacks \cup {NX_NULL}
  /\ error_notify \in NotifyCallbacks \cup {NX_NULL}
  /\ version_override \in OverrideVersions \cup {0}
  /\ listening \in BOOLEAN
  /\ in_use \in [DtlsSessions -> BOOLEAN]
  /\ started \in [DtlsSessions -> BOOLEAN]
  /\ server_created \in BOOLEAN
  /\ ecc_groups \in [DtlsSessions -> EccGroupCounts]

\* After setup every session's store points at the one shared list.
DtlsInit ==
  /\ next = [c \in LocalCerts |->
               LET k == CHOOSE j \in 1..Len(InitialCerts) : InitialCerts[j] = c
               IN  IF k = Len(InitialCerts) THEN NX_NULL ELSE InitialCerts[k + 1]]
  /\ head = [s \in DtlsSessions |-> IF InitialCerts = <<>> THEN NX_NULL ELSE InitialCerts[1]]
  /\ removed = {}
  /\ rpc = [t \in Threads |-> "idle"]
  /\ r_head = [t \in Threads |-> NX_NULL]
  /\ r_i = [t \in Threads |-> 0]
  /\ disconnect_notify = NX_NULL
  /\ error_notify = NX_NULL
  /\ version_override = 0
  /\ listening = TRUE
  /\ in_use = [s \in DtlsSessions |-> FALSE]
  /\ started = [s \in DtlsSessions |-> FALSE]
  /\ server_created = TRUE
  /\ ecc_groups = [s \in DtlsSessions |-> 0]

-----------------------------------------------------------------------------
(* _nx_secure_dtls_server_local_certificate_remove                         *)

\* _nx_secure_tls_server_certificate_remove / _local_certificate_remove on
\* session 0 (the x509 list removal, under the TLS protection mutex):
\* unlink c from the chain of session 0, at the head or after its
\* predecessor.  A certificate not in the list is an error return.
UnlinkFromFirst(c) ==
  IF head[0] = c
  THEN /\ head' = [head EXCEPT ![0] = next[c]]
       /\ UNCHANGED next
  ELSE LET prev == CHOOSE p \in ToSet(List(0)) : next[p] = c
       IN  /\ next' = [next EXCEPT ![prev] = next[c]]
           /\ UNCHANGED head

\* Remove from the first session; on an error status return at once.
RemoveFromFirst(t, c) ==
  /\ rpc[t] = "idle"
  /\ NumSessions > 0
  /\ c \in ToSet(List(0))
  /\ UnlinkFromFirst(c)
  /\ removed' = removed \cup {c}
  /\ rpc' = [rpc EXCEPT ![t] = "read"]
  /\ UNCHANGED <<r_head, r_i, disconnect_notify, error_notify,
                 version_override, listening, in_use, started,
                 server_created, ecc_groups>>

\* Mutant: the list head is not taken from session 0 but left NX_NULL.
ReadHeadNull(t) ==
  /\ rpc[t] = "read"
  /\ r_head' = [r_head EXCEPT ![t] = NX_NULL]
  /\ r_i' = [r_i EXCEPT ![t] = 1]
  /\ rpc' = [rpc EXCEPT ![t] = IF NumSessions > 1 THEN "copy" ELSE "idle"]
  /\ UNCHANGED <<next, head, removed, disconnect_notify, error_notify,
                 version_override, listening, in_use, started,
                 server_created, ecc_groups>>

\* "Store the certificates list head for other sessions", then enter the
\* loop for(i = 1; i < num_sessions; ++i).
ReadHead(t) ==
  /\ rpc[t] = "read"
  /\ r_head' = [r_head EXCEPT ![t] = head[0]]
  /\ r_i' = [r_i EXCEPT ![t] = 1]
  /\ rpc' = [rpc EXCEPT ![t] = IF NumSessions > 1 THEN "copy" ELSE "idle"]
  /\ UNCHANGED <<next, head, removed, disconnect_notify, error_notify,
                 version_override, listening, in_use, started,
                 server_created, ecc_groups>>

\* Mutant: the loop runs while i <= num_sessions, one store past the array.
CopyHeadPastEnd(t) ==
  /\ rpc[t] = "copy"
  /\ head' = [head EXCEPT ![r_i[t]] = r_head[t]]
  /\ r_i' = [r_i EXCEPT ![t] = r_i[t] + 1]
  /\ rpc' = [rpc EXCEPT ![t] = IF r_i[t] + 1 <= NumSessions THEN "copy" ELSE "idle"]
  /\ UNCHANGED <<next, removed, r_head, disconnect_notify, error_notify,
                 version_override, listening, in_use, started,
                 server_created, ecc_groups>>

\* Mutant: the loop stops one session early (i < num_sessions - 1).
CopyHeadShort(t) ==
  /\ rpc[t] = "copy"
  /\ head' = [head EXCEPT ![r_i[t]] = r_head[t]]
  /\ r_i' = [r_i EXCEPT ![t] = r_i[t] + 1]
  /\ rpc' = [rpc EXCEPT ![t] = IF r_i[t] + 2 < NumSessions THEN "copy" ELSE "idle"]
  /\ UNCHANGED <<next, removed, r_head, disconnect_notify, error_notify,
                 version_override, listening, in_use, started,
                 server_created, ecc_groups>>

\* One loop iteration: session i's store takes the saved head.
CopyHead(t) ==
  /\ rpc[t] = "copy"
  /\ head' = [head EXCEPT ![r_i[t]] = r_head[t]]
  /\ r_i' = [r_i EXCEPT ![t] = r_i[t] + 1]
  /\ rpc' = [rpc EXCEPT ![t] = IF r_i[t] + 1 < NumSessions THEN "copy" ELSE "idle"]
  /\ UNCHANGED <<next, removed, r_head, disconnect_notify, error_notify,
                 version_override, listening, in_use, started,
                 server_created, ecc_groups>>

-----------------------------------------------------------------------------
(* The server's other operations                                           *)

ServerVars == <<disconnect_notify, error_notify, version_override,
                listening, in_use, started, server_created>>
CertVars == <<next, head, removed, rpc, r_head, r_i, ecc_groups>>

\* _nx_secure_dtls_server_notify_set: both callbacks assigned.
ServerNotifySet(d, e) ==
  /\ disconnect_notify' = d
  /\ error_notify' = e
  /\ UNCHANGED <<version_override, listening, in_use, started, server_created>>
  /\ UNCHANGED CertVars

\* _nx_secure_dtls_server_protocol_version_override.
ServerProtocolVersionOverride(v) ==
  /\ version_override' = v
  /\ UNCHANGED <<disconnect_notify, error_notify, listening, in_use, started,
                 server_created>>
  /\ UNCHANGED CertVars

\* A client's first datagram while the server listens claims a free
\* session (the server's receive callback, not under src/).
ClientArrives(s) ==
  /\ server_created /\ listening
  /\ ~in_use[s]
  /\ in_use' = [in_use EXCEPT ![s] = TRUE]
  /\ UNCHANGED <<disconnect_notify, error_notify, version_override,
                 listening, started, server_created>>
  /\ UNCHANGED CertVars

\* _nxe_secure_dtls_server_session_start: the session must have its UDP
\* socket, be in use and be initialized; otherwise
\* NX_SECURE_TLS_SESSION_UNINITIALIZED and nothing happens.
ServerSessionStart(s) ==
  /\ in_use[s]
  /\ started' = [started EXCEPT ![s] = TRUE]
  /\ UNCHANGED <<disconnect_notify, error_notify, version_override,
                 listening, in_use, server_created>>
  /\ UNCHANGED CertVars

\* _nx_secure_dtls_server_stop: the receive notify is cleared, every
\* session reset (in use and handshake state cleared; its certificate
\* store is kept), the socket unbound.  A second stop fails in the unbind
\* after the same resets.
ServerStop ==
  /\ listening' = FALSE
  /\ in_use' = [s \in DtlsSessions |-> FALSE]
  /\ started' = [s \in DtlsSessions |-> FALSE]
  /\ UNCHANGED <<disconnect_notify, error_notify, version_override,
                 server_created>>
  /\ UNCHANGED CertVars

\* The application starts the server again (nx_secure_dtls_server_start,
\* not under src/): bind and install the receive notify.
ServerStart ==
  /\ server_created /\ ~listening
  /\ listening' = TRUE
  /\ UNCHANGED <<disconnect_notify, error_notify, version_override,
                 in_use, started, server_created>>
  /\ UNCHANGED CertVars

\* _nxe_secure_dtls_server_notify_set: NX_PTR_ERROR only for a NULL
\* server (never passed here), then the notify set.
NxeServerNotifySet(d, e) == ServerNotifySet(d, e)

\* _nxe_secure_dtls_server_delete: the created-server list is walked, with
\* no lock, until the server, NX_NULL or the list's start is met; a server
\* not on it is NX_PTR_ERROR.  Then _nx_secure_dtls_server_delete (not
\* under src/): every session is deleted, the UDP socket unbound and
\* deleted, and the server unlinked from the created list.
NxeServerDelete ==
  /\ server_created
  /\ server_created' = FALSE
  /\ listening' = FALSE
  /\ in_use' = [s \in DtlsSessions |-> FALSE]
  /\ started' = [s \in DtlsSessions |-> FALSE]
  /\ UNCHANGED <<disconnect_notify, error_notify, version_override>>
  /\ UNCHANGED CertVars

\* The ECC initializations' argument check: NX_PTR_ERROR when groups are
\* counted but the group list or the curve table is NX_NULL.
EccArgsOk(n, ptrs) == ~(n > 0 /\ ~ptrs)

\* _nxe_secure_dtls_server_ecc_initialize: the argument check, then
\* _nx_secure_dtls_server_ecc_initialize (not under src/) gives every
\* session's TLS session the same supported groups and curves.
NxeServerEccInitialize(n, ptrs) ==
  /\ EccArgsOk(n, ptrs)
  /\ ecc_groups' = [s \in DtlsSessions |-> n]
  /\ UNCHANGED <<next, head, removed, rpc, r_head, r_i>>
  /\ UNCHANGED ServerVars

\* _nxe_secure_dtls_ecc_initialize: the argument check, then
\* _nx_secure_dtls_ecc_initialize (not under src/) on one DTLS session.
NxeDtlsEccInitialize(s, n, ptrs) ==
  /\ EccArgsOk(n, ptrs)
  /\ ecc_groups' = [ecc_groups EXCEPT ![s] = n]
  /\ UNCHANGED <<next, head, removed, rpc, r_head, r_i>>
  /\ UNCHANGED ServerVars

DtlsNext ==
  \/ \E t \in Threads :
       \/ \E c \in LocalCerts : RemoveFromFirst(t, c)
       \/ ReadHead(t)
       \/ CopyHead(t)
  \/ \E d, e \in NotifyCallbacks \cup {NX_NULL} : NxeServerNotifySet(d, e)
  \/ \E v \in OverrideVersions : ServerProtocolVersionOverride(v)
  \/ \E s \in DtlsSessions : ClientArrives(s) \/ ServerSessionStart(s)
  \/ ServerStop
  \/ ServerStart
  \/ NxeServerDelete
  \/ \E n \in EccGroupCounts, ptrs \in BOOLEAN :
       \/ NxeServerEccInitialize(n, ptrs)
       \/ \E s \in DtlsSessions : NxeDtlsEccInitialize(s, n, ptrs)

DtlsSpec == DtlsInit /\ [][DtlsNext]_dvars

-----------------------------------------------------------------------------
(* Properties                                                              *)

Quiet == \A t \in Threads : rpc[t] = "idle"

\* Once no remove call is running, every session of the server offers the
\* same local certificates as session 0: the head copies of the remove
\* loop leave no session on an older list.
SessionsShareLocalCerts ==
  Quiet => \A s \in DtlsSessions : List(s) = List(0)

\* Once no remove call is running, no session can reach a certificate a
\* remove call has taken out (and the application may now reuse): neither
\* the unlink in session 0 nor the head copies leave one reachable.
NoRemovedCertReachable ==
  Quiet => \A s \in DtlsSessions : removed \cap ToSet(List(s)) = {}

====
