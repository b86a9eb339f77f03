--------------------------- MODULE PacketHandoff ---------------------------
(***************************************************************************)
(* Packet buffers handed between application threads and the stack by the *)
(* UDP, raw IP and TCP send services, the UDP and raw IP receive paths    *)
(* and the packet pool.                                                    *)
(*                                                                         *)
(* A buffer is in the pool, in the hands of one application thread (its   *)
(* packet pointer), queued for the driver, queued on the UDP socket, or   *)
(* queued on the IP instance's raw receive queue.                          *)
(* A send that succeeds hands the buffer to the stack; one that fails      *)
(* leaves it with the caller, which may retry or release it.  The error-  *)
(* checking raw send (_nxe_ip_raw_packet_source_send) clears the caller's *)
(* pointer itself; for the other services the caller drops its pointer on *)
(* NX_SUCCESS.  The pool, the send internals, the driver and the UDP       *)
(* receive/bind services are not under src/ and are modelled from the     *)
(* spec's hand-off contract: a queued buffer is referenced by that queue   *)
(* alone.                                                                  *)
(***************************************************************************)
EXTENDS Naturals, Sequences, SequencesExt, FiniteSets

CONSTANTS Threads,         \* application threads
          Buffers,         \* packet buffers of the pool
          NoPacket,        \* NX_NULL packet pointer
          MaxInterfaces,   \* NX_MAX_IP_INTERFACES
          ValidInterfaces, \* indices whose nx_interface_valid is set
          Notifiers,       \* receive notify callbacks
          NoNotify,        \* NX_NULL callback
          RawQueueMaxes,   \* values given to nx_ip_raw_receive_queue_max_set
          MaxPlaintext     \* NX_SECURE_TLS_MAX_PLAINTEXT_LENGTH

VARIABLES
  pool,          \* buffers free in the packet pool
  held,          \* thread -> the packet pointer it holds
  tx,            \* buffers queued to the driver, oldest first
  rxq,           \* buffers on the UDP socket's receive queue
  raw_enabled,   \* nx_ip_raw_ip_processing
  udp_bound,     \* the UDP socket is bound to a port
  tcp_connected, \* the TCP socket is established
  udp_notify,    \* nx_udp_receive_callback
  raw_rxq,       \* nx_ip_raw_received_packet_head .. _tail
  raw_max,       \* nx_ip_raw_received_packet_max
  udp_enabled,   \* nx_ip_udp_packet_receive is set (nx_udp_enable)
  udp_reply,     \* status and queued count the last UDP info get wrote
  tls_session,   \* the TLS session over the TCP socket: "none" (no
                 \* NX_SECURE_TLS_ID), "created", or "active" (started
                 \* on the socket, handshake done)
  tls_reply      \* status the last nx_secure_tls_session_send returned

tlsvars == <<tls_session, tls_reply>>

pvars == <<pool, held, tx, rxq, raw_enabled, udp_bound, tcp_connected,
           udp_notify, raw_rxq, raw_max, udp_enabled, udp_reply, tlsvars>>

TlsStatuses == {"none", "ptr_error", "invalid_packet", "uninitialized",
                "record_overflow", "not_connected", "success"}

HandoffTypeOK ==
  /\ pool \subseteq Buffers
  /\ held \in [Threads -> Buffers \cup {NoPacket}]
  /\ tx \in Seq(Buffers) /\ rxq \in Seq(Buffers)
  /\ raw_enabled \in BOOLEAN /\ udp_bound \in BOOLEAN
  /\ tcp_connected \in BOOLEAN
  /\ udp_notify \in Notifiers \cup {NoNotify}
  /\ raw_rxq \in Seq(Buffers) /\ raw_max \in RawQueueMaxes
  /\ udp_enabled \in BOOLEAN
  /\ udp_reply \in {"none", "not_enabled", "success", "invalid_packet"} \X (0..Cardinality(Buffers))
  /\ tls_session \in {"none", "created", "active"} /\ tls_reply \in TlsStatuses

HandoffInit ==
  /\ pool = Buffers
  /\ held = [t \in Threads |-> NoPacket]
  /\ tx = <<>> /\ rxq = <<>>
  /\ raw_enabled \in BOOLEAN /\ udp_bound = FALSE /\ tcp_connected = FALSE
  /\ udp_notify = NoNotify
  /\ raw_rxq = <<>> /\ raw_max \in RawQueueMaxes
  /\ udp_enabled = FALSE /\ udp_reply = <<"none", 0>>
  /\ tls_session = "none" /\ tls_reply = "none"

\* The buffer is marked NX_PACKET_ALLOCATED: out of the pool.
Allocated(p) == p # NoPacket /\ p \notin pool

\* The caller's packet is handed to the driver and its pointer dropped.
HandOff(t) ==
  /\ tx' = Append(tx, held[t])
  /\ held' = [held EXCEPT ![t] = NoPacket]

-----------------------------------------------------------------------------
(* The packet pool (not under src/) and its error-checking allocate        *)

\* _nxe_packet_allocate: NX_OPTION_ERROR unless the packet type is a
\* multiple of sizeof(ULONG); then _nx_packet_allocate, NX_NO_PACKET when
\* the pool is empty.  A thread here holds one packet at a time.
NxePacketAllocate(t, type) ==
  /\ type % 4 = 0
  /\ held[t] = NoPacket
  /\ \E p \in pool :
       /\ held' = [held EXCEPT ![t] = p]
       /\ pool' = pool \ {p}
  /\ UNCHANGED <<tx, rxq, raw_enabled, udp_bound, tcp_connected, udp_notify, raw_rxq, raw_max, udp_enabled, udp_reply, tlsvars>>

\* _nx_packet_release: the caller gives its packet back to the pool.
PacketRelease(t) ==
  /\ held[t] # NoPacket
  /\ pool' = pool \cup {held[t]}
  /\ held' = [held EXCEPT ![t] = NoPacket]
  /\ UNCHANGED <<tx, rxq, raw_enabled, udp_bound, tcp_connected, udp_notify, raw_rxq, raw_max, udp_enabled, udp_reply, tlsvars>>

-----------------------------------------------------------------------------
(* Send services                                                           *)

\* Mutant: the packet pointer is not checked for NX_NULL.
NxeIpRawPacketSourceSendNoNullCheck(t, dst, idx) ==
  /\ raw_enabled /\ dst # 0
  /\ idx < MaxInterfaces /\ idx \in ValidInterfaces
  /\ HandOff(t)
  /\ UNCHANGED <<pool, rxq, raw_enabled, udp_bound, tcp_connected, udp_notify, raw_rxq, raw_max, udp_enabled, udp_reply, tlsvars>>

\* Mutant: the caller's packet pointer is left set after the send.
NxeIpRawPacketSourceSendKeepsPointer(t, dst, idx) ==
  /\ Allocated(held[t])
  /\ raw_enabled /\ dst # 0
  /\ idx < MaxInterfaces /\ idx \in ValidInterfaces
  /\ tx' = Append(tx, held[t])
  /\ UNCHANGED <<held, pool, rxq, raw_enabled, udp_bound, tcp_connected,
                 udp_notify, raw_rxq, raw_max, udp_enabled, udp_reply, tlsvars>>

\* _nxe_ip_raw_packet_source_send: NX_PTR_ERROR for a NULL or not
\* allocated packet, NX_NOT_ENABLED, NX_IP_ADDRESS_ERROR for address 0,
\* NX_INVALID_INTERFACE for an index out of range or not valid (the type
\* of service and prepend/append checks pass for the packets modelled);
\* then the send, whose status is not looked at, and the caller's pointer
\* is cleared.
NxeIpRawPacketSourceSend(t, dst, idx) ==
  /\ Allocated(held[t])
  /\ raw_enabled /\ dst # 0
  /\ idx < MaxInterfaces /\ idx \in ValidInterfaces
  /\ HandOff(t)
  /\ UNCHANGED <<pool, rxq, raw_enabled, udp_bound, tcp_connected, udp_notify, raw_rxq, raw_max, udp_enabled, udp_reply, tlsvars>>

\* _nxd_ip_raw_packet_send: the source send on interface 0; it fails with
\* NX_NOT_ENABLED (the caller keeps the packet) unless raw IP is enabled.
NxdIpRawPacketSend(t) ==
  /\ held[t] # NoPacket /\ raw_enabled
  /\ HandOff(t)
  /\ UNCHANGED <<pool, rxq, raw_enabled, udp_bound, tcp_connected, udp_notify, raw_rxq, raw_max, udp_enabled, udp_reply, tlsvars>>

\* _nx_udp_socket_send: _nxd_udp_socket_send with an IPv4 address; a socket
\* that is not bound returns NX_NOT_BOUND and the caller keeps the packet.
UdpSocketSend(t) ==
  /\ held[t] # NoPacket /\ udp_bound
  /\ HandOff(t)
  /\ UNCHANGED <<pool, rxq, raw_enabled, udp_bound, tcp_connected, udp_notify, raw_rxq, raw_max, udp_enabled, udp_reply, tlsvars>>

\* _nx_udp_socket_source_send: the packet's interface is set to entry idx
\* of the IP instance's interfaces, then _nx_udp_socket_send.
UdpSocketSourceSend(t, idx) == idx < MaxInterfaces /\ UdpSocketSend(t)

\* _nx_tcp_socket_send: _nx_tcp_socket_send_internal, which queues the
\* packet only on an established connection.
TcpSocketSend(t) ==
  /\ held[t] # NoPacket /\ tcp_connected
  /\ HandOff(t)
  /\ UNCHANGED <<pool, rxq, raw_enabled, udp_bound, tcp_connected, udp_notify, raw_rxq, raw_max, udp_enabled, udp_reply, tlsvars>>

\* The driver has sent the oldest queued packet and releases it.
DriverTransmitComplete ==
  /\ tx # <<>>
  /\ pool' = pool \cup {Head(tx)}
  /\ tx' = Tail(tx)
  /\ UNCHANGED <<held, rxq, raw_enabled, udp_bound, tcp_connected, udp_notify, raw_rxq, raw_max, udp_enabled, udp_reply, tlsvars>>

-----------------------------------------------------------------------------
(* UDP receive                                                             *)

\* _nx_udp_socket_receive_notify: the callback slot is replaced under
\* TX_DISABLE.
UdpSocketReceiveNotify(f) ==
  /\ udp_notify' = f
  /\ UNCHANGED <<pool, held, tx, rxq, raw_enabled, udp_bound, tcp_connected,
                 raw_rxq, raw_max, udp_enabled, udp_reply, tlsvars>>

\* A datagram for the bound socket (not under src/): a pool buffer is
\* queued on the socket (and the receive callback, if any, called).
UdpPacketReceive ==
  /\ udp_bound
  /\ \E p \in pool :
       /\ pool' = pool \ {p}
       /\ rxq' = Append(rxq, p)
  /\ UNCHANGED <<held, tx, raw_enabled, udp_bound, tcp_connected, udp_notify, raw_rxq, raw_max, udp_enabled, udp_reply, tlsvars>>

\* nx_udp_socket_receive (not under src/): the oldest datagram.
UdpSocketReceive(t) ==
  /\ held[t] = NoPacket /\ rxq # <<>>
  /\ held' = [held EXCEPT ![t] = Head(rxq)]
  /\ rxq' = Tail(rxq)
  /\ UNCHANGED <<pool, tx, raw_enabled, udp_bound, tcp_connected, udp_notify, raw_rxq, raw_max, udp_enabled, udp_reply, tlsvars>>

\* Bind and unbind (not under src/): a socket is bound only once UDP is
\* enabled; an unbind releases the queued datagrams.
UdpSocketBind ==
  /\ udp_enabled /\ ~udp_bound /\ udp_bound' = TRUE
  /\ UNCHANGED <<pool, held, tx, rxq, raw_enabled, tcp_connected, udp_notify, raw_rxq, raw_max, udp_enabled, udp_reply, tlsvars>>

UdpSocketUnbind ==
  /\ udp_bound /\ udp_bound' = FALSE
  /\ pool' = pool \cup ToSet(rxq)
  /\ rxq' = <<>>
  /\ UNCHANGED <<held, tx, raw_enabled, tcp_connected, udp_notify, raw_rxq, raw_max, udp_enabled, udp_reply, tlsvars>>

\* The connection comes up or goes down (TCP state machine, TcpSocket).
TcpConnectionChange ==
  /\ tcp_connected' = ~tcp_connected
  /\ UNCHANGED <<pool, held, tx, rxq, raw_enabled, udp_bound, udp_notify, raw_rxq, raw_max, udp_enabled, udp_reply, tlsvars>>

\* _nx_udp_enable (not under src/): UDP packet processing is installed.
UdpEnable ==
  /\ ~udp_enabled /\ udp_enabled' = TRUE
  /\ UNCHANGED <<pool, held, tx, rxq, raw_enabled, udp_bound, tcp_connected,
                 udp_notify, raw_rxq, raw_max, udp_reply, tlsvars>>

\* _nxe_udp_info_get: NX_NOT_ENABLED unless UDP processing is installed;
\* otherwise _nx_udp_info_get copies the IP instance's UDP counters out
\* (the counters themselves are not modelled).
NxeUdpInfoGet ==
  /\ udp_reply' = IF udp_enabled THEN <<"success", 0>> ELSE <<"not_enabled", 0>>
  /\ UNCHANGED <<pool, held, tx, rxq, raw_enabled, udp_bound, tcp_connected,
                 udp_notify, raw_rxq, raw_max, udp_enabled, tlsvars>>

\* _nxe_udp_socket_info_get: NX_NOT_ENABLED unless UDP processing is
\* installed on the socket's IP instance; otherwise _nx_udp_socket_info_get
\* copies the socket's counters out, among them the datagrams queued.
NxeUdpSocketInfoGet ==
  /\ udp_reply' = IF udp_enabled THEN <<"success", Len(rxq)>> ELSE <<"not_enabled", 0>>
  /\ UNCHANGED <<pool, held, tx, rxq, raw_enabled, udp_bound, tcp_connected,
                 udp_notify, raw_rxq, raw_max, udp_enabled, tlsvars>>

\* _nx_udp_packet_info_extract on the packet thread t holds: the IPv4
\* service wraps the dual-stack one (not under src/) and, when that
\* succeeds, answers NX_INVALID_PACKET for a datagram whose source is an
\* IPv6 address (v6); the packet stays with t either way.
UdpPacketInfoExtract(t, v6) ==
  /\ held[t] # NoPacket
  /\ udp_reply' = IF v6 THEN <<"invalid_packet", 0>> ELSE <<"success", 0>>
  /\ UNCHANGED <<pool, held, tx, rxq, raw_enabled, udp_bound, tcp_connected,
                 udp_notify, raw_rxq, raw_max, udp_enabled, tlsvars>>

-----------------------------------------------------------------------------
(* TLS over the TCP socket                                                 *)

\* Session create, start (the handshake over the connected socket) and
\* delete (not under src/).
TlsSessionCreate ==
  /\ tls_session = "none" /\ tls_session' = "created"
  /\ UNCHANGED <<pool, held, tx, rxq, raw_enabled, udp_bound, tcp_connected,
                 udp_notify, raw_rxq, raw_max, udp_enabled, udp_reply, tls_reply>>

TlsSessionStart ==
  /\ tls_session = "created" /\ tcp_connected /\ tls_session' = "active"
  /\ UNCHANGED <<pool, held, tx, rxq, raw_enabled, udp_bound, tcp_connected,
                 udp_notify, raw_rxq, raw_max, udp_enabled, udp_reply, tls_reply>>

TlsSessionDelete ==
  /\ tls_session # "none" /\ tls_session' = "none"
  /\ UNCHANGED <<pool, held, tx, rxq, raw_enabled, udp_bound, tcp_connected,
                 udp_notify, raw_rxq, raw_max, udp_enabled, udp_reply, tls_reply>>

\* The status of _nxe_secure_tls_session_send for thread t's packet of
\* len bytes, in the order of its checks: NX_PTR_ERROR for a NULL packet,
\* NX_INVALID_PACKET for an empty one, NX_SECURE_TLS_SESSION_UNINITIALIZED
\* without a TCP socket or NX_SECURE_TLS_ID, NX_SECURE_TLS_RECORD_OVERFLOW
\* above the plaintext limit; then _nx_secure_tls_session_send (not under
\* src/), which fails like the TCP send on a socket that is not connected.
TlsSendStatus(t, len) ==
  CASE held[t] = NoPacket       -> "ptr_error"
    [] len = 0                  -> "invalid_packet"
    [] tls_session # "active"   -> "uninitialized"
    [] len > MaxPlaintext       -> "record_overflow"
    [] ~tcp_connected           -> "not_connected"
    [] OTHER                    -> "success"

\* The record goes out through the TCP socket only on NX_SUCCESS, and the
\* caller drops its pointer; on an error it keeps the packet.
NxeSecureTlsSessionSend(t, len) ==
  /\ tls_reply' = TlsSendStatus(t, len)
  /\ IF TlsSendStatus(t, len) = "success"
     THEN HandOff(t)
     ELSE UNCHANGED <<tx, held>>
  /\ UNCHANGED <<pool, rxq, raw_enabled, udp_bound, tcp_connected, udp_notify,
                 raw_rxq, raw_max, udp_enabled, udp_reply, tls_session>>

-----------------------------------------------------------------------------
(* Raw IP receive                                                          *)

\* _nx_ip_raw_receive_queue_max_set: the limit is replaced under the IP
\* mutex; packets already queued stay.
IpRawReceiveQueueMaxSet(m) ==
  /\ raw_max' = m
  /\ UNCHANGED <<pool, held, tx, rxq, raw_enabled, udp_bound, tcp_connected,
                 udp_notify, raw_rxq, udp_enabled, udp_reply, tlsvars>>

\* A raw IP packet arrives (_nx_ip_raw_packet_processing, not under src/):
\* queued while raw processing is enabled and the queue is below its
\* limit, released to the pool otherwise.
IpRawPacketArrive ==
  /\ raw_enabled
  /\ \E p \in pool :
       IF Len(raw_rxq) < raw_max
       THEN /\ raw_rxq' = Append(raw_rxq, p) /\ pool' = pool \ {p}
       ELSE UNCHANGED <<raw_rxq, pool>>
  /\ UNCHANGED <<held, tx, rxq, raw_enabled, udp_bound, tcp_connected,
                 udp_notify, raw_max, udp_enabled, udp_reply, tlsvars>>

\* nx_ip_raw_packet_receive (not under src/): the oldest queued packet.
IpRawPacketReceive(t) ==
  /\ held[t] = NoPacket /\ raw_rxq # <<>>
  /\ held' = [held EXCEPT ![t] = Head(raw_rxq)]
  /\ raw_rxq' = Tail(raw_rxq)
  /\ UNCHANGED <<pool, tx, rxq, raw_enabled, udp_bound, tcp_connected,
                 udp_notify, raw_max, udp_enabled, udp_reply, tlsvars>>

HandoffNext ==
  \/ \E t \in Threads :
       \/ \E type \in {0, 4} : NxePacketAllocate(t, type)
       \/ PacketRelease(t)
       \/ \E dst \in {0, 1}, idx \in 0..MaxInterfaces :
            NxeIpRawPacketSourceSend(t, dst, idx)
       \/ NxdIpRawPacketSend(t)
       \/ UdpSocketSend(t)
       \/ \E idx \in 0..MaxInterfaces : UdpSocketSourceSend(t, idx)
       \/ TcpSocketSend(t)
       \/ UdpSocketReceive(t)
       \/ IpRawPacketReceive(t)
       \/ \E len \in 0..(MaxPlaintext + 1) : NxeSecureTlsSessionSend(t, len)
  \/ DriverTransmitComplete
  \/ \E m \in RawQueueMaxes : IpRawReceiveQueueMaxSet(m)
  \/ IpRawPacketArrive
  \/ UdpEnable \/ NxeUdpInfoGet \/ NxeUdpSocketInfoGet
  \/ \E t \in Threads, v6 \in BOOLEAN : UdpPacketInfoExtract(t, v6)
  \/ \E f \in Notifiers \cup {NoNotify} : UdpSocketReceiveNotify(f)
  \/ UdpPacketReceive
  \/ UdpSocketBind \/ UdpSocketUnbind
  \/ TcpConnectionChange
  \/ TlsSessionCreate \/ TlsSessionStart \/ TlsSessionDelete

HandoffSpec == HandoffInit /\ [][HandoffNext]_pvars

-----------------------------------------------------------------------------
(* Properties                                                              *)

\* The buffers some thread holds.
HeldBuffers == {held[t] : t \in Threads} \ {NoPacket}

\* Where buffer p is referenced.
Places(p) ==
  {w \in {"pool", "held", "tx", "rx", "raw"} :
     \/ w = "pool" /\ p \in pool
     \/ w = "held" /\ p \in HeldBuffers
     \/ w = "tx" /\ p \in ToSet(tx)
     \/ w = "rx" /\ p \in ToSet(rxq)
     \/ w = "raw" /\ p \in ToSet(raw_rxq)}

\* Every buffer is referenced by exactly one owner: the pool, one thread's
\* packet pointer, one place in the driver's queue, one place in the
\* socket's receive queue or one place in the raw receive queue, whatever
\* the order in which threads allocate, send, fail to send, receive and
\* release, packets arrive and the driver completes.
ExclusiveOwnership ==
  /\ \A t, u \in Threads : t # u /\ held[t] # NoPacket => held[t] # held[u]
  /\ IsInjective(tx) /\ IsInjective(rxq) /\ IsInjective(raw_rxq)
  /\ \A p \in Buffers : Cardinality(Places(p)) = 1

====
