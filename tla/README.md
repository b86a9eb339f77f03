# TLA+ models of NetX Duo

These TLA+ modules model the concurrent and stateful parts of the NetX Duo
sources under `src/`, and TLC checks them. Each definition is translated from
the C code. `PROJECT.json` maps every definition to the source lines it models
and lists the runs, the mutants that show each property can fail, the
findings and the hazards. Definitions that stand for code outside `src/` (the
ThreadX kernel, internals the `src/` wrappers forward to) are modelled from
`spec.md` and are marked `spec_modelled` in the map.

## The system and its actors

NetX Duo is an embedded TCP/IP stack on ThreadX. Three kinds of actor touch
its shared state:

* **Application threads** call the `nx_*`, `nxd_*` and `nx_secure_*` API. Most
  calls take the IP instance's mutex (`nx_ip_protection`) or the TLS
  protection mutex. A few touch shared fields only under
  `TX_DISABLE`/`TX_RESTORE`, and some read a field before they take the
  mutex.
* **The IP helper thread** processes received packets (echo replies, the
  deferred ARP/RARP queues) and the periodic and driver-deferred events.
  While it walks the ping waiter list with interrupts enabled, it keeps
  other threads out with preempt-disable.
* **Interrupts and the ThreadX timer.** Drivers enqueue packets from ISRs, and
  the periodic timer and the deferred-processing entry set event flags.
  Thread timeouts run suspension-cleanup hooks such as `_nx_icmp_cleanup`. In
  the default build they run in the timer thread; in
  `TX_TIMER_PROCESS_IN_ISR` builds they run in the timer ISR.

## Modules

One module per component. An `MC*` module fixes constants for TLC and, where
it composes several components, adds a `phase` variable. `phase` is chosen in
Init and selects the component whose actions run. Every component's Init is
deterministic, so the state space is the sum of the parts, not their product.
Each composite has a combined type invariant:

| composite | components | type invariant |
|---|---|---|
| `MCSecure` | TlsSession, DtlsServer, Md5, Rsa, HmacSha1, SelfTest | `SecureTypeOK` |
| `MCIpHelper` | IpHelper, PacketHandoff | `NetTypeOK` |
| `MCIpInstance` | TcpSocket, Igmp, Ipv4Interface, TraceBuffer, Ipv6Nd | `IpTypeOK` |

The modules, by component:

* **IcmpPing / PingService**: the ping waiter list
  (`nx_icmp_cleanup.c`, `nx_icmpv6_process_echo_reply.c`).
  * State: the circular doubly-linked suspension list and its ULONG count,
    each thread's cleanup hook, sequence number, status and packet slot, and
    the helper's locals and program counter.
  * The echo handler is split into its real steps:
    * `ReplyArrive`: the snapshot taken under `TX_DISABLE`.
    * `EchoScan`: one `while (suspended--)` iteration.
    * `EchoMatchUnlink`: the unlink.
    * `EchoResume`: the resume.
  * Timeouts and terminations run `_nx_icmp_cleanup`.
  * `PingService` is the abstract promise: FIFO first match among waiters
    for the same sequence number, and exactly one exit per wait.
    `IcmpPing` refines it.
* **ArpCache**: `_nx_arp_static_entry_create`.
  * It promotes a dynamic entry or takes one from the dynamic list.
  * It works against resolution, replies, retries, give-ups and aging,
    which are modelled from the spec. Hash buckets share entries, and
    packets wait on entries.
* **TcpSocket**: the created-socket list and the guards of
  `nx_tcp_socket_delete.c`, the notify setters and the receive queue limit.
  The list is the code's circular list: a head pointer, per-socket next
  and previous links, and a separate count. Delete splices the socket out
  by hand, as in lines 113-150.
  Create, bind (with waiting), unbind and connect are modelled from the spec.
* **IpHelper / DeferredFifo**: the RARP deferred queue.
  * ISR appends race the helper's `_nx_rarp_queue_process` drain, step by
    step.
  * The periodic timer and driver-deferred event flags are produced against
    the helper's event wait.
  * The queue refines the abstract FIFO `DeferredFifo`.
* **PacketHandoff**: ownership of packet buffers.
  * Two threads pass buffers between the pool, the UDP, raw and TCP send
    services, the driver, the UDP and raw receive queues and their own
    hands.
  * TLS sessions over the TCP socket: create, start and delete, and
    `nxe_secure_tls_session_send` with its checks in the code's order. Only
    a send that returns success hands the packet off; on any error the
    caller keeps it.
  * Also modelled: the receive-notify setter, the raw receive queue limit,
    the checked UDP info gets (`NX_NOT_ENABLED` before `nx_udp_enable`), and
    `nx_udp_packet_info_extract` (`NX_INVALID_PACKET` for an IPv6 source).
* **TraceBuffer**: `_nx_trace_event_insert` and `_nx_trace_event_update`
  over a wrapping circular buffer. The update finds its record again by
  pointer and timestamp. When the update returns, the caller's
  `current_event` and `current_timestamp` locals are gone, so the model
  resets them.
* **Ipv6Nd**: the per-interface ND purge, address change notify,
  autoconfiguration disable and multicast leave, with their `nxde_`
  wrappers. The ND cache, addresses, routers and interface detach are
  modelled from the spec.
* **Igmp**: the multicast join table and the driver filters.
  * Translated: join and leave on interface 0, and the checked info get.
  * Modelled from the spec: the join and leave internals.
* **Ipv4Interface**: interface address and mask, the address-change
  callback, the static route table, ICMP enable, and the reading services.
* **TlsSession**: the TLS 1.2 and 1.3 Finished check with the release of
  the peer's certificates, the remote certificate buffers, the certificate
  and callback setters, session create and delete, and shutdown. The last
  Finished received is kept as its verify data (expected or not) and its
  `message_length`.
* **DtlsServer**: local certificate removal, which is shared by all
  sessions and called by concurrent threads. The sessions share the
  certificate structures, and each session's store has only its own head
  pointer. Also: start, stop and delete, the notify and version setters,
  and ECC initialisation.
* **DnsName**: `_nx_secure_x509_dns_name_initialize`.
* **Md5, Rsa, HmacSha1, SelfTest**: the crypto methods.
  * Md5: bit-count carry, partial-block buffer and padding.
  * Rsa: Montgomery and CRT paths.
  * HmacSha1: dispatch and truncation.
  * SelfTest: the PKCS#1 known-answer and RNG self tests.
  * Each is checked against a reference definition (RFC 1321, x^e mod n,
    RFC 2104) over bounded inputs. HMAC-SHA1 and the RNG test are checked
    only for their type: the RFC 2104 comparison held by construction of
    the spec-modelled HMAC routines, and the RNG test's verdict is its
    loop bound.

A reading service's result is modelled as the value it writes to the
caller's variables (`reply`, `info_result`, `udp_reply`).

## Runs

| run | cfg | expect | what it shows |
|---|---|---|---|
| `icmp_ping` | `MCIcmpPing.cfg` | pass | Timer-thread build: the waiter list stays consistent, every ping has one outcome and completes, and the list refines `PingService`. |
| `icmp_ping_timer_isr` | `MCIcmpPingISR.cfg` | violation | Timer-ISR build: a timeout between the handler's match and its unlink makes it unlink the thread twice. |
| `arp_cache` | `MCArpCache.cfg` | pass | The lists and counters stay consistent and addresses unique. Packets are never lost or doubly owned, static entries are never evicted, and every waiting packet leaves. |
| `ip_instance` | `MCIpInstance.cfg` | pass | The circular created list keeps its head, links and count exact, and no deleted socket stays bound, binding or connected. Every trace update lands in its own record. The ND purge leaves no reference to a detached interface. The IGMP and IPv4 parts are checked only for their type invariant. |
| `ip_helper` | `MCIpHelper.cfg` | pass | The RARP queue is a well-formed FIFO, refines `DeferredFifo` and is drained. Driver requests are served. Each packet buffer has exactly one owner. |
| `trace_filter_drop` | `MCTraceFilter.cfg` | violation | When the trace filter drops an event, the insert returns the oldest record if that record has the same id, and the update then overwrites another call's record. |
| `tls13_finished_generator_failure` | `MCTlsSession13.cfg` | violation | In TLS 1.3, a failing Finished hash generator lets any Finished complete the handshake. |
| `secure_and_crypto` | `MCSecure.cfg` | pass | TLS 1.2 finishes only on the right verify data, after the peer's ChangeCipherSpec and credentials, and frees the peer's certificates. With one remover thread, every DTLS session shares session 0's list and none reaches a removed certificate. MD5 and RSA compute what their RFCs say. The PKCS#1 self test passes only correct methods whose cleanup succeeds. |
| `tls13_finished_length` | `MCTlsFinishedLength.cfg` | violation | A TLS 1.3 Finished longer than the hash, with the expected verify data at its start, completes the handshake. |
| `dtls_cert_remove_race` | `MCDtlsServerRace.cfg` | violation | Two concurrent removers leave a session pointing at a removed certificate. |
| `dns_name_overflow` | `MCDnsName.cfg` | violation | A long DNS name is copied past the end of the buffer. |
| `rsa_output_overflow` | `MCRsaOutput.cfg` | violation | A short exponent lets an output buffer smaller than the modulus pass the size check. |

The seven violation runs are the findings in `PROJECT.json`:

* two spec/code divergences:
  * the ICMP double unlink,
  * the TLS 1.3 Finished length (`nx_secure_tls_process_finished.c:106`).
    The code's comment says "Make sure the length is what we expect", and
    RFC 8446 fixes the length, but only a message shorter than the hash is
    rejected;
* five code bugs:
  * the trace insert of a filtered event (`nx_trace_event_insert.c:107`),
  * TLS 1.3 Finished,
  * the DTLS removal race,
  * the DNS name copy,
  * the RSA output check.

Every property of a passing run has a mutant in `PROJECT.json`. The mutant
is a plausible bug in a mapped definition (a dropped guard, a missing reset,
a wrong order), and TLC finds the property violated under the run's own cfg.

## Bounds

Each cfg explains its bounds in a comment. In outline:

* **Ping.** Two threads and two sequence numbers give head and tail unlinks,
  and a reply that matches one waiter and skips another. `UlongMod = 256`
  stands in for 2^32; only the wrap below zero matters.
* **ARP.** Three entries in two buckets, a one-packet queue and one retry
  reach eviction, promotion over waiting packets and give-up.
* **Sockets.** Three sockets and two ports reach a bind that waits for a
  port another socket holds.
* **Multicast.** Two groups on two interfaces in a two-entry table make the
  table fill.
* **Routes.** A one-entry route table makes an add overflow.
* **Packets.** Three RARP packets let the ISR append during a drain. Two
  buffers and two threads reach every hand-off. Raw queue limits of 0 and 1
  reach both a drop and a queued packet. `MaxPlaintext = 1` with sends of
  length 0 to 2 reaches every TLS send error and a successful send.
* **Trace.** A two-entry trace buffer with three callers wraps between a
  call's insert and its update. The filter run (two callers, one event id)
  lets the application filter the id out after it was recorded, so a
  dropped event meets an oldest record with the same id.
* **Composites.** `MCIpInstance` has about 1.9 million states and takes
  about three minutes on two workers. The stale links a deleted socket
  keeps account for much of that. `MCSecure` has about 0.4 million states
  and takes about a minute and a half. Symmetry over sockets or callers
  made both slower, so neither cfg uses it.
* **IPv6.** A two-entry ND cache with two interfaces reaches eviction and a
  detached interface's entry in the last slot.
* **TLS.** One TLS session with up to two peer certificates. A second
  session multiplies the states and adds no new case. Finished messages
  are one unit shorter than, as long as, and one unit longer than the
  hash, which reaches every length branch of both versions.
* **DTLS.** Three DTLS sessions and three certificates reach removal of the
  head, the middle and the last certificate.
* **Crypto.** Widths are scaled down:
  * MD5 uses an 8-bit ULONG and 16-byte blocks, which keeps the carry and
    the padding boundary reachable;
  * RSA uses toy keys whose digits are base-4 bytes.

## Fairness

* **IcmpPing.**
  * The helper's handler steps are weakly fair: once started, it runs to
    the end with preemption disabled.
  * `PingReturn` and `Timeout` are strongly fair. They are enabled only
    while the helper is idle, and ThreadX eventually schedules a ready
    thread and fires an expired timer.
  * Replies are not fair, because they may be lost.
* **ArpCache.** Retry and give-up are weakly fair: the periodic ARP timer
  runs them.
* **IpHelper.** The helper's step is weakly fair: it is the highest-priority
  NetX thread and waits only on its event flags.
* **Other runs.** No fairness: application calls need not happen, and those
  runs check safety only.

## Not modelled

* The TCP state machine, segment transmission and the record layer and
  handshake of TLS/DTLS. Their code is not under `src/` apart from thin
  forwarders.
* The compression rounds of MD5 and SHA-1, and the big-number library. They
  are modelled by what they compute.
* IGMP reports, queries and timers, and interface names, MTUs and physical
  addresses.
* Services that only read and change no state and have no caller output
  worth a property: TLS `alert_value_get` and `local_certificate_find`, and
  `nx_trace_object_register`, which only forwards to ThreadX.
* Code under `src/` that is not part of the stack is listed in
  `PROJECT.json` as not modelled:
  * the Azure IoT ADU sample;
  * the TAHI test data;
  * the Cortex-M3 port header.
* Error-checking forwarders whose internal is not under `src/`:
  `nxe_secure_dtls_client_session_start` (a pointer check and the
  `NX_SECURE_TLS_SESSION_UNINITIALIZED` check, then
  `_nx_secure_dtls_client_session_start`, which does the whole client
  handshake) and `nxe_secure_dtls_server_trusted_certificate_add`, which only
  checks pointers before handing the certificate to the X.509 store. A model
  of either would model the internal from the specification alone and add no
  translated control.
* Headers, constant tables and the `#else` branches of build options that
  only return `NX_NOT_SUPPORTED`.
* `nxe_packet_data_extract_offset`, `nxe_packet_data_retrieve` and
  `nx_secure_dtls_server_session_send`. The first two check pointers and
  copy packet bytes out to the caller, changing no state. The third passes
  the packet to `_nx_secure_dtls_session_send`, which is not under `src/`.
* Properties of parts whose state is changed only by code that is not
  under `src/`. The IGMP entry table, the ND cache's packet queues and
  duplicate lookup, the IPv6 multicast filter and router solicitation, the
  HMAC routines and the X.509 list unlink are modelled so that the
  translated wrappers around them can run. A property about that state
  would check the model's own definitions, not the code, so none is
  stated. The IGMP and IPv4 parts of `ip_instance` are checked for their
  type invariant and for reaching every operation.

### Hazards without a property

Nine entries of the hazard list have no property:

* `nx_trace_event_update.c:89`: the identity test relies on time stamps.
  With `CoarseClock = TRUE` TLC finds a same-id record overwritten after a
  buffer wrap in five steps. Whether a stamp can repeat depends on the port's
  `TX_TRACE_TIME_SOURCE`, which is outside this repository, so the passing
  run assumes it does not.
* `nx_secure_tls_server_certificate_add.c:84`: the identifier is written
  before the store's add runs, so a failing add still changes it. The store's
  duplicate handling is not under `src/`, and nothing states what its
  identifiers must be.
* `nx_secure_tls_shutdown.c:73` (liveness): the loop ends only if every
  `_nx_secure_tls_session_delete` of the head unlinks it. That function is
  not under `src/`; the model's delete always unlinks, so termination would
  only restate that assumption.
* `nx_ip_driver_deferred_processing.c:84` (liveness): `DriverRequestServed`
  assumes the helper returns to its event wait infinitely often. That
  excludes the RARP flood that would starve a driver request.
* `nx_secure_dtls_server_local_certificate_remove.c:106`: the unlink that
  every session's list runs through is `_nx_secure_x509_certificate_list_remove`,
  which is not under `src/`.
* `nx_secure_tls_remote_certificate_free_all.c:101` and
  `nxe_ip_raw_packet_source_send.c:152`: the failure each guards against
  comes from a function not under `src/`. The model has that function
  always succeed (the certificate free) or always take the packet (the
  send internal).
* `nxd_ipv6_stateless_address_autoconfig_disable.c:106`: the periodic
  solicitation that reads the count, and the enable that restarts it, are
  not under `src/`.
* `nx_igmp_multicast_leave.c:79`: the leave always names interface 0; what
  the entry table does with a group stranded on another interface is
  decided by the leave internal, which is not under `src/`.
