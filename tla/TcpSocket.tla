----------------------------- MODULE TcpSocket -----------------------------
(***************************************************************************)
(* TCP socket lifetime in one IP instance: the created-socket list, port   *)
(* binding (including a bind that waits for a port in use), the state      *)
(* that decides whether a socket may be deleted, and the per-socket        *)
(* notify slots and receive queue limit.                                   *)
(*                                                                         *)
(* _nx_tcp_socket_delete and the setters are translated from the source.  *)
(* Socket create, bind/unbind and connect/disconnect are not under src/    *)
(* and are modelled from the spec: they are what makes a socket bound,     *)
(* binding or not CLOSED when delete is called.  Every call holds the IP   *)
(* mutex (or only interrupt lockout, for the setter that takes no mutex)   *)
(* and is one atomic step; a bind that must wait for its port releases the *)
(* mutex and leaves nx_tcp_socket_bind_in_progress set until the port is   *)
(* handed over or the wait times out.                                      *)
(***************************************************************************)
EXTENDS Naturals, Sequences, SequencesExt, FiniteSets

CONSTANTS Sockets,      \* NX_TCP_SOCKET control blocks of the application
          Ports,        \* TCP port numbers
          Callbacks,    \* application notify functions
          QueueMaxes,   \* values passed to receive_queue_max_set
          DefaultMax,   \* NX_TCP_SOCKET_DEFAULT_RECEIVE_QUEUE_MAXIMUM
          NULL          \* NX_NULL

ASSUME DefaultMax \in QueueMaxes

VARIABLES
  created_ptr,    \* nx_ip_tcp_created_sockets_ptr: head of the circular list
  created_next,   \* socket -> nx_tcp_socket_created_next
  created_previous, \* socket -> nx_tcp_socket_created_previous
  created_count,  \* nx_ip_tcp_created_sockets_count
  socket_id,      \* socket -> nx_tcp_socket_id = NX_TCP_ID
  state,          \* socket -> nx_tcp_socket_state (CLOSED or connected)
  bound_port,     \* socket -> port it is bound to, NULL if not bound
  bind_wait,      \* socket -> port a suspended bind waits for, or NULL
  disconnect_complete_notify,   \* nx_tcp_disconnect_complete_notify
  window_update_notify,         \* nx_tcp_socket_window_update_notify
  receive_queue_maximum         \* nx_tcp_socket_receive_queue_maximum

vars == <<created_ptr, created_next, created_previous, created_count, socket_id, state, bound_port,
          bind_wait, disconnect_complete_notify, window_update_notify,
          receive_queue_maximum>>

States == {"CLOSED", "ESTABLISHED"}

TypeOK ==
  /\ created_ptr \in Sockets \cup {NULL}
  /\ created_next \in [Sockets -> Sockets \cup {NULL}]
  /\ created_previous \in [Sockets -> Sockets \cup {NULL}]
  /\ created_count \in 0..Cardinality(Sockets)
  /\ socket_id \in [Sockets -> BOOLEAN]
  /\ state \in [Sockets -> States]
  /\ bound_port \in [Sockets -> Ports \cup {NULL}]
  /\ bind_wait \in [Sockets -> Ports \cup {NULL}]
  /\ disconnect_complete_notify \in [Sockets -> Callbacks \cup {NULL}]
  /\ window_update_notify \in [Sockets -> Callbacks \cup {NULL}]
  /\ receive_queue_maximum \in [Sockets -> QueueMaxes]

Init ==
  /\ created_ptr = NULL
  /\ created_next = [s \in Sockets |-> NULL]
  /\ created_previous = [s \in Sockets |-> NULL]
  /\ created_count = 0
  /\ socket_id = [s \in Sockets |-> FALSE]
  /\ state = [s \in Sockets |-> "CLOSED"]
  /\ bound_port = [s \in Sockets |-> NULL]
  /\ bind_wait = [s \in Sockets |-> NULL]
  /\ disconnect_complete_notify = [s \in Sockets |-> NULL]
  /\ window_update_notify = [s \in Sockets |-> NULL]
  /\ receive_queue_maximum = [s \in Sockets |-> DefaultMax]

\* The port is owned by some socket.
PortInUse(p) == \E s \in Sockets : bound_port[s] = p

-----------------------------------------------------------------------------
(* Operations modelled from the spec (section 4.2).                        *)

\* nx_tcp_socket_create: the control block is cleared, given its id and
\* linked at the end of the circular created list (before the head).
Create(s) ==
  /\ ~socket_id[s]
  /\ socket_id' = [socket_id EXCEPT ![s] = TRUE]
  /\ IF created_ptr = NULL
     THEN /\ created_ptr' = s
          /\ created_next' = [created_next EXCEPT ![s] = s]
          /\ created_previous' = [created_previous EXCEPT ![s] = s]
     ELSE LET head == created_ptr
              tail == created_previous[created_ptr]
          IN  /\ created_next' = [created_next EXCEPT ![tail] = s, ![s] = head]
              /\ created_previous' = [created_previous EXCEPT ![head] = s, ![s] = tail]
              /\ UNCHANGED created_ptr
  /\ created_count' = created_count + 1
  /\ state' = [state EXCEPT ![s] = "CLOSED"]
  /\ disconnect_complete_notify' = [disconnect_complete_notify EXCEPT ![s] = NULL]
  /\ window_update_notify' = [window_update_notify EXCEPT ![s] = NULL]
  /\ receive_queue_maximum' = [receive_queue_maximum EXCEPT ![s] = DefaultMax]
  /\ UNCHANGED <<bound_port, bind_wait>>

\* nx_tcp_client_socket_bind: a free port is taken at once; a port in use
\* suspends the caller with bind in progress.
Bind(s, p) ==
  /\ socket_id[s] /\ state[s] = "CLOSED"
  /\ bound_port[s] = NULL /\ bind_wait[s] = NULL
  /\ IF PortInUse(p)
     THEN /\ bind_wait' = [bind_wait EXCEPT ![s] = p]
          /\ UNCHANGED bound_port
     ELSE /\ bound_port' = [bound_port EXCEPT ![s] = p]
          /\ UNCHANGED bind_wait
  /\ UNCHANGED <<created_ptr, created_next, created_previous, created_count, socket_id, state,
                 disconnect_complete_notify, window_update_notify,
                 receive_queue_maximum>>

\* The wait option of a suspended bind expires: NX_PORT_UNAVAILABLE.
BindTimeout(s) ==
  /\ bind_wait[s] # NULL
  /\ bind_wait' = [bind_wait EXCEPT ![s] = NULL]
  /\ UNCHANGED <<created_ptr, created_next, created_previous, created_count, socket_id, state, bound_port,
                 disconnect_complete_notify, window_update_notify,
                 receive_queue_maximum>>

\* nx_tcp_client_socket_unbind of a closed socket: the port is released
\* and handed to a socket whose bind waits for it, if there is one.
Unbind(s) ==
  /\ bound_port[s] # NULL /\ state[s] = "CLOSED"
  /\ LET p == bound_port[s]
         waiters == {w \in Sockets : bind_wait[w] = p}
     IN  IF waiters = {}
         THEN /\ bound_port' = [bound_port EXCEPT ![s] = NULL]
              /\ UNCHANGED bind_wait
         ELSE \E w \in waiters :
                /\ bound_port' = [bound_port EXCEPT ![s] = NULL, ![w] = p]
                /\ bind_wait' = [bind_wait EXCEPT ![w] = NULL]
  /\ UNCHANGED <<created_ptr, created_next, created_previous, created_count, socket_id, state,
                 disconnect_complete_notify, window_update_notify,
                 receive_queue_maximum>>

\* A bound socket connects, and later disconnects back to CLOSED.
Connect(s) ==
  /\ bound_port[s] # NULL /\ state[s] = "CLOSED"
  /\ state' = [state EXCEPT ![s] = "ESTABLISHED"]
  /\ UNCHANGED <<created_ptr, created_next, created_previous, created_count, socket_id, bound_port, bind_wait,
                 disconnect_complete_notify, window_update_notify,
                 receive_queue_maximum>>

Disconnect(s) ==
  /\ state[s] = "ESTABLISHED"
  /\ state' = [state EXCEPT ![s] = "CLOSED"]
  /\ UNCHANGED <<created_ptr, created_next, created_previous, created_count, socket_id, bound_port, bind_wait,
                 disconnect_complete_notify, window_update_notify,
                 receive_queue_maximum>>

-----------------------------------------------------------------------------
(* _nx_tcp_socket_delete                                                   *)

\* Mutant: the bind-in-progress check is left out.
StillBoundNoBindCheck(s) ==
  bound_port[s] # NULL \/ state[s] # "CLOSED"

\* The NX_STILL_BOUND test: bound to a port, waiting in a bind, or not
\* CLOSED.
StillBound(s) ==
  \/ bound_port[s] # NULL
  \/ bind_wait[s] # NULL
  \/ state[s] # "CLOSED"

\* The neighbours of s are linked to each other; the head moves on if it
\* was s (head_moves FALSE is the mutant that forgets to).
Splice(s, head_moves) ==
  /\ created_previous' = [created_previous EXCEPT ![created_next[s]] = created_previous[s]]
  /\ created_next' = [created_next EXCEPT ![created_previous[s]] = created_next[s]]
  /\ created_ptr' = IF head_moves /\ created_ptr = s THEN created_next[s] ELSE created_ptr

\* Mutant: the created-sockets count is not decremented.
UnlinkCreatedNoCount(s) ==
  /\ IF s = created_next[s]
     THEN created_ptr' = NULL /\ UNCHANGED <<created_next, created_previous>>
     ELSE Splice(s, TRUE)
  /\ UNCHANGED created_count

\* Mutant: the head pointer is not moved when the head is deleted.
UnlinkCreatedKeepsHead(s) ==
  /\ IF s = created_next[s]
     THEN created_ptr' = NULL /\ UNCHANGED <<created_next, created_previous>>
     ELSE Splice(s, FALSE)
  /\ created_count' = created_count - 1

\* Under TX_DISABLE: the only socket empties the list; otherwise the
\* neighbours are linked up and the head moves on if it was s.  The count
\* drops either way.  The socket's own links are left as they were.
UnlinkCreated(s) ==
  /\ IF s = created_next[s]
     THEN created_ptr' = NULL /\ UNCHANGED <<created_next, created_previous>>
     ELSE Splice(s, TRUE)
  /\ created_count' = created_count - 1

\* Delete: NX_NOT_CREATED and NX_STILL_BOUND return with nothing changed;
\* otherwise the id is cleared and the socket unlinked.
Delete(s) ==
  /\ socket_id[s]
  /\ ~StillBound(s)
  /\ socket_id' = [socket_id EXCEPT ![s] = FALSE]
  /\ UnlinkCreated(s)
  /\ UNCHANGED <<state, bound_port, bind_wait, disconnect_complete_notify,
                 window_update_notify, receive_queue_maximum>>

-----------------------------------------------------------------------------
(* The setters: one slot each, written under TX_DISABLE (and the IP mutex, *)
(* except for the disconnect-complete notify).  None checks the socket id; *)
(* that is left to the error-checking shim.                                *)

DisconnectCompleteNotify(s, cb) ==
  /\ disconnect_complete_notify' = [disconnect_complete_notify EXCEPT ![s] = cb]
  /\ UNCHANGED <<created_ptr, created_next, created_previous, created_count, socket_id, state, bound_port,
                 bind_wait, window_update_notify, receive_queue_maximum>>

WindowUpdateNotifySet(s, cb) ==
  /\ window_update_notify' = [window_update_notify EXCEPT ![s] = cb]
  /\ UNCHANGED <<created_ptr, created_next, created_previous, created_count, socket_id, state, bound_port,
                 bind_wait, disconnect_complete_notify, receive_queue_maximum>>

ReceiveQueueMaxSet(s, n) ==
  /\ receive_queue_maximum' = [receive_queue_maximum EXCEPT ![s] = n]
  /\ UNCHANGED <<created_ptr, created_next, created_previous, created_count, socket_id, state, bound_port,
                 bind_wait, disconnect_complete_notify, window_update_notify>>

Next ==
  \/ \E s \in Sockets :
       \/ Create(s) \/ BindTimeout(s) \/ Unbind(s) \/ Connect(s)
       \/ Disconnect(s) \/ Delete(s)
       \/ \E p \in Ports : Bind(s, p)
       \/ \E cb \in Callbacks \cup {NULL} :
            DisconnectCompleteNotify(s, cb) \/ WindowUpdateNotifySet(s, cb)
       \/ \E n \in QueueMaxes : ReceiveQueueMaxSet(s, n)

Spec == Init /\ [][Next]_vars

-----------------------------------------------------------------------------
(* Properties                                                              *)

\* The sockets met walking created_count links from the head.
RECURSIVE CreatedWalk(_, _)
CreatedWalk(h, n) ==
  IF n = 0 \/ h = NULL THEN <<>>
  ELSE <<h>> \o CreatedWalk(created_next[h], n - 1)

\* Walking nx_ip_tcp_created_sockets_count links from the head visits each
\* created socket once and nothing else, the last links back to the head,
\* and every back link undoes its forward link, over any order of creates
\* and deletes (of the head, the tail or a middle socket).  Violated by a
\* splice in _nx_tcp_socket_delete that leaves the head on a deleted
\* socket or a neighbour's link on it, or by a lost count decrement.
CreatedListConsistent ==
  LET L == CreatedWalk(created_ptr, created_count)
  IN  /\ (created_ptr = NULL) <=> (created_count = 0)
      /\ Len(L) = created_count
      /\ IsInjective(L)
      /\ ToSet(L) = {s \in Sockets : socket_id[s]}
      /\ L # <<>> => created_next[L[Len(L)]] = created_ptr
      /\ \A i \in 1..Len(L) :
           created_next[L[i]] \in Sockets /\ created_previous[created_next[L[i]]] = L[i]

\* A deleted socket is unreachable from the stack: it owns no port, no
\* bind waits on its behalf (a later unbind would hand it a port) and it
\* is CLOSED.  This is what the NX_STILL_BOUND test of delete protects.
NoDanglingSocket ==
  \A s \in Sockets :
    ~socket_id[s] => /\ bound_port[s] = NULL
                     /\ bind_wait[s] = NULL
                     /\ state[s] = "CLOSED"

====
