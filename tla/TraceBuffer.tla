----------------------------- MODULE TraceBuffer -----------------------------
(***************************************************************************)
(* NetX trace events in the ThreadX trace buffer.                          *)
(*                                                                         *)
(* An API call records an event on entry with _nx_trace_event_insert,      *)
(* which returns the buffer entry and its timestamp, and fills in the      *)
(* results on exit with _nx_trace_event_update, which writes only if the   *)
(* entry "is still the event originally inserted": same event id and same  *)
(* timestamp.  In between, other threads and interrupts insert events and  *)
(* the circular buffer may wrap onto the entry.                            *)
(*                                                                         *)
(* The buffer is a function from slots to records; the owner of a record   *)
(* (the call that inserted it) and the writer of its info fields are       *)
(* recorded so that a property can say whose record an update touched.     *)
(* TX_TRACE_IN_LINE_INSERT (ThreadX, not under src/) is modelled from its  *)
(* documented behaviour: when the event's filter bit is enabled it writes  *)
(* the record at _tx_trace_buffer_current_ptr and advances that pointer,   *)
(* wrapping at the end; otherwise it writes nothing.                       *)
(***************************************************************************)
EXTENDS Naturals, FiniteSets

CONSTANTS Callers,      \* threads making traced NetX calls
          EventIds,     \* NX_TRACE_* event ids
          NumSlots,     \* entries in the trace buffer
          NX_NULL,      \* a NULL event pointer
          None,         \* an empty field
          InitialEnabled, \* events recorded when tracing starts
          FilterSettings, \* event sets tx_trace_event_(un)filter may select
          CoarseClock   \* TRUE: two events may get the same time stamp

Slots == 0..(NumSlots - 1)

\* Timestamps: a coarse clock reuses a stamp already in the buffer; a fine
\* one never meets a stamp still in use (the 32-bit source does not wrap
\* within a call).
Stamps == 0..(NumSlots + Cardinality(Callers))

Record == [id : EventIds \cup {None}, ts : Stamps, owner : Callers \cup {None},
           info : Callers \cup {None}]

VARIABLES
  buf,        \* the trace buffer entries
  current,    \* _tx_trace_buffer_current_ptr (slot index)
  enabled,    \* event ids whose filter bit is enabled
  cpc,        \* caller: "idle" or "traced" (between insert and update)
  c_event,    \* caller's current_event (slot or NX_NULL)
  c_stamp,    \* caller's current_timestamp
  c_id        \* event id the caller inserted

tvars == <<buf, current, enabled, cpc, c_event, c_stamp, c_id>>

TraceTypeOK ==
  /\ buf \in [Slots -> Record]
  /\ current \in Slots
  /\ enabled \subseteq EventIds
  /\ cpc \in [Callers -> {"idle", "traced"}]
  /\ c_event \in [Callers -> Slots \cup {NX_NULL}]
  /\ c_stamp \in [Callers -> Stamps]
  /\ c_id \in [Callers -> EventIds \cup {None}]

TraceInit ==
  /\ buf = [k \in Slots |-> [id |-> None, ts |-> 0, owner |-> None, info |-> None]]
  /\ current = 0
  /\ enabled = InitialEnabled
  /\ cpc = [c \in Callers |-> "idle"]
  /\ c_event = [c \in Callers |-> NX_NULL]
  /\ c_stamp = [c \in Callers |-> 0]
  /\ c_id = [c \in Callers |-> None]

UsedStamps == {buf[k].ts : k \in Slots} \cup {c_stamp[c] : c \in Callers}

\* The stamp the time source gives the next event.
NextStamps ==
  LET fresh == CHOOSE t \in Stamps : t \notin UsedStamps
  IN  IF CoarseClock THEN {fresh} \cup {buf[k].ts : k \in Slots} ELSE {fresh}

-----------------------------------------------------------------------------
(* TX_TRACE_IN_LINE_INSERT (ThreadX, modelled from its behaviour)          *)

\* The event's filter bit enabled: the record is written at the current
\* pointer, which advances and wraps; otherwise the buffer is untouched.
InLineInsert(c, id, t) ==
  IF id \in enabled
  THEN /\ buf' = [buf EXCEPT ![current] = [id |-> id, ts |-> t, owner |-> c,
                                           info |-> None]]
       /\ current' = (current + 1) % NumSlots
  ELSE UNCHANGED <<buf, current>>

-----------------------------------------------------------------------------
(* _nx_trace_event_insert and _nx_trace_event_update                       *)

\* The entry insert hands back: the slot the current pointer named before
\* the insert, if it now holds a record with this event id ("was the event
\* inserted?"), and NX_NULL otherwise.
InsertedEvent(e, id) == IF buf'[e].id = id THEN e ELSE NX_NULL

\* _nx_trace_event_insert, all under TX_DISABLE: pick up the current
\* pointer, insert, and return the event pointer and its time stamp (0 if
\* the event pointer is NX_NULL).
TraceEventInsert(c, id) ==
  /\ cpc[c] = "idle"
  /\ \E t \in NextStamps :
       LET e == current IN
       /\ InLineInsert(c, id, t)
       /\ c_event' = [c_event EXCEPT ![c] = InsertedEvent(e, id)]
       /\ c_stamp' = [c_stamp EXCEPT ![c] =
                        IF InsertedEvent(e, id) = NX_NULL THEN 0 ELSE buf'[e].ts]
  /\ c_id' = [c_id EXCEPT ![c] = id]
  /\ cpc' = [cpc EXCEPT ![c] = "traced"]
  /\ UNCHANGED enabled

\* Mutant: only the event id is compared.
StillInsertedNoStamp(c) ==
  /\ c_event[c] # NX_NULL
  /\ buf[c_event[c]].id = c_id[c]

\* "The event exists and is still the event originally inserted": the
\* pointer is not NX_NULL and the entry still has the event id and the
\* time stamp insert returned.
StillInserted(c) ==
  /\ c_event[c] # NX_NULL
  /\ buf[c_event[c]].id = c_id[c]
  /\ buf[c_event[c]].ts = c_stamp[c]

\* _nx_trace_event_update under TX_DISABLE: if the entry is still the one
\* inserted, each nonzero info field is written (here: whether any is
\* nonzero, and the writer recorded); otherwise nothing.  The call then
\* returns and its current_event and current_timestamp locals are gone.
TraceEventUpdate(c) ==
  /\ cpc[c] = "traced"
  /\ \E nonzero \in BOOLEAN :
       buf' = IF StillInserted(c) /\ nonzero
              THEN [buf EXCEPT ![c_event[c]].info = c]
              ELSE buf
  /\ cpc' = [cpc EXCEPT ![c] = "idle"]
  /\ c_event' = [c_event EXCEPT ![c] = NX_NULL]
  /\ c_stamp' = [c_stamp EXCEPT ![c] = 0]
  /\ c_id' = [c_id EXCEPT ![c] = None]
  /\ UNCHANGED <<current, enabled>>

\* tx_trace_event_filter / tx_trace_event_unfilter (ThreadX): the
\* application changes which events are recorded.
TraceEventFilter(ids) ==
  /\ enabled # ids
  /\ enabled' = ids
  /\ UNCHANGED <<buf, current, cpc, c_event, c_stamp, c_id>>

TraceNext ==
  \/ \E c \in Callers :
       \/ \E id \in EventIds : TraceEventInsert(c, id)
       \/ TraceEventUpdate(c)
  \/ \E ids \in FilterSettings : TraceEventFilter(ids)

TraceSpec == TraceInit /\ [][TraceNext]_tvars

-----------------------------------------------------------------------------
(* Properties                                                              *)

\* The results a call writes with _nx_trace_event_update land in the record
\* that same call inserted, never in another call's record that has since
\* taken its place in the buffer: the id-and-timestamp test of update (and
\* the id test of insert) identify the record.
UpdateHitsOwnEvent ==
  \A k \in Slots : buf[k].info \in {None, buf[k].owner}

====
