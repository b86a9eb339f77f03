\* The trace buffer of the passing run, with an application that may also
\* filter out every event (tx_trace_event_filter) after some have been
\* recorded: two callers, one event id, two entries.
CONSTANTS
  Callers = {c1, c2}
  EventIds = {ev1}
  NumSlots = 2
  NX_NULL = NX_NULL
  None = None
  InitialEnabled = {ev1}
  FilterSettings = {{ev1}, {}}
  CoarseClock = FALSE

SPECIFICATION TraceSpec

INVARIANT UpdateHitsOwnEvent
