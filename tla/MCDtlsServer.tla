---------------------------- MODULE MCDtlsServer ----------------------------
EXTENDS DtlsServer

CONSTANTS d1, d2, d3

\* Three local certificates, so that a remove can take the head, a middle
\* one or the tail.
MCInitialCerts == <<d1, d2, d3>>

====
