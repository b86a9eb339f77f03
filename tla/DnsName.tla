------------------------------- MODULE DnsName -------------------------------
(***************************************************************************)
(* _nx_secure_x509_dns_name_initialize: copy a DNS name of the caller's    *)
(* length into the fixed buffer nx_secure_x509_dns_name of                 *)
(* NX_SECURE_X509_DNS_NAME_MAX bytes and record its length.  The buffer    *)
(* is the DNS name a TLS client later compares against the server's       *)
(* certificate.                                                            *)
(*                                                                         *)
(* The structure is application memory: its length field holds whatever  *)
(* it held before (an earlier name, or nothing initialized), so the        *)
(* initial length is any value of the field's range.                       *)
(***************************************************************************)
EXTENDS Naturals

CONSTANTS DnsNameMax,   \* NX_SECURE_X509_DNS_NAME_MAX
          Lengths       \* name lengths a caller may pass (USHORT)

VARIABLES
  dns_name_length,  \* nx_secure_x509_dns_name_length
  copied            \* bytes the last memcpy wrote from the buffer's start

vars == <<dns_name_length, copied>>

TypeOK ==
  /\ dns_name_length \in Lengths \cup (0..DnsNameMax)
  /\ copied \in Lengths \cup {0}

Init ==
  /\ dns_name_length \in Lengths \cup (0..DnsNameMax)
  /\ copied = 0

\* "Make sure we don't copy over the end of the buffer": the length field
\* already stored is clamped to DNS_NAME_MAX; then memcpy copies length
\* bytes (the argument, unclamped) and length is stored, overwriting the
\* clamped field.
DnsNameInitialize(length) ==
  /\ copied' = length
  /\ dns_name_length' = length

Next == \E length \in Lengths : DnsNameInitialize(length)

Spec == Init /\ [][Next]_vars

\* The copy into nx_secure_x509_dns_name never runs past the buffer's
\* NX_SECURE_X509_DNS_NAME_MAX bytes, which is what the clamp before the
\* memcpy is there for.
CopyWithinBuffer == copied <= DnsNameMax

====
