--------------------------- MODULE MCDNSRecordOps ---------------------------
(* DNSRecordOps on small instances.                                        *)
EXTENDS DNSRecordOps
=============================================================================
