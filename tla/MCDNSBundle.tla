----------------------------- MODULE MCDNSBundle -----------------------------
(* DNSBundle on small instances.                                           *)
EXTENDS DNSBundle
=============================================================================
