--------------------------- MODULE MCDNSAgentApply ---------------------------
(* DNSAgentApply on small instances.                                       *)
EXTENDS DNSAgentApply
=============================================================================
