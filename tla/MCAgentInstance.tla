--------------------------- MODULE MCAgentInstance ---------------------------
(* AgentInstance on small instances.                                       *)
EXTENDS AgentInstance
=============================================================================
