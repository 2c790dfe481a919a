------------------------ MODULE MCAgentlessDispatch ------------------------
(* AgentlessDispatch on small instances.                                   *)
EXTENDS AgentlessDispatch
=============================================================================
