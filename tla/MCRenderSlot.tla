---------------------------- MODULE MCRenderSlot ----------------------------
(* RenderSlot on small instances.                                          *)
EXTENDS RenderSlot
=============================================================================
