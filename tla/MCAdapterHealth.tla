--------------------------- MODULE MCAdapterHealth ---------------------------
(***************************************************************************)
(* Model checking of AdapterHealth.                                        *)
(***************************************************************************)
EXTENDS AdapterHealth
=============================================================================
