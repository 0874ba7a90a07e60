-------------------------- MODULE MCTracerLifecycle --------------------------
(* Instances of TracerLifecycle for TLC: handles are model values.           *)
EXTENDS TracerLifecycle
=============================================================================
