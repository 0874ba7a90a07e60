-------------------------- MODULE MCShimLifecycle --------------------------
(* start(), stop() and the hooks on a few threads.                         *)
EXTENDS ShimLifecycle
=============================================================================
