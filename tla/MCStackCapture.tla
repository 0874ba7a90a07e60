---------------------------- MODULE MCStackCapture ----------------------------
(* Instances of StackCapture for TLC.                                        *)
EXTENDS StackCapture, TLC

\* Threads, tracers, places and stacks are interchangeable.
Symmetry ==
  Permutations(Threads) \cup Permutations(Tracers) \cup Permutations(Places)
    \cup Permutations(Stacks)
=============================================================================
