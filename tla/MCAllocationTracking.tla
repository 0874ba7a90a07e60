------------------------ MODULE MCAllocationTracking ------------------------
EXTENDS AllocationTracking, TLC

\* Threads and addresses are interchangeable.
Symmetry == Permutations(Threads) \cup Permutations(Addresses)

\* Once something has disturbed the maps, no property speaks of the statistics,
\* which nothing else depends on: what the worker does is of no interest then,
\* nor is anything after a hook has freed a block itself.
Interesting ==
  /\ "reentry" \notin disturbed
  /\ disturbed # {} => batch = Nothing
=============================================================================
