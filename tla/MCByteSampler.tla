--------------------------- MODULE MCByteSampler ---------------------------
(* The sampler on a small word.                                            *)
EXTENDS ByteSampler

\* Intervals below and above the sizes, a rate that an interval overrides, and
\* the three kinds of rate.
SmallConfigs ==
  {[sampling_bytes |-> b, sampling_rate |-> 0] : b \in {0, 3, 5}}
    \cup {[sampling_bytes |-> 0, sampling_rate |-> r] : r \in {50, 100}}
=============================================================================
