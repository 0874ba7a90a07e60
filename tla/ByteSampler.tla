---------------------------- MODULE ByteSampler ----------------------------
(****************************************************************************)
(* Which allocations are sampled (SamplingState and SamplingBytes of        *)
(* src/state.rs): threads add the size they allocate to one shared counter  *)
(* and claim the next sampling point with a compare-and-swap, without a     *)
(* lock.  Both words have Word values: the counter wraps, the sampling      *)
(* point saturates.                                                         *)
(*                                                                          *)
(* Relaxed and acquire accesses of the two words are taken to be            *)
(* sequentially consistent.  A load may return an older sampling point; the *)
(* points only grow, so that load answers or retries as an earlier one.     *)
(****************************************************************************)
EXTENDS Integers

CONSTANTS
  Threads,  \* threads that allocate
  Configs,  \* TracerConfig: sampling_bytes, 0 if unset, and sampling_rate in %
  Sizes,    \* sizes of allocations
  Word,     \* 2^64 in the code
  MaxCalls  \* how many calls are made in all (a bound for TLC)

ASSUME SamplerAssumption ==
  /\ Word \in Nat \ {0}
  /\ Configs \subseteq [sampling_bytes : 0..Word - 1, sampling_rate : Int]
  /\ Sizes \subseteq 0..Word - 1
  /\ MaxCalls \in Nat

VARIABLES
  bytes,          \* SamplingState.bytes: its interval, 0 if there is none
  rate,           \* SamplingState.rate
  next_sample,    \* SamplingBytes.next_sample
  total_observed, \* SamplingBytes.total_observed
  pc,             \* where each thread is in should_sample
  total,          \* its local variable total
  next,           \* its local variable next
  samples,        \* history: how many calls have returned true
  observed,       \* history: the bytes counted so far, without wrapping
  overlaps,       \* history: how many calls began while another was under way
  calls           \* how many calls have been made

words == <<next_sample, total_observed>>
config == <<bytes, rate>>
history == <<observed, overlaps>>
vars == <<config, words, pc, total, next, samples, history, calls>>

LastWord == Word - 1

\* u64::saturating_add
Saturated(n) == IF n > LastWord THEN LastWord ELSE n

\* SamplingState::new: an interval of 0 is none, and an interval wins.
RateOf(c) ==
  CASE c.sampling_bytes # 0 -> "all"
    [] c.sampling_bytes = 0 /\ c.sampling_rate <= 0 -> "none"
    [] c.sampling_bytes = 0 /\ c.sampling_rate >= 100 -> "all"
    [] OTHER -> "fraction"

\* Plausible bug: the rate alone decides.
RateEnabled == rate # "all"

\* SamplingState::is_enabled: some allocations may go unsampled.
IsEnabled == bytes # 0 \/ rate # "all"

Init ==
  /\ \E c \in Configs : bytes = c.sampling_bytes /\ rate = RateOf(c)
  /\ next_sample = bytes
  /\ total_observed = 0
  /\ pc = [t \in Threads |-> "idle"]
  /\ total = [t \in Threads |-> 0]
  /\ next = [t \in Threads |-> 0]
  /\ samples = 0
  /\ observed = 0
  /\ overlaps = 0
  /\ calls = 0

Quiet == \A t \in Threads : pc[t] = "idle"

Called ==
  /\ calls < MaxCalls
  /\ calls' = calls + 1

\* Without an interval the rate decides, with dice if it must.
ByRate(t) ==
  /\ bytes = 0
  /\ pc[t] = "idle"
  /\ Called
  /\ \/ rate \in {"all", "fraction"} /\ samples' = samples + 1
     \/ rate \in {"none", "fraction"} /\ UNCHANGED samples
  /\ UNCHANGED <<config, words, pc, total, next, history>>

\* An allocation of no bytes is never sampled.
SkipEmpty(t) ==
  /\ bytes # 0
  /\ 0 \in Sizes
  /\ pc[t] = "idle"
  /\ Called
  /\ UNCHANGED <<config, words, pc, total, next, samples, history>>

\* total_observed.fetch_add(size), and the total this call has brought it to.
FetchAdd(t, size) ==
  /\ bytes # 0
  /\ size > 0
  /\ pc[t] = "idle"
  /\ Called
  /\ total_observed' = (total_observed + size) % Word
  /\ total' = [total EXCEPT ![t] = Saturated(total_observed + size)]
  /\ pc' = [pc EXCEPT ![t] = "load"]
  /\ observed' = observed + size
  /\ overlaps' = IF Quiet THEN overlaps ELSE overlaps + 1
  /\ UNCHANGED <<config, next_sample, next, samples>>

\* Plausible bug: a total that has just reached the point is not sampled.
LoadAheadOrAt(t) ==
  /\ pc[t] = "load"
  /\ total[t] <= next_sample
  /\ pc' = [pc EXCEPT ![t] = "idle"]
  /\ UNCHANGED <<config, words, total, next, samples, history, calls>>

\* The next sampling point is still ahead: not sampled.
LoadAhead(t) ==
  /\ pc[t] = "load"
  /\ total[t] < next_sample
  /\ pc' = [pc EXCEPT ![t] = "idle"]
  /\ UNCHANGED <<config, words, total, next, samples, history, calls>>

LoadReached(t) ==
  /\ pc[t] = "load"
  /\ total[t] >= next_sample
  /\ next' = [next EXCEPT ![t] = next_sample]
  /\ pc' = [pc EXCEPT ![t] = "exchange"]
  /\ UNCHANGED <<config, words, total, samples, history, calls>>

\* Plausible bug: a load and a store in place of the exchange.
ClaimBlind(t) ==
  /\ pc[t] = "exchange"
  /\ next_sample' = Saturated(next[t] + bytes)
  /\ pc' = [pc EXCEPT ![t] = "idle"]
  /\ samples' = samples + 1
  /\ UNCHANGED <<config, total_observed, total, next, history, calls>>

\* Plausible bug: the sampling point wraps, as the counter does.
ClaimWraps(t) ==
  /\ pc[t] = "exchange"
  /\ next_sample = next[t]
  /\ next_sample' = (next[t] + bytes) % Word
  /\ pc' = [pc EXCEPT ![t] = "idle"]
  /\ samples' = samples + 1
  /\ UNCHANGED <<config, total_observed, total, next, history, calls>>

\* The point is still the one that was read: it is claimed and the call is
\* sampled.
Claim(t) ==
  /\ pc[t] = "exchange"
  /\ next_sample = next[t]
  /\ next_sample' = Saturated(next[t] + bytes)
  /\ pc' = [pc EXCEPT ![t] = "idle"]
  /\ samples' = samples + 1
  /\ UNCHANGED <<config, total_observed, total, next, history, calls>>

\* Plausible bug: the exchange is tried again with the point it has returned.
RetryUntested(t) ==
  /\ pc[t] = "exchange"
  /\ next_sample # next[t]
  /\ next' = [next EXCEPT ![t] = next_sample]
  /\ UNCHANGED <<config, words, pc, total, samples, history, calls>>

\* Plausible bug: the exchange is tried again with the point read first.
RetryUnread(t) ==
  /\ pc[t] = "exchange"
  /\ next_sample # next[t]
  /\ UNCHANGED vars

\* Another thread has claimed it: read again.
Retry(t) ==
  /\ pc[t] = "exchange"
  /\ next_sample # next[t]
  /\ pc' = [pc EXCEPT ![t] = "load"]
  /\ UNCHANGED <<config, words, total, next, samples, history, calls>>

Call(t) == ByRate(t) \/ SkipEmpty(t) \/ \E size \in Sizes : FetchAdd(t, size)

Step(t) == LoadAhead(t) \/ LoadReached(t) \/ Claim(t) \/ Retry(t)

Next == \E t \in Threads : Call(t) \/ Step(t)

\* A thread that is inside should_sample is not stopped there for ever.
Fairness == \A t \in Threads : WF_vars(Step(t))

Spec == Init /\ [][Next]_vars /\ Fairness

-----------------------------------------------------------------------------
TypeOK ==
  /\ bytes \in 0..LastWord
  /\ rate \in {"all", "none", "fraction"}
  /\ next_sample \in 0..LastWord
  /\ total_observed \in 0..LastWord
  /\ pc \in [Threads -> {"idle", "load", "exchange"}]
  /\ total \in [Threads -> 0..LastWord]
  /\ next \in [Threads -> 0..LastWord]
  /\ samples \in Nat
  /\ observed \in Nat
  /\ calls \in 0..MaxCalls

\* The claimed points are exactly start, start + interval, ...: two threads
\* never claim the same point and none is skipped.
PointsOnce == bytes # 0 => next_sample = Saturated((samples + 1) * bytes)

\* Until the counter is full, no more is sampled than once per interval,
\* however the threads race.
NoOversampling == bytes # 0 /\ observed < LastWord => samples * bytes <= observed

\* Less is sampled only where calls overlap: every call that began while
\* another was under way loses at most one point, none if no allocation is
\* larger than the interval and no two calls overlap.
OnlyOverlapLoses ==
  Quiet /\ bytes # 0 /\ observed < LastWord /\ (\A size \in Sizes : size <= bytes)
    => observed < (samples + 1 + overlaps) * bytes

\* Where the counter wraps and the point saturates, at most two samples more
\* are granted than the bytes allow: no burst of them, however often it wraps.
WrapGrantsNoBurst ==
  bytes # 0 /\ 2 * bytes <= Word => samples * bytes <= observed + 2 * bytes

\* When is_enabled says no, every allocation is recorded: what state.rs takes
\* an unknown address to mean (a lost event or one that was not sampled)
\* rests on it.
AllUnlessEnabled == Quiet /\ ~IsEnabled => samples = calls

\* The loop ends for every call, though other threads keep claiming points.
EveryCallReturns == \A t \in Threads : pc[t] # "idle" ~> pc[t] = "idle"
=============================================================================
