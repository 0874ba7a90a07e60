------------------------- MODULE ByteSamplerProofs -------------------------
(****************************************************************************)
(* What the byte sampler grants, for every interval, word, set of sizes and *)
(* number of threads.                                                       *)
(****************************************************************************)
EXTENDS ByteSampler, FiniteSetTheorems, TLAPS

-----------------------------------------------------------------------------
(* Types.                                                                   *)

LEMMA SaturatedType == \A n \in Nat : Saturated(n) \in 0..LastWord /\ Saturated(n) <= n
BY SamplerAssumption DEF Saturated, LastWord

LEMMA RemainderType == \A n \in Nat : n % Word \in 0..LastWord
BY SamplerAssumption DEF LastWord

LEMMA InitTypeOK == Init => TypeOK
<1> SUFFICES ASSUME Init PROVE TypeOK
  OBVIOUS
<1>1. PICK c \in Configs : bytes = c.sampling_bytes /\ rate = RateOf(c)
  BY DEF Init
<1>2. c.sampling_bytes \in 0..LastWord /\ c.sampling_rate \in Int
  BY SamplerAssumption DEF LastWord
<1>3. rate \in {"all", "none", "fraction"}
  BY <1>1, <1>2, SamplerAssumption DEF RateOf, LastWord
<1> QED
  BY <1>1, <1>2, <1>3, SamplerAssumption DEF Init, TypeOK, LastWord

LEMMA TypeStep == TypeOK /\ [Next]_vars => TypeOK'
<1> SUFFICES ASSUME TypeOK, [Next]_vars PROVE TypeOK'
  OBVIOUS
<1> USE DEF TypeOK, config, words, history, Called
<1>1. /\ Word \in Nat \ {0} /\ Sizes \subseteq 0..LastWord /\ LastWord \in Nat
      /\ MaxCalls \in Nat
  BY SamplerAssumption DEF LastWord
<1>2. ASSUME NEW t \in Threads, ByRate(t) \/ SkipEmpty(t) PROVE TypeOK'
  BY <1>1, <1>2 DEF ByRate, SkipEmpty
<1>3. ASSUME NEW t \in Threads, NEW size \in Sizes, FetchAdd(t, size) PROVE TypeOK'
  <2>1. size \in Nat /\ total_observed + size \in Nat
    BY <1>1
  <2>2. total_observed' \in 0..LastWord /\ Saturated(total_observed + size) \in 0..LastWord
    BY <1>3, <2>1, SaturatedType, RemainderType DEF FetchAdd
  <2> QED
    BY <1>1, <1>3, <2>1, <2>2 DEF FetchAdd
<1>4. ASSUME NEW t \in Threads, LoadAhead(t) \/ LoadReached(t) \/ Retry(t) PROVE TypeOK'
  BY <1>4 DEF LoadAhead, LoadReached, Retry
<1>5. ASSUME NEW t \in Threads, Claim(t) PROVE TypeOK'
  <2>1. next[t] + bytes \in Nat
    BY <1>1
  <2>2. next_sample' \in 0..LastWord
    BY <1>5, <2>1, SaturatedType DEF Claim
  <2> QED
    BY <1>1, <1>5, <2>2 DEF Claim
<1>6. CASE UNCHANGED vars
  BY <1>6 DEF vars
<1> QED
  BY <1>2, <1>3, <1>4, <1>5, <1>6 DEF Next, Call, Step

\* Every word keeps its width: the counter wraps, the sampling point and the
\* totals saturate (SamplingBytes::should_sample).
THEOREM SamplerTypeOKAlways == Spec => []TypeOK
BY InitTypeOK, TypeStep, PTL DEF Spec

-----------------------------------------------------------------------------
(* The sampling points.                                                     *)

LEMMA SaturatedTwice ==
  ASSUME NEW m \in Nat, NEW n \in Nat
  PROVE  Saturated(Saturated(m) + n) = Saturated(m + n)
BY SamplerAssumption DEF Saturated, LastWord

LEMMA NextMultiple ==
  ASSUME NEW m \in Nat, NEW n \in Nat
  PROVE  (m + 1) * n = m * n + n /\ m * n \in Nat
OBVIOUS

LEMMA PointsOnceStep == TypeOK /\ PointsOnce /\ [Next]_vars => PointsOnce'
<1> SUFFICES ASSUME TypeOK, PointsOnce, [Next]_vars PROVE PointsOnce'
  OBVIOUS
<1>1. ASSUME NEW t \in Threads, Claim(t) PROVE PointsOnce'
  <2>1. bytes \in Nat /\ samples \in Nat
    BY SamplerAssumption DEF TypeOK, LastWord
  <2> DEFINE point == (samples + 1) * bytes
  <2>2. samples' = samples + 1 /\ bytes' = bytes
    BY <1>1 DEF Claim, config
  <2>3. (samples' + 1) * bytes' = point + bytes /\ point \in Nat
    BY <2>1, <2>2, NextMultiple
  <2>4. bytes # 0 => next_sample' = Saturated(Saturated(point) + bytes)
    BY <1>1 DEF Claim, PointsOnce
  <2> HIDE DEF point
  <2>5. bytes # 0 => next_sample' = Saturated(point + bytes)
    BY <2>1, <2>3, <2>4, SaturatedTwice
  <2> QED
    BY <2>2, <2>3, <2>5 DEF PointsOnce
<1>2. ASSUME UNCHANGED <<bytes, next_sample, samples>> PROVE PointsOnce'
  BY <1>2 DEF PointsOnce, Saturated, LastWord
<1>3. ASSUME NEW t \in Threads, ByRate(t) PROVE PointsOnce'
  BY <1>3 DEF ByRate, config, PointsOnce
<1>4. ASSUME NEW t \in Threads,
             \/ SkipEmpty(t) \/ (\E size \in Sizes : FetchAdd(t, size))
             \/ LoadAhead(t) \/ LoadReached(t) \/ Retry(t)
      PROVE  UNCHANGED <<bytes, next_sample, samples>>
  BY <1>4 DEF SkipEmpty, FetchAdd, LoadAhead, LoadReached, Retry, config, words, history
<1>5. CASE UNCHANGED vars
  BY <1>2, <1>5 DEF vars, config, words
<1> QED
  BY <1>1, <1>2, <1>3, <1>4, <1>5 DEF Next, Call, Step

LEMMA InitPointsOnce == Init => PointsOnce
<1> SUFFICES ASSUME Init, bytes # 0 PROVE next_sample = Saturated((samples + 1) * bytes)
  BY DEF PointsOnce
<1>1. bytes \in 0..LastWord /\ LastWord \in Nat
  BY InitTypeOK, SamplerAssumption DEF TypeOK, LastWord
<1>2. next_sample = bytes /\ samples = 0
  BY DEF Init
<1>3. (samples + 1) * bytes = bytes
  BY <1>1, <1>2
<1> QED
  BY <1>1, <1>2, <1>3 DEF Saturated

\* No race of the compare-and-swap lets two threads have one sampling point,
\* or skips one.
THEOREM PointsOnceAlways == Spec => []PointsOnce
BY InitTypeOK, TypeStep, InitPointsOnce, PointsOnceStep, PTL DEF Spec

-----------------------------------------------------------------------------
(* Bytes and samples, until the counter is full.                            *)

\* The counter has not wrapped, and a thread has seen no more than it counts;
\* one at its exchange had reached the point it is about to claim.
Counted ==
  bytes # 0 /\ observed < LastWord =>
    /\ total_observed = observed
    /\ \A t \in Threads :
         /\ pc[t] # "idle" => total[t] <= observed
         /\ pc[t] = "exchange" => next[t] <= total[t]

LEMMA InitCounted == Init => Counted
BY DEF Init, Counted

LEMMA CountedStep == TypeOK /\ Counted /\ [Next]_vars => Counted'
<1> SUFFICES ASSUME TypeOK, Counted, [Next]_vars, bytes' # 0, observed' < LastWord
             PROVE  /\ total_observed' = observed'
                    /\ \A t \in Threads :
                         /\ pc'[t] # "idle" => total'[t] <= observed'
                         /\ pc'[t] = "exchange" => next'[t] <= total'[t]
  BY DEF Counted, LastWord
<1> USE DEF config, words, history
<1>1. /\ Word \in Nat \ {0} /\ LastWord = Word - 1 /\ Sizes \subseteq 0..LastWord
      /\ observed \in Nat /\ total \in [Threads -> 0..LastWord]
      /\ next \in [Threads -> 0..LastWord]
      /\ pc \in [Threads -> {"idle", "load", "exchange"}]
  BY SamplerAssumption DEF TypeOK, LastWord
<1>2. ASSUME NEW t \in Threads, ByRate(t) \/ SkipEmpty(t)
      PROVE  UNCHANGED <<bytes, total_observed, observed, pc, total, next>>
  BY <1>2 DEF ByRate, SkipEmpty
<1>3. ASSUME NEW t \in Threads, NEW size \in Sizes, FetchAdd(t, size)
      PROVE  /\ total_observed' = observed'
             /\ \A u \in Threads :
                  /\ pc'[u] # "idle" => total'[u] <= observed'
                  /\ pc'[u] = "exchange" => next'[u] <= total'[u]
  <2>1. bytes # 0 /\ observed' = observed + size /\ size \in Nat /\ observed < LastWord
    BY <1>1, <1>3 DEF FetchAdd
  <2>2. total_observed = observed
    BY <2>1 DEF Counted
  <2>3. total_observed' = observed + size /\ Saturated(total_observed + size) = observed + size
    BY <1>1, <1>3, <2>1, <2>2 DEF FetchAdd, Saturated
  <2> QED
    BY <1>1, <1>3, <2>1, <2>3 DEF FetchAdd, Counted
<1>4. ASSUME NEW t \in Threads, LoadAhead(t) \/ LoadReached(t) \/ Claim(t) \/ Retry(t)
      PROVE  /\ total_observed' = observed'
             /\ \A u \in Threads :
                  /\ pc'[u] # "idle" => total'[u] <= observed'
                  /\ pc'[u] = "exchange" => next'[u] <= total'[u]
  BY <1>1, <1>4 DEF LoadAhead, LoadReached, Claim, Retry, Counted, TypeOK
<1>5. CASE UNCHANGED <<bytes, total_observed, observed, pc, total, next>>
  BY <1>5 DEF Counted
<1>6. UNCHANGED vars => UNCHANGED <<bytes, total_observed, observed, pc, total, next>>
  BY DEF vars
<1> QED
  BY <1>2, <1>3, <1>4, <1>5, <1>6 DEF Next, Call, Step

\* What a thread that claims a point has seen.
LEMMA ClaimReached ==
  ASSUME TypeOK, PointsOnce, Counted, bytes # 0, observed < LastWord,
         NEW t \in Threads, Claim(t)
  PROVE  (samples + 1) * bytes <= observed
<1>1. /\ observed \in Nat /\ LastWord \in Nat /\ samples \in Nat /\ bytes \in Nat
      /\ total[t] \in Nat /\ next[t] \in Nat
  BY SamplerAssumption DEF TypeOK, LastWord
<1>2. next_sample <= observed
  BY <1>1 DEF Claim, Counted
<1>3. (samples + 1) * bytes \in Nat
  BY <1>1, NextMultiple
<1> QED
  BY <1>1, <1>2, <1>3 DEF PointsOnce, Saturated

LEMMA NoOversamplingStep ==
  TypeOK /\ PointsOnce /\ Counted /\ NoOversampling /\ [Next]_vars => NoOversampling'
<1> SUFFICES ASSUME TypeOK, PointsOnce, Counted, NoOversampling, [Next]_vars,
                    bytes' # 0, observed' < LastWord
             PROVE  samples' * bytes' <= observed'
  BY DEF NoOversampling, LastWord
<1> USE DEF config, words, history
<1>1. observed \in Nat /\ LastWord \in Nat /\ samples * bytes \in Nat /\ Sizes \subseteq Nat
  BY SamplerAssumption, NextMultiple DEF TypeOK, LastWord
<1>2. ASSUME NEW t \in Threads, ByRate(t) PROVE bytes' = 0
  BY <1>2 DEF ByRate
<1>3. ASSUME NEW t \in Threads, NEW size \in Sizes, FetchAdd(t, size)
      PROVE  samples' * bytes' <= observed'
  <2>1. bytes' = bytes /\ samples' = samples /\ observed' = observed + size /\ observed < LastWord
    BY <1>1, <1>3 DEF FetchAdd
  <2>2. samples * bytes <= observed
    BY <2>1 DEF NoOversampling
  <2> QED
    BY <1>1, <2>1, <2>2
<1>4. ASSUME NEW t \in Threads, Claim(t) PROVE samples' * bytes' <= observed'
  BY <1>4, ClaimReached DEF Claim
<1>5. ASSUME NEW t \in Threads, SkipEmpty(t) \/ LoadAhead(t) \/ LoadReached(t) \/ Retry(t)
      PROVE  UNCHANGED <<bytes, samples, observed>>
  BY <1>5 DEF SkipEmpty, LoadAhead, LoadReached, Retry
<1>6. CASE UNCHANGED <<bytes, samples, observed>>
  BY <1>6 DEF NoOversampling
<1>7. UNCHANGED vars => UNCHANGED <<bytes, samples, observed>>
  BY DEF vars
<1> QED
  BY <1>2, <1>3, <1>4, <1>5, <1>6, <1>7 DEF Next, Call, Step

LEMMA Inductive == Spec => [](TypeOK /\ PointsOnce /\ Counted)
BY InitTypeOK, TypeStep, InitPointsOnce, PointsOnceStep, InitCounted, CountedStep, PTL DEF Spec

\* Until the counter is full, an interval is sampled at most once per interval
\* of bytes, whatever race the threads run for the points.
THEOREM NoOversamplingAlways == Spec => []NoOversampling
<1>1. Init => NoOversampling
  BY InitTypeOK, SamplerAssumption DEF Init, TypeOK, NoOversampling, LastWord
<1> QED
  BY <1>1, Inductive, NoOversamplingStep, PTL DEF Spec

-----------------------------------------------------------------------------
(* What is lost where calls overlap.                                        *)

SmallSizes == \A size \in Sizes : size <= bytes

\* The bytes for which a sample has been granted or a loss accounted for.
Granted == (samples + 1 + overlaps) * bytes

\* Either the bytes are accounted for, or the thread that counted last has
\* still to look at its total, and will be sampled or is below the next point.
Pending ==
  bytes # 0 /\ observed < LastWord /\ SmallSizes =>
    \/ observed < Granted
    \/ /\ observed < Granted + bytes
       /\ \E t \in Threads : pc[t] # "idle" /\ total[t] = observed

LEMMA InitPending == Init => Pending /\ overlaps \in Nat
<1> SUFFICES ASSUME Init, bytes # 0 PROVE observed < Granted
  BY DEF Init, Pending
<1>1. bytes \in Nat
  BY InitTypeOK, SamplerAssumption DEF TypeOK, LastWord
<1>2. Granted = bytes /\ observed = 0
  BY <1>1 DEF Init, Granted
<1> QED
  BY <1>1, <1>2

LEMMA OverlapsStep == overlaps \in Nat /\ [Next]_vars => overlaps' \in Nat
BY DEF Next, Call, Step, ByRate, SkipEmpty, FetchAdd, LoadAhead, LoadReached, Claim, Retry,
       vars, history

LEMMA PendingStep ==
  TypeOK /\ PointsOnce /\ Counted /\ Pending /\ overlaps \in Nat /\ [Next]_vars => Pending'
<1> SUFFICES ASSUME TypeOK, PointsOnce, Counted, Pending, overlaps \in Nat, [Next]_vars,
                    bytes' # 0, observed' < LastWord, SmallSizes'
             PROVE  \/ observed' < Granted'
                    \/ /\ observed' < Granted' + bytes'
                       /\ \E t \in Threads : pc'[t] # "idle" /\ total'[t] = observed'
  BY DEF Pending, LastWord
<1> DEFINE Accounted == \/ observed' < Granted'
                        \/ /\ observed' < Granted' + bytes'
                           /\ \E t \in Threads : pc'[t] # "idle" /\ total'[t] = observed'
<1> USE DEF config, words, history
<1>1. /\ observed \in Nat /\ LastWord \in Nat /\ samples \in Nat /\ bytes \in Nat
      /\ total \in [Threads -> 0..LastWord] /\ Sizes \subseteq 0..LastWord
      /\ pc \in [Threads -> {"idle", "load", "exchange"}]
  BY SamplerAssumption DEF TypeOK, LastWord
<1>2. /\ (samples + 1 + overlaps) * bytes \in Nat /\ (samples + 1) * bytes \in Nat
      /\ (samples + 1) * bytes <= (samples + 1 + overlaps) * bytes
      /\ (samples + 1 + 1 + overlaps) * bytes = (samples + 1 + overlaps) * bytes + bytes
      /\ (samples + 1 + (overlaps + 1)) * bytes = (samples + 1 + overlaps) * bytes + bytes
  <2> DEFINE m == samples + 1
  <2>1. m \in Nat
    BY <1>1
  <2> HIDE DEF m
  <2>2. m * bytes \in Nat /\ overlaps * bytes \in Nat
    BY <1>1, <2>1, NextMultiple
  <2>3. (m + overlaps) * bytes = m * bytes + overlaps * bytes
    BY <1>1, <2>1
  <2>4. (m + overlaps + 1) * bytes = (m + overlaps) * bytes + bytes
    BY <1>1, <2>1, NextMultiple
  <2>5. m + 1 + overlaps = m + overlaps + 1 /\ m + (overlaps + 1) = m + overlaps + 1
    BY <2>1
  <2>6. /\ (m + overlaps) * bytes \in Nat /\ m * bytes <= (m + overlaps) * bytes
    BY <1>1, <2>2, <2>3
  <2> QED
    BY <2>2, <2>4, <2>5, <2>6 DEF m
<1>3. ASSUME NEW t \in Threads, ByRate(t) \/ SkipEmpty(t) \/ LoadReached(t) \/ Retry(t)
      PROVE  /\ UNCHANGED <<observed, overlaps, bytes, total>>
             /\ \/ bytes' = 0
                \/ samples' = samples
             /\ \A u \in Threads : pc[u] # "idle" => pc'[u] # "idle"
  BY <1>1, <1>3 DEF ByRate, SkipEmpty, LoadReached, Retry
<1>4. ASSUME UNCHANGED <<observed, overlaps, bytes, total, samples>>,
             \A u \in Threads : pc[u] # "idle" => pc'[u] # "idle"
      PROVE  Accounted
  BY <1>4 DEF Pending, SmallSizes, Granted
<1>5. ASSUME NEW t \in Threads, NEW size \in Sizes, FetchAdd(t, size) PROVE Accounted
  <2>1. /\ bytes # 0 /\ bytes' = bytes /\ observed' = observed + size /\ samples' = samples
        /\ size \in Nat /\ size <= bytes
        /\ observed < LastWord
    BY <1>1, <1>5 DEF FetchAdd, SmallSizes
  <2>2. pc'[t] # "idle" /\ total'[t] = observed'
    <3>1. total_observed = observed
      BY <2>1 DEF Counted
    <3> QED
      BY <1>1, <1>5, <2>1, <3>1 DEF FetchAdd, Saturated
  <2>3. SmallSizes
    BY <2>1 DEF SmallSizes
  <2>4. CASE Quiet
    <3>1. observed < Granted
      BY <2>1, <2>3, <2>4 DEF Pending, Quiet
    <3>2. Granted' = Granted
      BY <1>5, <2>1, <2>4 DEF FetchAdd, Granted
    <3>3. observed' < Granted' + bytes'
      BY <1>1, <1>2, <2>1, <3>1, <3>2 DEF Granted
    <3> QED
      BY <2>2, <3>3
  <2>5. CASE ~Quiet
    <3>1. observed < Granted + bytes
      BY <1>1, <1>2, <2>1, <2>3 DEF Pending, Granted
    <3>2. Granted' = Granted + bytes
      BY <1>2, <1>5, <2>1, <2>5 DEF FetchAdd, Granted
    <3>3. observed' < Granted' + bytes'
      BY <1>1, <1>2, <2>1, <3>1, <3>2 DEF Granted
    <3> QED
      BY <2>2, <3>3
  <2> QED
    BY <2>4, <2>5
<1>6. ASSUME NEW t \in Threads, LoadAhead(t) PROVE Accounted
  <2>1. /\ UNCHANGED <<observed, overlaps, bytes, total, samples>>
        /\ \A u \in Threads \ {t} : pc'[u] = pc[u]
        /\ total[t] < next_sample
    BY <1>1, <1>6 DEF LoadAhead
  <2>2. Granted' = Granted
    BY <2>1 DEF Granted
  <2>3. CASE total[t] = observed
    <3>1. next_sample <= (samples + 1) * bytes
      BY <1>2, <2>1, SaturatedType DEF PointsOnce
    <3>2. next_sample \in Nat
      BY SamplerAssumption DEF TypeOK, LastWord
    <3>3. observed < Granted
      BY <1>1, <1>2, <2>1, <2>3, <3>1, <3>2 DEF Granted
    <3> QED
      BY <2>1, <2>2, <3>3
  <2>4. CASE total[t] # observed
    BY <2>1, <2>2, <2>4 DEF Pending, SmallSizes
  <2> QED
    BY <2>3, <2>4
<1>7. ASSUME NEW t \in Threads, Claim(t) PROVE Accounted
  <2>1. UNCHANGED <<observed, overlaps, bytes>> /\ samples' = samples + 1
    BY <1>7 DEF Claim
  <2>2. Granted' = Granted + bytes
    BY <1>2, <2>1 DEF Granted
  <2>3. observed < Granted + bytes
    BY <1>1, <1>2, <2>1 DEF Pending, SmallSizes, Granted
  <2> QED
    BY <2>1, <2>2, <2>3
<1>8. UNCHANGED vars => UNCHANGED <<observed, overlaps, bytes, total, samples, pc>>
  BY DEF vars
<1> QED
  BY <1>3, <1>4, <1>5, <1>6, <1>7, <1>8 DEF Next, Call, Step

\* Calls that do not overlap lose no sample, and each that does loses at most
\* one: a thread is not sampled only for a point that another has claimed.
THEOREM OnlyOverlapLosesAlways == Spec => []OnlyOverlapLoses
<1>1. Pending => OnlyOverlapLoses
  BY DEF Pending, OnlyOverlapLoses, Quiet, SmallSizes, Granted
<1>2. Init => Pending /\ overlaps \in Nat
  BY InitPending
<1>3. /\ TypeOK /\ PointsOnce /\ Counted /\ Pending /\ overlaps \in Nat /\ [Next]_vars
      => (Pending /\ overlaps \in Nat)'
  BY PendingStep, OverlapsStep
<1> QED
  BY <1>1, <1>2, <1>3, Inductive, PTL DEF Spec

-----------------------------------------------------------------------------
(* Bytes and samples, however often the counter wraps.                      *)

\* The threads that have seen the counter fill the word, and may claim the
\* sampling point once it is stuck at the last word.
Full == {t \in Threads : pc[t] # "idle" /\ total[t] = LastWord}

\* How many calls can have seen that in n rounds of the counter: one that
\* reached the last word exactly and one that wrapped the counter, in each.
Fills(n) == 2 * n + (IF total_observed = LastWord THEN 1 ELSE 0)

\* The counter has gone round n times; k samples were granted for points below
\* the last word, which needs as many bytes, and the others and those that may
\* still come to one for each call that saw the word full.
Granting(n, k) ==
  /\ observed = n * Word + total_observed
  /\ k * bytes <= observed
  /\ k * bytes <= LastWord
  /\ samples - k + Cardinality(Full) <= Fills(n)

Rounds ==
  bytes # 0 =>
    /\ \A t \in Threads : pc[t] # "idle" => total[t] <= observed
    /\ \A t \in Threads : pc[t] = "exchange" => next[t] <= total[t]
    /\ IsFiniteSet(Full)
    /\ \E n \in 0..observed, k \in 0..samples : Granting(n, k)

LEMMA Multiples ==
  ASSUME NEW m \in Nat, NEW n \in Nat, NEW k \in Nat, m <= n
  PROVE  m * k \in Nat /\ n * k \in Nat /\ m * k <= n * k
<1>1. PICK d \in Nat : n = m + d
  <2>1. n - m \in Nat /\ n = m + (n - m)
    OBVIOUS
  <2> QED
    BY <2>1
<1>2. (m + d) * k = m * k + d * k /\ m * k \in Nat /\ d * k \in Nat
  BY <1>1, NextMultiple
<1> QED
  BY <1>1, <1>2

\* A counter below the word and a size below it make at most one round.
LEMMA Rounding ==
  ASSUME NEW n \in Nat, n < 2 * Word
  PROVE  n % Word = IF n < Word THEN n ELSE n - Word
<1>1. Word \in Nat \ {0}
  BY SamplerAssumption
<1>2. CASE n < Word
  BY <1>1, <1>2
<1>3. CASE n >= Word
  <2>1. n - Word \in Nat /\ n - Word < Word
    BY <1>1, <1>3
  <2>2. n = 1 * Word + (n - Word)
    BY <1>1
  <2> QED
    BY <1>1, <1>3, <2>1, <2>2
<1> QED
  BY <1>1, <1>2, <1>3

LEMMA InitRounds == Init => Rounds
<1> SUFFICES ASSUME Init PROVE Rounds
  OBVIOUS
<1>1. Full = {}
  BY DEF Init, Full
<1>2. IsFiniteSet(Full) /\ Cardinality(Full) = 0
  BY <1>1, FS_EmptySet
<1>3. bytes \in Nat /\ LastWord \in Nat /\ Word \in Nat
  BY InitTypeOK, SamplerAssumption DEF TypeOK, LastWord
<1>4. Granting(0, 0)
  BY <1>2, <1>3 DEF Init, Granting, Fills
<1>5. observed = 0 /\ samples = 0
  BY DEF Init
<1> QED
  BY <1>2, <1>4, <1>5 DEF Init, Rounds

\* A call that counts its bytes: it may fill the word or wrap the counter.
LEMMA FetchAddRounds ==
  ASSUME TypeOK, Rounds, NEW t \in Threads, NEW size \in Sizes, FetchAdd(t, size)
  PROVE  Rounds'
<1>1. /\ Word \in Nat \ {0} /\ LastWord = Word - 1 /\ size \in 1 .. Word - 1
      /\ bytes # 0 /\ bytes' = bytes /\ samples' = samples
      /\ total_observed \in 0 .. Word - 1 /\ observed \in Nat /\ samples \in Nat
      /\ observed' = observed + size /\ bytes \in Nat
      /\ total_observed' = (total_observed + size) % Word
      /\ LastWord' = LastWord
  BY SamplerAssumption DEF FetchAdd, TypeOK, LastWord, config
<1>2. total_observed' = IF total_observed + size < Word THEN total_observed + size
                        ELSE total_observed + size - Word
  BY <1>1, Rounding
<1> DEFINE sum == Saturated(total_observed + size)
<1>3. /\ sum <= observed' /\ sum \in Nat
      /\ sum = LastWord <=> total_observed + size >= LastWord
  <2>1. PICK n \in 0..observed, k \in 0..samples : Granting(n, k)
    BY <1>1 DEF Rounds
  <2>2. n * Word \in Nat
    BY <1>1, <2>1, NextMultiple
  <2>3. total_observed <= observed
    BY <1>1, <2>1, <2>2 DEF Granting
  <2> QED
    BY <1>1, <2>3 DEF Saturated
<1>4. /\ pc[t] = "idle" /\ pc \in [Threads -> {"idle", "load", "exchange"}]
      /\ pc' = [pc EXCEPT ![t] = "load"] /\ next' = next
      /\ total \in [Threads -> 0 .. LastWord] /\ total' = [total EXCEPT ![t] = sum]
  BY <1>1 DEF FetchAdd, TypeOK
<1> HIDE DEF sum
<1>5. /\ \A u \in Threads : pc'[u] # "idle" => total'[u] <= observed'
      /\ \A u \in Threads : pc'[u] = "exchange" => next'[u] <= total'[u]
  BY <1>1, <1>3, <1>4 DEF Rounds
<1>6. Full' = (IF sum = LastWord THEN Full \cup {t} ELSE Full) /\ t \notin Full
  BY <1>1, <1>4 DEF Full
<1>7. /\ IsFiniteSet(Full) /\ IsFiniteSet(Full') /\ Cardinality(Full) \in Nat
      /\ Cardinality(Full') = Cardinality(Full) + (IF sum = LastWord THEN 1 ELSE 0)
  BY <1>1, <1>6, FS_AddElement, FS_CardinalityType DEF Rounds
<1>8. PICK n \in 0..observed, k \in 0..samples : Granting(n, k)
  BY <1>1 DEF Rounds
<1>9. /\ n \in Nat /\ k \in Nat /\ k * bytes \in Nat
      /\ (n + 1) * Word = n * Word + Word /\ n * Word \in Nat
  BY <1>1, <1>8, NextMultiple
<1>10. \E m \in 0..observed' : Granting(m, k)'
  <2>1. CASE total_observed + size < Word
    <3>1. observed' = n * Word + total_observed'
      BY <1>1, <1>2, <1>8, <1>9, <2>1 DEF Granting
    <3>2. Cardinality(Full') - Cardinality(Full) <= Fills(n)' - Fills(n)
      BY <1>1, <1>2, <1>3, <1>7, <1>8, <2>1 DEF Fills
    <3>3. Fills(n) \in Int /\ Fills(n)' \in Int
      BY <1>8 DEF Fills
    <3>4. Granting(n, k)'
      BY <1>1, <1>7, <1>8, <1>9, <3>1, <3>2, <3>3 DEF Granting
    <3> QED
      BY <1>1, <1>8, <3>4
  <2>2. CASE total_observed + size >= Word
    <3>1. observed' = (n + 1) * Word + total_observed'
      BY <1>1, <1>2, <1>8, <1>9, <2>2 DEF Granting
    <3>2. Cardinality(Full') - Cardinality(Full) <= Fills(n + 1)' - Fills(n)
      BY <1>1, <1>2, <1>3, <1>7, <1>8, <2>2 DEF Fills
    <3>3. Fills(n) \in Int /\ Fills(n + 1)' \in Int
      BY <1>8 DEF Fills
    <3>4. Granting(n + 1, k)'
      BY <1>1, <1>7, <1>8, <1>9, <3>1, <3>2, <3>3 DEF Granting
    <3> QED
      BY <1>1, <1>8, <3>4
  <2> QED
    BY <1>1, <2>1, <2>2
<1> QED
  BY <1>1, <1>5, <1>7, <1>8, <1>10 DEF Rounds

\* A claim: below the last word it takes as many bytes as were counted, at the
\* last word it uses up a call that saw the word full.
LEMMA ClaimRounds ==
  ASSUME TypeOK, PointsOnce, Rounds, bytes # 0, NEW t \in Threads, Claim(t)
  PROVE  Rounds'
<1>1. /\ Word \in Nat \ {0} /\ LastWord = Word - 1 /\ LastWord \in Nat
      /\ bytes' = bytes /\ bytes \in Nat /\ samples' = samples + 1 /\ samples \in Nat
      /\ observed' = observed /\ observed \in Nat /\ total_observed' = total_observed
      /\ LastWord' = LastWord
  BY SamplerAssumption DEF Claim, TypeOK, LastWord, config, history
<1>2. /\ pc[t] = "exchange" /\ pc \in [Threads -> {"idle", "load", "exchange"}]
      /\ pc' = [pc EXCEPT ![t] = "idle"] /\ next' = next /\ total' = total
      /\ total \in [Threads -> 0 .. LastWord]
      /\ next[t] = next_sample /\ next_sample \in Nat
  BY <1>1 DEF Claim, TypeOK
<1>3. /\ \A u \in Threads : pc'[u] # "idle" => total'[u] <= observed'
      /\ \A u \in Threads : pc'[u] = "exchange" => next'[u] <= total'[u]
  BY <1>1, <1>2 DEF Rounds
<1>4. Full' = Full \ {t} /\ (t \in Full <=> total[t] = LastWord)
  BY <1>1, <1>2 DEF Full
<1>5. /\ IsFiniteSet(Full) /\ IsFiniteSet(Full') /\ Cardinality(Full) \in Nat
      /\ Cardinality(Full') = Cardinality(Full) - (IF total[t] = LastWord THEN 1 ELSE 0)
  BY <1>4, FS_RemoveElement, FS_CardinalityType DEF Rounds
<1>6. PICK n \in 0..observed, k \in 0..samples : Granting(n, k)
  BY DEF Rounds
<1>7. Fills(n)' = Fills(n) /\ Fills(n) \in Int
  BY <1>1, <1>6 DEF Fills
<1>8. CASE total[t] = LastWord
  <2>1. Granting(n, k)'
    BY <1>1, <1>5, <1>6, <1>7, <1>8 DEF Granting
  <2> QED
    BY <1>1, <1>3, <1>5, <1>6, <2>1 DEF Rounds
<1>9. CASE total[t] # LastWord
  <2>1. total[t] < LastWord /\ total[t] <= observed /\ next_sample <= total[t]
    BY <1>1, <1>2, <1>9 DEF Rounds
  <2>2. (samples + 1) * bytes \in Nat
    BY <1>1, NextMultiple
  <2>3. (samples + 1) * bytes = next_sample
    BY <1>1, <1>2, <2>1, <2>2 DEF PointsOnce, Saturated
  <2>4. PICK q \in Nat : q = samples + 1
    BY <1>1
  <2>5. samples' - q + Cardinality(Full') <= Fills(n)'
    BY <1>1, <1>5, <1>6, <1>7, <1>9, <2>4 DEF Granting
  <2>6. observed' = n * Word + total_observed'
    BY <1>1, <1>6 DEF Granting
  <2>7. q * bytes' <= observed' /\ q * bytes' <= LastWord'
    <3>1. next_sample <= observed /\ next_sample <= LastWord
      BY <1>1, <1>2, <2>1
    <3> QED
      BY <1>1, <2>3, <2>4, <3>1
  <2>8. Granting(n, q)'
    BY <2>5, <2>6, <2>7 DEF Granting
  <2>9. n \in 0..observed' /\ q \in 0..samples'
    BY <1>1, <1>6, <2>4
  <2> QED
    BY <1>3, <1>5, <2>8, <2>9 DEF Rounds
<1> QED
  BY <1>8, <1>9

LEMMA RoundsStep == TypeOK /\ PointsOnce /\ Rounds /\ [Next]_vars => Rounds'
<1> SUFFICES ASSUME TypeOK, PointsOnce, Rounds, [Next]_vars PROVE Rounds'
  OBVIOUS
<1> USE DEF config, words, history
<1>1. ASSUME NEW t \in Threads, ByRate(t) PROVE Rounds'
  BY <1>1 DEF ByRate, Rounds
<1>2. ASSUME NEW t \in Threads, LoadAhead(t) \/ LoadReached(t) \/ Retry(t), bytes # 0
      PROVE  Rounds'
  <2>1. /\ UNCHANGED <<bytes, observed, total_observed, samples, total, LastWord>>
        /\ pc \in [Threads -> {"idle", "load", "exchange"}]
        /\ total \in [Threads -> 0..LastWord] /\ next \in [Threads -> 0..LastWord]
        /\ pc[t] # "idle" /\ LastWord \in Nat /\ next_sample \in 0..LastWord
    BY <1>2, SamplerAssumption DEF LoadAhead, LoadReached, Retry, TypeOK, LastWord
  <2>2. /\ \A u \in Threads : pc'[u] # "idle" => total'[u] <= observed'
        /\ \A u \in Threads : pc'[u] = "exchange" => next'[u] <= total'[u]
    BY <1>2, <2>1 DEF LoadAhead, LoadReached, Retry, Rounds
  <2>3. Full' = Full
    BY <1>2, <2>1 DEF LoadAhead, LoadReached, Retry, Full
  <2>4. \A n, k : Granting(n, k)' <=> Granting(n, k)
    BY <2>1, <2>3 DEF Granting, Fills
  <2> QED
    BY <1>2, <2>1, <2>2, <2>3, <2>4 DEF Rounds
<1>3. ASSUME UNCHANGED <<bytes, observed, total_observed, samples, total, next, pc>>
      PROVE  Rounds'
  BY <1>3 DEF Rounds, Full, Granting, Fills, LastWord
<1>4. ASSUME NEW t \in Threads, SkipEmpty(t)
      PROVE  UNCHANGED <<bytes, observed, total_observed, samples, total, next, pc>>
  BY <1>4 DEF SkipEmpty
<1>5. ASSUME NEW t \in Threads, Step(t), bytes = 0 PROVE Rounds'
  BY <1>5 DEF Step, LoadAhead, LoadReached, Claim, Retry, Rounds
<1>6. CASE UNCHANGED vars
  BY <1>3, <1>6 DEF vars
<1> QED
  BY <1>1, <1>2, <1>3, <1>4, <1>5, <1>6, FetchAddRounds, ClaimRounds DEF Next, Call, Step

LEMMA RoundsGrant == TypeOK /\ Rounds => WrapGrantsNoBurst
<1> SUFFICES ASSUME TypeOK, Rounds, bytes # 0, 2 * bytes <= Word
             PROVE  samples * bytes <= observed + 2 * bytes
  BY DEF WrapGrantsNoBurst
<1>1. /\ Word \in Nat \ {0} /\ LastWord = Word - 1 /\ bytes \in Nat /\ samples \in Nat
      /\ observed \in Nat /\ total_observed \in 0 .. LastWord
  BY SamplerAssumption DEF TypeOK, LastWord
<1>2. PICK n \in 0..observed, k \in 0..samples : Granting(n, k)
  BY DEF Rounds
<1> DEFINE one == IF total_observed = LastWord THEN 1 ELSE 0
<1>3. samples <= k + 2 * n + one
  <2>1. Cardinality(Full) \in Nat
    BY FS_CardinalityType DEF Rounds
  <2> QED
    BY <1>1, <1>2, <2>1 DEF Granting, Fills
<1>4. /\ n \in Nat /\ k \in Nat /\ one \in {0, 1}
      /\ one = 1 => bytes <= total_observed
  BY <1>1, <1>2
<1> HIDE DEF one
<1>5. samples * bytes <= (k + 2 * n + one) * bytes
  BY <1>1, <1>3, <1>4, Multiples
<1>6. /\ (k + 2 * n + one) * bytes = k * bytes + n * (2 * bytes) + one * bytes
      /\ k * bytes \in Nat /\ n * (2 * bytes) \in Nat
  BY <1>1, <1>4, Multiples
<1>7. one * bytes <= total_observed /\ one * bytes \in Nat
  BY <1>1, <1>4
<1>8. samples * bytes \in Nat
  BY <1>1, NextMultiple
<1>9. CASE n = 0
  BY <1>1, <1>2, <1>4, <1>5, <1>6, <1>7, <1>8, <1>9 DEF Granting
<1>10. CASE n # 0
  <2>1. PICK m \in Nat : n = m + 1
    <3>1. n - 1 \in Nat /\ n = (n - 1) + 1
      BY <1>4, <1>10
    <3> QED
      BY <3>1
  <2>2. n * (2 * bytes) = m * (2 * bytes) + 2 * bytes /\ n * Word = m * Word + Word
    BY <1>1, <2>1, NextMultiple
  <2>3. m * (2 * bytes) <= m * Word /\ m * (2 * bytes) \in Nat /\ m * Word \in Nat
    <3>1. PICK d \in Nat : Word = 2 * bytes + d
      <4>1. Word - 2 * bytes \in Nat /\ Word = 2 * bytes + (Word - 2 * bytes)
        BY <1>1
      <4> QED
        BY <4>1
    <3>2. m * Word = m * (2 * bytes) + m * d /\ m * (2 * bytes) \in Nat /\ m * d \in Nat
      BY <1>1, <2>1, <3>1
    <3> QED
      BY <3>2
  <2> QED
    BY <1>1, <1>2, <1>5, <1>6, <1>7, <1>8, <2>2, <2>3 DEF Granting
<1> QED
  BY <1>9, <1>10

\* The counter wraps and the sampling point saturates, and still no burst of
\* samples follows: at most two more than the bytes allow are ever granted.
THEOREM WrapGrantsNoBurstAlways == Spec => []WrapGrantsNoBurst
BY InitTypeOK, TypeStep, InitPointsOnce, PointsOnceStep, InitRounds, RoundsStep,
   RoundsGrant, PTL DEF Spec

-----------------------------------------------------------------------------
(* Without sampling.                                                        *)

\* While every allocation is to be recorded, no thread enters the loop.
Everything == ~IsEnabled => Quiet /\ samples = calls

LEMMA EverythingStep == Everything /\ [Next]_vars => Everything'
<1> SUFFICES ASSUME Everything, [Next]_vars, ~IsEnabled' PROVE Quiet' /\ samples' = calls'
  BY DEF Everything
<1> USE DEF config, words, history
<1>1. UNCHANGED config
  BY DEF Next, Call, Step, ByRate, SkipEmpty, FetchAdd, LoadAhead, LoadReached, Claim, Retry, vars
<1>2. bytes = 0 /\ rate = "all" /\ Quiet /\ samples = calls
  BY <1>1 DEF Everything, IsEnabled
<1>3. ASSUME NEW t \in Threads, ByRate(t) PROVE Quiet' /\ samples' = calls'
  BY <1>2, <1>3 DEF ByRate, Called, Quiet
<1>4. ASSUME NEW t \in Threads PROVE ~SkipEmpty(t) /\ ~(\E size \in Sizes : FetchAdd(t, size)) /\ ~Step(t)
  BY <1>2 DEF SkipEmpty, FetchAdd, Step, LoadAhead, LoadReached, Claim, Retry, Quiet
<1>5. CASE UNCHANGED vars
  BY <1>2, <1>5 DEF vars, Quiet
<1> QED
  BY <1>3, <1>4, <1>5 DEF Next, Call

\* Where is_enabled() says that nothing is sampled, every allocation is
\* recorded: state.rs relies on it when it meets an address it does not know.
THEOREM AllUnlessEnabledAlways == Spec => []AllUnlessEnabled
<1>1. Init => Everything
  BY DEF Init, Everything, Quiet
<1>2. Everything => AllUnlessEnabled
  BY DEF Everything, AllUnlessEnabled
<1> QED
  BY <1>1, <1>2, EverythingStep, PTL DEF Spec
=============================================================================
