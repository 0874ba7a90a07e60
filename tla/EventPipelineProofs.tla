------------------------- MODULE EventPipelineProofs -------------------------
(****************************************************************************)
(* What EventPipeline keeps for every number of threads, callers and events *)
(* and every buffer size.                                                   *)
(****************************************************************************)
EXTENDS EventPipeline, SumFacts, SequenceTheorems, TLAPS

-----------------------------------------------------------------------------
(* What Append, Tail and RemoveAt do to the elements of a sequence and to   *)
(* the absence of repetitions.                                              *)

\* No element twice.
Distinct(s) == \A i, j \in 1..Len(s) : s[i] = s[j] => i = j

\* The elements of a sequence are what stands at its positions.
LEMMA ToSetMember ==
  ASSUME NEW S, NEW s \in Seq(S), NEW x
  PROVE  x \in ToSet(s) <=> \E i \in 1..Len(s) : s[i] = x
BY DEF ToSet

\* Appending adds one element.
LEMMA ToSetAppend ==
  ASSUME NEW S, NEW s \in Seq(S), NEW x \in S
  PROVE  /\ Append(s, x) \in Seq(S)
         /\ ToSet(Append(s, x)) = ToSet(s) \cup {x}
<1>1. Append(s, x) \in Seq(S)
  OBVIOUS
<1>2. /\ Len(Append(s, x)) = Len(s) + 1
      /\ \A i \in 1..Len(s) : Append(s, x)[i] = s[i]
      /\ Append(s, x)[Len(s) + 1] = x
  OBVIOUS
<1> DEFINE t == Append(s, x)
<1>3. \A y : y \in ToSet(t) <=> \E i \in 1..Len(t) : t[i] = y
  BY <1>1, ToSetMember
<1>4. \A y : y \in ToSet(s) <=> \E i \in 1..Len(s) : s[i] = y
  BY ToSetMember
<1>5. 1..Len(t) = 1..Len(s) \cup {Len(s) + 1}
  BY <1>2
<1> HIDE DEF t
<1>6. \A i \in 1..Len(s) : t[i] = s[i]
  BY <1>2 DEF t
<1>7. t[Len(s) + 1] = x
  BY <1>2 DEF t
<1>8. ASSUME NEW y PROVE y \in ToSet(t) <=> y \in ToSet(s) \cup {x}
  BY <1>3, <1>4, <1>5, <1>6, <1>7
<1> QED
  BY <1>1, <1>8 DEF t

\* Appending a new element repeats nothing.
LEMMA DistinctAppend ==
  ASSUME NEW S, NEW s \in Seq(S), Distinct(s), NEW x \in S, x \notin ToSet(s)
  PROVE  Distinct(Append(s, x))
<1>1. /\ Len(Append(s, x)) = Len(s) + 1
      /\ \A i \in 1..Len(s) : Append(s, x)[i] = s[i]
      /\ Append(s, x)[Len(s) + 1] = x
  OBVIOUS
<1>2. \A i \in 1..Len(s) : s[i] # x
  BY ToSetMember
<1> QED
  BY <1>1, <1>2 DEF Distinct

\* Taking the head off keeps all other elements.
LEMMA ToSetTail ==
  ASSUME NEW S, NEW s \in Seq(S), s # <<>>
  PROVE  /\ Tail(s) \in Seq(S)
         /\ Len(Tail(s)) = Len(s) - 1
         /\ Head(s) \in S
         /\ ToSet(s) = ToSet(Tail(s)) \cup {Head(s)}
<1>1. /\ Tail(s) \in Seq(S)
      /\ Len(s) \in Nat \ {0}
      /\ Len(Tail(s)) = Len(s) - 1
      /\ \A i \in 1..Len(s) - 1 : Tail(s)[i] = s[i + 1]
      /\ Head(s) = s[1]
  OBVIOUS
<1>2. Head(s) \in S
  BY <1>1
<1>3. ASSUME NEW y
      PROVE  y \in ToSet(s) <=> y \in ToSet(Tail(s)) \cup {Head(s)}
  <2>1. ASSUME y \in ToSet(s) PROVE y \in ToSet(Tail(s)) \cup {Head(s)}
    <3>1. PICK i \in 1..Len(s) : s[i] = y
      BY <2>1, ToSetMember
    <3>2. CASE i = 1
      BY <1>1, <3>1, <3>2
    <3>3. CASE i # 1
      <4>1. i - 1 \in 1..Len(Tail(s)) /\ Tail(s)[i - 1] = y
        BY <1>1, <3>1, <3>3
      <4> QED
        BY <1>1, <4>1, ToSetMember
    <3> QED
      BY <3>2, <3>3
  <2>2. ASSUME y \in ToSet(Tail(s)) PROVE y \in ToSet(s)
    <3>1. PICK i \in 1..Len(Tail(s)) : Tail(s)[i] = y
      BY <1>1, <2>2, ToSetMember
    <3>2. i + 1 \in 1..Len(s) /\ s[i + 1] = y
      BY <1>1, <3>1
    <3> QED
      BY <3>2, ToSetMember
  <2>3. Head(s) \in ToSet(s)
    BY <1>1, ToSetMember
  <2> QED
    BY <2>1, <2>2, <2>3
<1> QED
  BY <1>1, <1>2, <1>3

\* Without repetition the head is gone from the tail.
LEMMA DistinctTail ==
  ASSUME NEW S, NEW s \in Seq(S), s # <<>>, Distinct(s)
  PROVE  /\ Distinct(Tail(s))
         /\ Head(s) \notin ToSet(Tail(s))
<1>1. /\ Tail(s) \in Seq(S)
      /\ Len(s) \in Nat \ {0}
      /\ Len(Tail(s)) = Len(s) - 1
      /\ \A i \in 1..Len(s) - 1 : Tail(s)[i] = s[i + 1]
      /\ Head(s) = s[1]
  OBVIOUS
<1>2. Distinct(Tail(s))
  BY <1>1 DEF Distinct
<1>3. ASSUME Head(s) \in ToSet(Tail(s)) PROVE FALSE
  <2>1. PICK i \in 1..Len(Tail(s)) : Tail(s)[i] = Head(s)
    BY <1>1, <1>3, ToSetMember
  <2>2. i + 1 \in 1..Len(s) /\ 1 \in 1..Len(s) /\ s[i + 1] = s[1] /\ i + 1 # 1
    BY <1>1, <2>1
  <2> QED
    BY <2>2 DEF Distinct
<1> QED
  BY <1>2, <1>3

\* The empty sequence has no elements.
LEMMA ToSetEmpty == ToSet(<<>>) = {} /\ Distinct(<<>>)
BY DEF ToSet, Distinct

\* Taking one position out of a sequence loses at most what it held.
LEMMA RemoveAtKeeps ==
  ASSUME NEW S, NEW s \in Seq(S), NEW k \in 1..Len(s)
  PROVE  /\ RemoveAt(s, k) \in Seq(S)
         /\ Len(RemoveAt(s, k)) = Len(s) - 1
         /\ \A i \in 1..Len(s) - 1 :
              RemoveAt(s, k)[i] = IF i < k THEN s[i] ELSE s[i + 1]
         /\ \A x \in ToSet(s) : x # s[k] => x \in ToSet(RemoveAt(s, k))
<1> DEFINE a == SubSeq(s, 1, k - 1)
           b == SubSeq(s, k + 1, Len(s))
<1>1. /\ a \in Seq(S) /\ Len(a) = k - 1
      /\ \A i \in 1..(k - 1) : a[i] = s[i]
  BY SubSeqProperties
<1>2. /\ b \in Seq(S) /\ Len(b) = Len(s) - k
      /\ \A i \in 1..(Len(s) - k) : b[i] = s[k + i]
  BY SubSeqProperties
<1>3. /\ a \o b \in Seq(S)
      /\ Len(a \o b) = Len(a) + Len(b)
      /\ \A i \in 1..(Len(a) + Len(b)) :
           (a \o b)[i] = IF i <= Len(a) THEN a[i] ELSE b[i - Len(a)]
  BY <1>1, <1>2, ConcatProperties
<1>4. RemoveAt(s, k) = a \o b
  BY DEF RemoveAt
<1> HIDE DEF a, b
<1>5. /\ RemoveAt(s, k) \in Seq(S)
      /\ Len(a) + Len(b) = Len(s) - 1
      /\ Len(RemoveAt(s, k)) = Len(s) - 1
  <2>1. Len(s) \in Nat /\ k \in Int
    OBVIOUS
  <2>2. Len(a) + Len(b) = Len(s) - 1
    BY <1>1, <1>2, <2>1
  <2> QED
    BY <1>3, <1>4, <2>2
<1>6. ASSUME NEW i \in 1..Len(s) - 1
      PROVE  RemoveAt(s, k)[i] = IF i < k THEN s[i] ELSE s[i + 1]
  <2>1. CASE i < k
    <3>1. i \in 1..(k - 1)
      BY <2>1
    <3> QED
      BY <1>1, <1>3, <1>4, <1>5, <2>1, <3>1
  <2>2. CASE ~(i < k)
    <3> DEFINE j == i - (k - 1)
    <3>1. j \in 1..(Len(s) - k) /\ k + j = i + 1
      BY <2>2
    <3>2. (a \o b)[i] = b[j]
      BY <1>1, <1>3, <1>5, <2>2
    <3>3. b[j] = s[k + j]
      BY <1>2, <3>1
    <3> QED
      BY <1>4, <2>2, <3>1, <3>2, <3>3
  <2> QED
    BY <2>1, <2>2
<1>7. ASSUME NEW x \in ToSet(s), x # s[k] PROVE x \in ToSet(RemoveAt(s, k))
  <2>1. PICK i \in 1..Len(s) : s[i] = x
    BY ToSetMember
  <2>2. CASE i < k
    <3>1. i \in 1..Len(RemoveAt(s, k)) /\ RemoveAt(s, k)[i] = x
      BY <1>5, <1>6, <2>1, <2>2
    <3> QED
      BY <1>5, <3>1, ToSetMember
  <2>3. CASE i > k
    <3>1. i - 1 \in 1..Len(RemoveAt(s, k)) /\ RemoveAt(s, k)[i - 1] = x
      BY <1>5, <1>6, <2>1, <2>3
    <3> QED
      BY <1>5, <3>1, ToSetMember
  <2> QED
    BY <1>7, <2>1, <2>2, <2>3
<1> QED
  BY <1>5, <1>6, <1>7

-----------------------------------------------------------------------------
(* The geometry of a buffer.                                                *)

LEMMA CapacityPositive == Capacity \in Nat \ {0}
<1>1. RingBufferBytes \div EventSize \in Nat
  BY PipelineAssumption
<1> QED
  BY <1>1 DEF Capacity, MaxEvents, DefaultEvents

\* ThreadBuffer::new: whatever ring_buffer_bytes is, the flush threshold is at
\* least one event and at most what the buffer holds, so that a buffer asks
\* for a flush before it turns events away, and never when it is empty.
THEOREM GeometrySound == Threshold \in 1..Capacity
BY CapacityPositive DEF Threshold, FlushThreshold, AtLeastOne

-----------------------------------------------------------------------------
(* Types and the lock on `buffers`.                                         *)

\* In a sequence without repetition every element occurs once.
LEMMA OccurrencesDistinct ==
  ASSUME NEW S, NEW s \in Seq(S), Distinct(s), NEW x
  PROVE  Occurrences(x, s) = IF x \in ToSet(s) THEN 1 ELSE 0
<1> DEFINE I == {i \in DOMAIN s : s[i] = x}
<1>1. CASE x \in ToSet(s)
  <2>1. PICK i \in 1..Len(s) : s[i] = x
    BY <1>1, ToSetMember
  <2>2. I = {i}
    BY <2>1 DEF Distinct
  <2> QED
    BY <1>1, <2>2, FS_Singleton DEF Occurrences
<1>2. CASE x \notin ToSet(s)
  <2>1. I = {}
    BY <1>2 DEF ToSet
  <2> QED
    BY <1>2, <2>1, FS_EmptySet DEF Occurrences
<1> QED
  BY <1>1, <1>2

LEMMA OccurrencesNat ==
  ASSUME NEW S, NEW s \in Seq(S), NEW x
  PROVE  Occurrences(x, s) \in Nat
<1>1. IsFiniteSet(1..Len(s))
  BY FS_Interval
<1>2. IsFiniteSet({i \in DOMAIN s : s[i] = x})
  BY <1>1, FS_Subset
<1> QED
  BY <1>2, FS_CardinalityType DEF Occurrences

\* A thread inside a record call is running.
RecordingAlive == \A t \in Threads : ppc[t] # "idle" => t \in alive /\ sent[t] >= 1

\* q is the end of b.
AtEnd(q, b) ==
  /\ Len(q) <= Len(b)
  /\ \A i \in 1..Len(q) : q[i] = b[Len(b) - Len(q) + i]

\* One drain at a time visits the buffers, and what it has still to visit is
\* the end of the list.
VisitsOrdered ==
  /\ \A c, d \in Drainers : dpc[c] \in Visiting /\ dpc[d] \in Visiting => c = d
  /\ \A d \in Drainers : dpc[d] \in {"pop", "swap"} => todo[d] # <<>>
  /\ \A d \in Drainers : dpc[d] \in Visiting => AtEnd(todo[d], buffers)

LEMMA AtEndWhole ==
  ASSUME NEW S, NEW b \in Seq(S)
  PROVE  AtEnd(b, b)
BY DEF AtEnd

LEMMA AtEndTail ==
  ASSUME NEW S, NEW q \in Seq(S), NEW b \in Seq(S), q # <<>>, AtEnd(q, b)
  PROVE  AtEnd(Tail(q), b)
<1>1. /\ Tail(q) \in Seq(S)
      /\ Len(Tail(q)) = Len(q) - 1
      /\ \A i \in 1..Len(Tail(q)) : Tail(q)[i] = q[i + 1]
  BY HeadTailProperties
<1> QED
  BY <1>1 DEF AtEnd

\* Dropping the element of b that stands where q begins.
LEMMA AtEndRemove ==
  ASSUME NEW S, NEW q \in Seq(S), NEW b \in Seq(S), q # <<>>, AtEnd(q, b)
  PROVE  LET k == Len(b) - Len(q) + 1
         IN  /\ k \in 1..Len(b)
             /\ b[k] = Head(q)
             /\ AtEnd(Tail(q), RemoveAt(b, k))
<1> DEFINE k == Len(b) - Len(q) + 1
           r == RemoveAt(b, k)
<1>1. /\ Tail(q) \in Seq(S)
      /\ Len(Tail(q)) = Len(q) - 1
      /\ \A i \in 1..Len(Tail(q)) : Tail(q)[i] = q[i + 1]
      /\ Head(q) = q[1]
      /\ Len(q) \in Nat \ {0}
  BY HeadTailProperties
<1>2. k \in 1..Len(b) /\ b[k] = Head(q)
  BY <1>1 DEF AtEnd
<1>3. /\ r \in Seq(S)
      /\ Len(r) = Len(b) - 1
      /\ \A i \in 1..Len(b) - 1 : r[i] = IF i < k THEN b[i] ELSE b[i + 1]
  BY <1>2, RemoveAtKeeps
<1> HIDE DEF r
<1>4. Len(Tail(q)) <= Len(r)
  BY <1>1, <1>3 DEF AtEnd
<1>5. ASSUME NEW i \in 1..Len(Tail(q))
      PROVE  Tail(q)[i] = r[Len(r) - Len(Tail(q)) + i]
  <2> DEFINE j == Len(r) - Len(Tail(q)) + i
  <2>1. j \in 1..Len(b) - 1 /\ ~(j < k) /\ j + 1 = Len(b) - Len(q) + (i + 1)
    BY <1>1, <1>3, <1>4
  <2>2. r[j] = b[j + 1]
    BY <1>3, <2>1
  <2>3. i + 1 \in 1..Len(q) /\ Tail(q)[i] = q[i + 1]
    BY <1>1
  <2>4. q[i + 1] = b[Len(b) - Len(q) + (i + 1)]
    BY <2>3 DEF AtEnd
  <2> QED
    BY <2>1, <2>2, <2>3, <2>4
<1> QED
  BY <1>2, <1>4, <1>5 DEF r, AtEnd

LEMMA InitTypeOK == Init => TypeOK
<1> SUFFICES ASSUME Init PROVE TypeOK
  OBVIOUS
<1>1. ThreadTypeOK
  BY PipelineAssumption DEF Init, ThreadTypeOK, ProducerPC, Nothing
<1>2. DrainTypeOK
  BY DEF Init, DrainTypeOK, DrainerPC
<1>3. StatTypeOK
  BY DEF Init, StatTypeOK
<1>4. CallTypeOK
  BY PipelineAssumption DEF Init, CallTypeOK, Nothing
<1>5. pendingFlush \in BOOLEAN
  BY DEF Init
<1>6. QueueBounded
  BY CapacityPositive DEF Init, QueueBounded
<1> QED
  BY <1>1, <1>2, <1>3, <1>4, <1>5, <1>6 DEF TypeOK

\* What the head of the list to visit is.
LEMMA Visited ==
  ASSUME DrainTypeOK, VisitsOrdered, NEW d \in Drainers,
         dpc[d] \in {"pop", "swap"} \/ todo[d] # <<>>
  PROVE  /\ todo[d] \in Seq(Threads) /\ todo[d] # <<>>
         /\ Head(todo[d]) \in Threads
         /\ Tail(todo[d]) \in Seq(Threads)
         /\ Len(Tail(todo[d])) = Len(todo[d]) - 1
         /\ ToSet(todo[d]) = ToSet(Tail(todo[d])) \cup {Head(todo[d])}
<1>1. todo[d] \in Seq(Threads) /\ todo[d] # <<>>
  BY DEF DrainTypeOK, VisitsOrdered
<1> QED
  BY <1>1, ToSetTail

LEMMA ThreadTypes ==
  ASSUME TypeOK, RecordingAlive, VisitsOrdered, [Next]_vars
  PROVE  ThreadTypeOK' /\ RecordingAlive'
<1> ThreadTypeOK
  BY DEF TypeOK
<1> USE PipelineAssumption
    DEF ThreadTypeOK, RecordingAlive, ProducerPC, ProducerAt, threadVars
<1>1. ASSUME NEW t \in Threads, Record(t)
      PROVE  ThreadTypeOK' /\ RecordingAlive'
  BY <1>1 DEF Record
<1>2. ASSUME NEW t \in Threads, Register(t)
      PROVE  ThreadTypeOK' /\ RecordingAlive'
  BY <1>2 DEF Register
<1>3. ASSUME NEW t \in Threads, Push(t) PROVE ThreadTypeOK' /\ RecordingAlive'
  BY <1>3 DEF Push
<1>4. ASSUME NEW t \in Threads, PushFull(t)
      PROVE  ThreadTypeOK' /\ RecordingAlive'
  BY <1>4 DEF PushFull
<1>5. ASSUME NEW t \in Threads, CheckLen(t)
      PROVE  ThreadTypeOK' /\ RecordingAlive'
  BY <1>5 DEF CheckLen
<1>6. ASSUME NEW t \in Threads, CountDrop(t)
      PROVE  ThreadTypeOK' /\ RecordingAlive'
  BY <1>6 DEF CountDrop
<1>7. ASSUME NEW t \in Threads, NotifyFlush(t)
      PROVE  ThreadTypeOK' /\ RecordingAlive'
  BY <1>7 DEF NotifyFlush
<1>8. ASSUME NEW t \in Threads, Signal(t)
      PROVE  ThreadTypeOK' /\ RecordingAlive'
  BY <1>8 DEF Signal
<1>9. ASSUME NEW t \in Threads, Exit(t) PROVE ThreadTypeOK' /\ RecordingAlive'
  <2>1. ThreadTypeOK
    BY DEF TypeOK
  <2>2. CASE \E d \in Drainers : Upgraded(d, t)
    BY <1>9, <2>1, <2>2 DEF Exit
  <2>3. CASE ~\E d \in Drainers : Upgraded(d, t)
    <3>1. <<>> \in Seq(1..EventsPerThread)
      OBVIOUS
    <3>2. queue' \in [Threads -> Seq(1..EventsPerThread)]
      BY <1>9, <2>1, <2>3, <3>1 DEF Exit, FreeBuffer
    <3>3. /\ alive' = alive \ {t} /\ ppc' = ppc /\ sent' = sent
          /\ dropped' = [dropped EXCEPT ![t] = 0] /\ ppc[t] = "idle"
      BY <1>9, <2>3 DEF Exit
    <3> QED
      BY <2>1, <3>2, <3>3
  <2> QED
    BY <2>2, <2>3
<1>10. ASSUME NEW d \in Drainers, StartDrain(d)
      PROVE  ThreadTypeOK' /\ RecordingAlive'
  BY <1>10 DEF StartDrain
<1>11. ASSUME NEW d \in Drainers, VisitLive(d)
      PROVE  ThreadTypeOK' /\ RecordingAlive'
  BY <1>11 DEF VisitLive
<1>12. ASSUME NEW d \in Drainers, VisitGone(d)
      PROVE  ThreadTypeOK' /\ RecordingAlive'
  BY <1>12 DEF VisitGone
<1>13. ASSUME NEW d \in Drainers, PopEvent(d)
      PROVE  ThreadTypeOK' /\ RecordingAlive'
  BY <1>13, ToSetTail DEF PopEvent
<1>14. ASSUME NEW d \in Drainers, PopEmpty(d)
      PROVE  ThreadTypeOK' /\ RecordingAlive'
  BY <1>14 DEF PopEmpty
<1>15. ASSUME NEW d \in Drainers, SwapDropped(d)
      PROVE  ThreadTypeOK' /\ RecordingAlive'
  <2>1. Head(todo[d]) \in Threads
    BY <1>15, Visited DEF TypeOK, SwapDropped, DrainerAt
  <2>2. ThreadTypeOK
    BY DEF TypeOK
  <2>3. CASE Head(todo[d]) \in alive
    BY <1>15, <2>1, <2>2, <2>3 DEF SwapDropped
  <2>4. CASE Head(todo[d]) \notin alive
    <3>1. <<>> \in Seq(1..EventsPerThread)
      OBVIOUS
    <3>2. queue' \in [Threads -> Seq(1..EventsPerThread)]
      BY <1>15, <2>1, <2>2, <2>4, <3>1 DEF SwapDropped, FreeBuffer
    <3> QED
      BY <1>15, <2>1, <2>2, <2>4, <3>2 DEF SwapDropped
  <2> QED
    BY <2>3, <2>4
<1>16. ASSUME NEW d \in Drainers, EndVisits(d)
      PROVE  ThreadTypeOK' /\ RecordingAlive'
  BY <1>16 DEF EndVisits
<1>17. ASSUME NEW d \in Drainers, Ingest(d)
      PROVE  ThreadTypeOK' /\ RecordingAlive'
  BY <1>17 DEF Ingest
<1>18. ASSUME NEW c \in Callers, NEW o \in {"snapshot", "reset"}, Call(c, o)
      PROVE  ThreadTypeOK' /\ RecordingAlive'
  BY <1>18 DEF Call
<1>19. ASSUME NEW c \in Callers, ReadStats(c)
      PROVE  ThreadTypeOK' /\ RecordingAlive'
  BY <1>19 DEF ReadStats
<1>20. ASSUME NEW c \in Callers, ClearStats(c)
      PROVE  ThreadTypeOK' /\ RecordingAlive'
  BY <1>20 DEF ClearStats
<1>21. CASE Poll
  BY <1>21 DEF Poll
<1>22. CASE Park
  BY <1>22 DEF Park
<1>23. CASE Timeout
  BY <1>23 DEF Timeout
<1>24. CASE UNCHANGED vars
  BY <1>24 DEF vars, vars
<1> QED
  BY <1>1, <1>2, <1>3, <1>4, <1>5, <1>6, <1>7, <1>8, <1>9, <1>10, <1>11,
     <1>12, <1>13, <1>14, <1>15, <1>16, <1>17, <1>18, <1>19, <1>20, <1>21,
     <1>22, <1>23, <1>24 DEF Next, StableNext, ProducerStep, CallerStep,
     WorkerStep, DrainStep, Drainers

LEMMA DrainTypes ==
  ASSUME TypeOK, VisitsOrdered, [Next]_vars
  PROVE  DrainTypeOK'
<1> DrainTypeOK
  BY DEF TypeOK
<1> USE PipelineAssumption
    DEF DrainTypeOK, DrainerPC, DrainerAt, drainVars, Visiting
<1>1. ASSUME NEW t \in Threads, Record(t) PROVE DrainTypeOK'
  BY <1>1 DEF Record
<1>2. ASSUME NEW t \in Threads, Register(t) PROVE DrainTypeOK'
  BY <1>2 DEF Register
<1>3. ASSUME NEW t \in Threads, Push(t) PROVE DrainTypeOK'
  BY <1>3 DEF Push
<1>4. ASSUME NEW t \in Threads, PushFull(t) PROVE DrainTypeOK'
  BY <1>4 DEF PushFull
<1>5. ASSUME NEW t \in Threads, CheckLen(t) PROVE DrainTypeOK'
  BY <1>5 DEF CheckLen
<1>6. ASSUME NEW t \in Threads, CountDrop(t) PROVE DrainTypeOK'
  BY <1>6 DEF CountDrop
<1>7. ASSUME NEW t \in Threads, NotifyFlush(t) PROVE DrainTypeOK'
  BY <1>7 DEF NotifyFlush
<1>8. ASSUME NEW t \in Threads, Signal(t) PROVE DrainTypeOK'
  BY <1>8 DEF Signal, Drainers
<1>9. ASSUME NEW t \in Threads, Exit(t) PROVE DrainTypeOK'
  BY <1>9 DEF Exit, FreeBuffer
<1>10. ASSUME NEW d \in Drainers, StartDrain(d) PROVE DrainTypeOK'
  BY <1>10 DEF StartDrain
<1>11. ASSUME NEW d \in Drainers, VisitLive(d) PROVE DrainTypeOK'
  BY <1>11 DEF VisitLive
<1>12. ASSUME NEW d \in Drainers, VisitGone(d) PROVE DrainTypeOK'
  BY <1>12, ToSetTail, RemoveAtKeeps, AtEndRemove DEF VisitGone, VisitsOrdered
<1>13. ASSUME NEW d \in Drainers, PopEvent(d) PROVE DrainTypeOK'
  <2>1. Head(todo[d]) \in Threads
    BY <1>13, Visited DEF PopEvent
  <2>2. Head(queue[Head(todo[d])]) \in 1..EventsPerThread
    BY <1>13, <2>1, ToSetTail DEF PopEvent, TypeOK, ThreadTypeOK
  <2>3. <<Head(todo[d]), Head(queue[Head(todo[d])])>> \in Events
    BY <2>1, <2>2 DEF Events
  <2> QED
    BY <1>13, <2>3 DEF PopEvent
<1>14. ASSUME NEW d \in Drainers, PopEmpty(d) PROVE DrainTypeOK'
  BY <1>14 DEF PopEmpty
<1>15. ASSUME NEW d \in Drainers, SwapDropped(d) PROVE DrainTypeOK'
  <2>1. Head(todo[d]) \in Threads /\ Tail(todo[d]) \in Seq(Threads)
    BY <1>15, Visited DEF SwapDropped
  <2>2. dropped[Head(todo[d])] \in Nat
    BY <2>1 DEF TypeOK, ThreadTypeOK
  <2> QED
    BY <1>15, <2>1, <2>2 DEF SwapDropped
<1>16. ASSUME NEW d \in Drainers, EndVisits(d) PROVE DrainTypeOK'
  BY <1>16 DEF EndVisits, AfterDrain
<1>17. ASSUME NEW d \in Drainers, Ingest(d) PROVE DrainTypeOK'
  BY <1>17 DEF Ingest, AfterDrain
<1>18. ASSUME NEW c \in Callers, NEW o \in {"snapshot", "reset"}, Call(c, o)
      PROVE  DrainTypeOK'
  BY <1>18 DEF Call, Drainers
<1>19. ASSUME NEW c \in Callers, ReadStats(c) PROVE DrainTypeOK'
  BY <1>19 DEF ReadStats, Return, Drainers
<1>20. ASSUME NEW c \in Callers, ClearStats(c) PROVE DrainTypeOK'
  BY <1>20 DEF ClearStats, Return, Drainers
<1>21. CASE Poll
  BY <1>21 DEF Poll, Drainers
<1>22. CASE Park
  BY <1>22 DEF Park, Drainers
<1>23. CASE Timeout
  BY <1>23 DEF Timeout, Drainers
<1>24. CASE UNCHANGED vars
  BY <1>24 DEF vars
<1> QED
  BY <1>1, <1>2, <1>3, <1>4, <1>5, <1>6, <1>7, <1>8, <1>9, <1>10, <1>11,
     <1>12, <1>13, <1>14, <1>15, <1>16, <1>17, <1>18, <1>19, <1>20, <1>21,
     <1>22, <1>23, <1>24 DEF Next, StableNext, ProducerStep, CallerStep,
     WorkerStep, DrainStep, Drainers

\* Only Push makes a queue longer, and only below its capacity.
LEMMA QueueBoundStep ==
  ASSUME TypeOK, VisitsOrdered, [Next]_vars
  PROVE  QueueBounded'
<1> /\ QueueBounded /\ DrainTypeOK
    /\ queue \in [Threads -> Seq(1..EventsPerThread)]
    /\ Capacity \in Nat
  BY CapacityPositive DEF TypeOK, ThreadTypeOK
<1> USE DEF QueueBounded, threadVars
<1>1. ASSUME NEW t \in Threads, FreeBuffer(t) PROVE QueueBounded'
  BY <1>1 DEF FreeBuffer
<1>2. ASSUME NEW t \in Threads, Record(t) PROVE QueueBounded'
  BY <1>2 DEF Record
<1>3. ASSUME NEW t \in Threads, Register(t) PROVE QueueBounded'
  BY <1>3 DEF Register
<1>4. ASSUME NEW t \in Threads, Push(t) PROVE QueueBounded'
  <2>1. \A s \in Threads \ {t} : queue'[s] = queue[s]
    BY <1>4 DEF Push
  <2>2. queue'[t] = Append(queue[t], sent[t]) /\ Len(queue[t]) < Capacity
    BY <1>4 DEF Push
  <2>3. Len(queue'[t]) = Len(queue[t]) + 1
    BY <2>2
  <2> QED
    BY <2>1, <2>2, <2>3
<1>5. ASSUME NEW t \in Threads, PushFull(t) PROVE QueueBounded'
  BY <1>5 DEF PushFull
<1>6. ASSUME NEW t \in Threads, CheckLen(t) PROVE QueueBounded'
  BY <1>6 DEF CheckLen
<1>7. ASSUME NEW t \in Threads, CountDrop(t) PROVE QueueBounded'
  BY <1>7 DEF CountDrop
<1>8. ASSUME NEW t \in Threads, NotifyFlush(t) PROVE QueueBounded'
  BY <1>8 DEF NotifyFlush
<1>9. ASSUME NEW t \in Threads, Signal(t) PROVE QueueBounded'
  BY <1>9 DEF Signal
<1>10. ASSUME NEW t \in Threads, Exit(t) PROVE QueueBounded'
  BY <1>10, <1>1 DEF Exit
<1>11. ASSUME NEW d \in Drainers, StartDrain(d) PROVE QueueBounded'
  BY <1>11 DEF StartDrain
<1>12. ASSUME NEW d \in Drainers, VisitLive(d) PROVE QueueBounded'
  BY <1>12 DEF VisitLive
<1>13. ASSUME NEW d \in Drainers, VisitGone(d) PROVE QueueBounded'
  BY <1>13 DEF VisitGone
<1>14. ASSUME NEW d \in Drainers, PopEvent(d) PROVE QueueBounded'
  <2> DEFINE t == Head(todo[d])
  <2>1. t \in Threads /\ queue[t] # <<>> /\ queue' = [queue EXCEPT ![t] = Tail(queue[t])]
    BY <1>14, Visited DEF PopEvent
  <2> HIDE DEF t
  <2>2. Len(Tail(queue[t])) = Len(queue[t]) - 1
    BY <2>1, ToSetTail
  <2>3. \A s \in Threads : Len(queue[s]) \in Nat
    OBVIOUS
  <2> QED
    BY <2>1, <2>2, <2>3
<1>15. ASSUME NEW d \in Drainers, PopEmpty(d) PROVE QueueBounded'
  BY <1>15 DEF PopEmpty
<1>16. ASSUME NEW d \in Drainers, SwapDropped(d) PROVE QueueBounded'
  <2>1. Head(todo[d]) \in Threads
    BY <1>16, Visited DEF SwapDropped, DrainerAt
  <2>2. CASE Head(todo[d]) \in alive
    BY <1>16, <2>2 DEF SwapDropped
  <2>3. CASE Head(todo[d]) \notin alive
    BY <1>16, <1>1, <2>1, <2>3 DEF SwapDropped
  <2> QED
    BY <2>2, <2>3
<1>17. ASSUME NEW d \in Drainers, EndVisits(d) PROVE QueueBounded'
  BY <1>17 DEF EndVisits
<1>18. ASSUME NEW d \in Drainers, Ingest(d) PROVE QueueBounded'
  BY <1>18 DEF Ingest
<1>19. ASSUME NEW c \in Callers, NEW o \in {"snapshot", "reset"}, Call(c, o) PROVE QueueBounded'
  BY <1>19 DEF Call
<1>20. ASSUME NEW c \in Callers, ReadStats(c) PROVE QueueBounded'
  BY <1>20 DEF ReadStats
<1>21. ASSUME NEW c \in Callers, ClearStats(c) PROVE QueueBounded'
  BY <1>21 DEF ClearStats
<1>22. ASSUME Poll PROVE QueueBounded'
  BY <1>22 DEF Poll
<1>23. ASSUME Park PROVE QueueBounded'
  BY <1>23 DEF Park
<1>24. ASSUME Timeout PROVE QueueBounded'
  BY <1>24 DEF Timeout
<1>25. ASSUME UNCHANGED vars PROVE QueueBounded'
  BY <1>25 DEF vars
<1> QED
  BY <1>1, <1>2, <1>3, <1>4, <1>5, <1>6, <1>7, <1>8, <1>9, <1>10, <1>11,
     <1>12, <1>13, <1>14, <1>15, <1>16, <1>17, <1>18, <1>19, <1>20, <1>21,
     <1>22, <1>23, <1>24, <1>25
     DEF Next, StableNext, ProducerStep, CallerStep, WorkerStep, DrainStep, Drainers

\* Counts and the reasons why events ended.
LEMMA StatTypes ==
  ASSUME TypeOK, VisitsOrdered, [Next]_vars
  PROVE  StatTypeOK'
<1> StatTypeOK
  BY DEF TypeOK
<1> USE DEF StatTypeOK, statVars, history
<1>1. ASSUME NEW t \in Threads, Record(t) PROVE StatTypeOK'
  BY <1>1 DEF Record
<1>2. ASSUME NEW t \in Threads, Register(t) PROVE StatTypeOK'
  BY <1>2 DEF Register
<1>3. ASSUME NEW t \in Threads, Push(t) PROVE StatTypeOK'
  BY <1>3 DEF Push
<1>4. ASSUME NEW t \in Threads, PushFull(t) PROVE StatTypeOK'
  BY <1>4 DEF PushFull, End
<1>5. ASSUME NEW t \in Threads, CheckLen(t) PROVE StatTypeOK'
  BY <1>5 DEF CheckLen
<1>6. ASSUME NEW t \in Threads, CountDrop(t) PROVE StatTypeOK'
  BY <1>6 DEF CountDrop
<1>7. ASSUME NEW t \in Threads, NotifyFlush(t) PROVE StatTypeOK'
  BY <1>7 DEF NotifyFlush
<1>8. ASSUME NEW t \in Threads, Signal(t) PROVE StatTypeOK'
  BY <1>8 DEF Signal
<1>9. ASSUME NEW t \in Threads, Exit(t) PROVE StatTypeOK'
  <2>1. dropped[t] \in Nat
    BY DEF TypeOK, ThreadTypeOK
  <2>2. CASE \E d \in Drainers : Upgraded(d, t)
    BY <1>9, <2>2 DEF Exit
  <2>3. CASE ~\E d \in Drainers : Upgraded(d, t)
    BY <1>9, <2>1, <2>3 DEF Exit, FreeBuffer, End
  <2> QED
    BY <2>2, <2>3
<1>10. ASSUME NEW d \in Drainers, StartDrain(d) PROVE StatTypeOK'
  BY <1>10 DEF StartDrain
<1>11. ASSUME NEW d \in Drainers, VisitLive(d) PROVE StatTypeOK'
  BY <1>11 DEF VisitLive
<1>12. ASSUME NEW d \in Drainers, VisitGone(d) PROVE StatTypeOK'
  BY <1>12 DEF VisitGone
<1>13. ASSUME NEW d \in Drainers, PopEvent(d) PROVE StatTypeOK'
  BY <1>13 DEF PopEvent
<1>14. ASSUME NEW d \in Drainers, PopEmpty(d) PROVE StatTypeOK'
  BY <1>14 DEF PopEmpty
<1>15. ASSUME NEW d \in Drainers, SwapDropped(d) PROVE StatTypeOK'
  <2>1. CASE Head(todo[d]) \in alive
    BY <1>15, <2>1 DEF SwapDropped
  <2>2. CASE Head(todo[d]) \notin alive
    BY <1>15, <2>2 DEF SwapDropped, FreeBuffer, End
  <2> QED
    BY <2>1, <2>2
<1>16. ASSUME NEW d \in Drainers, EndVisits(d) PROVE StatTypeOK'
  BY <1>16 DEF EndVisits
<1>17. ASSUME NEW d \in Drainers, Ingest(d) PROVE StatTypeOK'
  <2>1. batch[d] \in Seq(Events) /\ batchDropped[d] \in Nat
    BY DEF TypeOK, DrainTypeOK
  <2>2. \A e \in Events : Occurrences(e, batch[d]) \in Nat
    BY <2>1, OccurrencesNat
  <2> QED
    BY <1>17, <2>1, <2>2 DEF Ingest
<1>18. ASSUME NEW c \in Callers, NEW o \in {"snapshot", "reset"}, Call(c, o)
      PROVE  StatTypeOK'
  BY <1>18 DEF Call
<1>19. ASSUME NEW c \in Callers, ReadStats(c) PROVE StatTypeOK'
  BY <1>19 DEF ReadStats
<1>20. ASSUME NEW c \in Callers, ClearStats(c) PROVE StatTypeOK'
  BY <1>20 DEF ClearStats, End
<1>21. CASE Poll
  BY <1>21 DEF Poll
<1>22. CASE Park
  BY <1>22 DEF Park
<1>23. CASE Timeout
  BY <1>23 DEF Timeout
<1>24. CASE UNCHANGED vars
  BY <1>24 DEF vars, vars
<1> QED
  BY <1>1, <1>2, <1>3, <1>4, <1>5, <1>6, <1>7, <1>8, <1>9, <1>10, <1>11,
     <1>12, <1>13, <1>14, <1>15, <1>16, <1>17, <1>18, <1>19, <1>20, <1>21,
     <1>22, <1>23, <1>24 DEF Next, StableNext, ProducerStep, CallerStep,
     WorkerStep, DrainStep, Drainers

LEMMA CallTypes ==
  ASSUME TypeOK, RecordingAlive, [Next]_vars
  PROVE  CallTypeOK'
<1> CallTypeOK
  BY DEF TypeOK
<1> USE DEF CallTypeOK, callVars, history
<1>1. ASSUME NEW t \in Threads, Record(t) PROVE CallTypeOK'
  BY <1>1 DEF Record
<1>2. ASSUME NEW t \in Threads, Register(t) PROVE CallTypeOK'
  BY <1>2 DEF Register
<1>3. ASSUME NEW t \in Threads, Push(t) PROVE CallTypeOK'
  BY <1>3 DEF Push
<1>4. ASSUME NEW t \in Threads, PushFull(t) PROVE CallTypeOK'
  BY <1>4 DEF PushFull
<1>5. ASSUME NEW t \in Threads, CheckLen(t) PROVE CallTypeOK'
  BY <1>5 DEF CheckLen
<1>6. ASSUME NEW t \in Threads, CountDrop(t) PROVE CallTypeOK'
  BY <1>6 DEF CountDrop
<1>7. ASSUME NEW t \in Threads, NotifyFlush(t) PROVE CallTypeOK'
  BY <1>7 DEF NotifyFlush
<1>8. ASSUME NEW t \in Threads, Signal(t) PROVE CallTypeOK'
  BY <1>8 DEF Signal
<1>9. ASSUME NEW t \in Threads, Exit(t) PROVE CallTypeOK'
  BY <1>9 DEF Exit
<1>10. ASSUME NEW d \in Drainers, StartDrain(d) PROVE CallTypeOK'
  BY <1>10 DEF StartDrain
<1>11. ASSUME NEW d \in Drainers, VisitLive(d) PROVE CallTypeOK'
  BY <1>11 DEF VisitLive
<1>12. ASSUME NEW d \in Drainers, VisitGone(d) PROVE CallTypeOK'
  BY <1>12 DEF VisitGone
<1>13. ASSUME NEW d \in Drainers, PopEvent(d) PROVE CallTypeOK'
  BY <1>13 DEF PopEvent
<1>14. ASSUME NEW d \in Drainers, PopEmpty(d) PROVE CallTypeOK'
  BY <1>14 DEF PopEmpty
<1>15. ASSUME NEW d \in Drainers, SwapDropped(d) PROVE CallTypeOK'
  BY <1>15 DEF SwapDropped
<1>16. ASSUME NEW d \in Drainers, EndVisits(d) PROVE CallTypeOK'
  BY <1>16 DEF EndVisits
<1>17. ASSUME NEW d \in Drainers, Ingest(d) PROVE CallTypeOK'
  BY <1>17 DEF Ingest
<1>18. ASSUME NEW c \in Callers, NEW o \in {"snapshot", "reset"}, Call(c, o)
      PROVE  CallTypeOK'
  <2>1. \A t \in Threads : Returned(t) \in 0..EventsPerThread
    BY PipelineAssumption DEF TypeOK, ThreadTypeOK, RecordingAlive, Returned
  <2> QED
    BY <1>18, <2>1 DEF Call
<1>19. ASSUME NEW c \in Callers, ReadStats(c) PROVE CallTypeOK'
  BY <1>19, PipelineAssumption DEF ReadStats, Return, Nothing
<1>20. ASSUME NEW c \in Callers, ClearStats(c) PROVE CallTypeOK'
  <2>1. Nothing \in [Threads -> 0..EventsPerThread]
    BY PipelineAssumption DEF Nothing
  <2> QED
    BY <1>20, <2>1 DEF ClearStats, Return, Recorded
<1>21. CASE Poll
  BY <1>21 DEF Poll
<1>22. CASE Park
  BY <1>22 DEF Park
<1>23. CASE Timeout
  BY <1>23 DEF Timeout
<1>24. CASE UNCHANGED vars
  BY <1>24 DEF vars, vars
<1> QED
  BY <1>1, <1>2, <1>3, <1>4, <1>5, <1>6, <1>7, <1>8, <1>9, <1>10, <1>11,
     <1>12, <1>13, <1>14, <1>15, <1>16, <1>17, <1>18, <1>19, <1>20, <1>21,
     <1>22, <1>23, <1>24 DEF Next, StableNext, ProducerStep, CallerStep,
     WorkerStep, DrainStep, Drainers

LEMMA FlagType ==
  ASSUME TypeOK, [Next]_vars
  PROVE  (pendingFlush \in BOOLEAN)'
<1> USE DEF TypeOK
<1>1. ASSUME NEW t \in Threads, Record(t) PROVE (pendingFlush \in BOOLEAN)'
  BY <1>1 DEF Record
<1>2. ASSUME NEW t \in Threads, Register(t) PROVE (pendingFlush \in BOOLEAN)'
  BY <1>2 DEF Register
<1>3. ASSUME NEW t \in Threads, Push(t) PROVE (pendingFlush \in BOOLEAN)'
  BY <1>3 DEF Push
<1>4. ASSUME NEW t \in Threads, PushFull(t) PROVE (pendingFlush \in BOOLEAN)'
  BY <1>4 DEF PushFull
<1>5. ASSUME NEW t \in Threads, CheckLen(t) PROVE (pendingFlush \in BOOLEAN)'
  BY <1>5 DEF CheckLen
<1>6. ASSUME NEW t \in Threads, CountDrop(t) PROVE (pendingFlush \in BOOLEAN)'
  BY <1>6 DEF CountDrop
<1>7. ASSUME NEW t \in Threads, NotifyFlush(t)
      PROVE  (pendingFlush \in BOOLEAN)'
  BY <1>7 DEF NotifyFlush
<1>8. ASSUME NEW t \in Threads, Signal(t) PROVE (pendingFlush \in BOOLEAN)'
  BY <1>8 DEF Signal
<1>9. ASSUME NEW t \in Threads, Exit(t) PROVE (pendingFlush \in BOOLEAN)'
  BY <1>9 DEF Exit
<1>10. ASSUME NEW d \in Drainers, StartDrain(d)
      PROVE  (pendingFlush \in BOOLEAN)'
  BY <1>10 DEF StartDrain
<1>11. ASSUME NEW d \in Drainers, VisitLive(d)
      PROVE  (pendingFlush \in BOOLEAN)'
  BY <1>11 DEF VisitLive
<1>12. ASSUME NEW d \in Drainers, VisitGone(d)
      PROVE  (pendingFlush \in BOOLEAN)'
  BY <1>12 DEF VisitGone
<1>13. ASSUME NEW d \in Drainers, PopEvent(d) PROVE (pendingFlush \in BOOLEAN)'
  BY <1>13 DEF PopEvent
<1>14. ASSUME NEW d \in Drainers, PopEmpty(d) PROVE (pendingFlush \in BOOLEAN)'
  BY <1>14 DEF PopEmpty
<1>15. ASSUME NEW d \in Drainers, SwapDropped(d)
      PROVE  (pendingFlush \in BOOLEAN)'
  BY <1>15 DEF SwapDropped
<1>16. ASSUME NEW d \in Drainers, EndVisits(d)
      PROVE  (pendingFlush \in BOOLEAN)'
  BY <1>16 DEF EndVisits
<1>17. ASSUME NEW d \in Drainers, Ingest(d) PROVE (pendingFlush \in BOOLEAN)'
  BY <1>17 DEF Ingest
<1>18. ASSUME NEW c \in Callers, NEW o \in {"snapshot", "reset"}, Call(c, o)
      PROVE  (pendingFlush \in BOOLEAN)'
  BY <1>18 DEF Call
<1>19. ASSUME NEW c \in Callers, ReadStats(c) PROVE (pendingFlush \in BOOLEAN)'
  BY <1>19 DEF ReadStats
<1>20. ASSUME NEW c \in Callers, ClearStats(c)
      PROVE  (pendingFlush \in BOOLEAN)'
  BY <1>20 DEF ClearStats
<1>21. CASE Poll
  BY <1>21 DEF Poll
<1>22. CASE Park
  BY <1>22 DEF Park
<1>23. CASE Timeout
  BY <1>23 DEF Timeout
<1>24. CASE UNCHANGED vars
  BY <1>24 DEF vars, vars
<1> QED
  BY <1>1, <1>2, <1>3, <1>4, <1>5, <1>6, <1>7, <1>8, <1>9, <1>10, <1>11,
     <1>12, <1>13, <1>14, <1>15, <1>16, <1>17, <1>18, <1>19, <1>20, <1>21,
     <1>22, <1>23, <1>24 DEF Next, StableNext, ProducerStep, CallerStep,
     WorkerStep, DrainStep, Drainers

LEMMA VisitsStep ==
  ASSUME TypeOK, VisitsOrdered, [Next]_vars
  PROVE  VisitsOrdered'
<1> DrainTypeOK
  BY DEF TypeOK
<1> USE DEF DrainTypeOK
<1> USE DEF VisitsOrdered, Visiting, DrainerAt, drainVars
<1>1. ASSUME NEW t \in Threads, Record(t) PROVE VisitsOrdered'
  BY <1>1 DEF Record
<1>2. ASSUME NEW t \in Threads, Register(t) PROVE VisitsOrdered'
  BY <1>2 DEF Register, BuffersFree, ProducerAt
<1>3. ASSUME NEW t \in Threads, Push(t) PROVE VisitsOrdered'
  BY <1>3 DEF Push
<1>4. ASSUME NEW t \in Threads, PushFull(t) PROVE VisitsOrdered'
  BY <1>4 DEF PushFull
<1>5. ASSUME NEW t \in Threads, CheckLen(t) PROVE VisitsOrdered'
  BY <1>5 DEF CheckLen
<1>6. ASSUME NEW t \in Threads, CountDrop(t) PROVE VisitsOrdered'
  BY <1>6 DEF CountDrop
<1>7. ASSUME NEW t \in Threads, NotifyFlush(t) PROVE VisitsOrdered'
  BY <1>7 DEF NotifyFlush
<1>8. ASSUME NEW t \in Threads, Signal(t) PROVE VisitsOrdered'
  BY <1>8 DEF Signal, Drainers
<1>9. ASSUME NEW t \in Threads, Exit(t) PROVE VisitsOrdered'
  BY <1>9 DEF Exit
<1>10. ASSUME NEW d \in Drainers, StartDrain(d) PROVE VisitsOrdered'
  <2>1. \A c \in Drainers : dpc'[c] \in Visiting => c = d
    BY <1>10 DEF StartDrain, BuffersFree
  <2>2. AtEnd(buffers, buffers)
    BY AtEndWhole
  <2> QED
    BY <1>10, <2>1, <2>2 DEF StartDrain
<1>11. ASSUME NEW d \in Drainers, VisitLive(d) PROVE VisitsOrdered'
  BY <1>11 DEF VisitLive
<1>12. ASSUME NEW d \in Drainers, VisitGone(d) PROVE VisitsOrdered'
  <2>1. AtEnd(todo'[d], buffers')
    BY <1>12, AtEndRemove DEF VisitGone
  <2> QED
    BY <1>12, <2>1 DEF VisitGone
<1>13. ASSUME NEW d \in Drainers, PopEvent(d) PROVE VisitsOrdered'
  BY <1>13 DEF PopEvent
<1>14. ASSUME NEW d \in Drainers, PopEmpty(d) PROVE VisitsOrdered'
  BY <1>14 DEF PopEmpty
<1>15. ASSUME NEW d \in Drainers, SwapDropped(d) PROVE VisitsOrdered'
  <2>1. AtEnd(todo'[d], buffers')
    BY <1>15, AtEndTail DEF SwapDropped
  <2> QED
    BY <1>15, <2>1 DEF SwapDropped
<1>16. ASSUME NEW d \in Drainers, EndVisits(d) PROVE VisitsOrdered'
  BY <1>16 DEF EndVisits, AfterDrain, Drainers
<1>17. ASSUME NEW d \in Drainers, Ingest(d) PROVE VisitsOrdered'
  BY <1>17 DEF Ingest, AfterDrain, Drainers
<1>18. ASSUME NEW c \in Callers, NEW o \in {"snapshot", "reset"}, Call(c, o)
      PROVE  VisitsOrdered'
  BY <1>18 DEF Call, Drainers
<1>19. ASSUME NEW c \in Callers, ReadStats(c) PROVE VisitsOrdered'
  BY <1>19 DEF ReadStats, Return, Drainers
<1>20. ASSUME NEW c \in Callers, ClearStats(c) PROVE VisitsOrdered'
  BY <1>20 DEF ClearStats, Return, Drainers
<1>21. CASE Poll
  BY <1>21 DEF Poll, Drainers
<1>22. CASE Park
  BY <1>22 DEF Park, Drainers
<1>23. CASE Timeout
  BY <1>23 DEF Timeout, Drainers
<1>24. CASE UNCHANGED vars
  BY <1>24 DEF vars, vars
<1> QED
  BY <1>1, <1>2, <1>3, <1>4, <1>5, <1>6, <1>7, <1>8, <1>9, <1>10, <1>11,
     <1>12, <1>13, <1>14, <1>15, <1>16, <1>17, <1>18, <1>19, <1>20, <1>21,
     <1>22, <1>23, <1>24 DEF Next, StableNext, ProducerStep, CallerStep,
     WorkerStep, DrainStep, Drainers

\* The invariant that every later argument starts from.
Base == TypeOK /\ RecordingAlive /\ VisitsOrdered

LEMMA InitBase == Init => Base
<1> SUFFICES ASSUME Init PROVE Base
  OBVIOUS
<1>1. RecordingAlive
  BY DEF Init, RecordingAlive
<1>2. VisitsOrdered
  BY DEF Init, VisitsOrdered, Visiting
<1> QED
  BY <1>1, <1>2, InitTypeOK DEF Base

LEMMA BaseStep == Base /\ [Next]_vars => Base'
<1> SUFFICES ASSUME Base, [Next]_vars PROVE Base'
  OBVIOUS
<1>1. TypeOK /\ RecordingAlive /\ VisitsOrdered
  BY DEF Base
<1>2. ThreadTypeOK' /\ RecordingAlive'
  BY <1>1, ThreadTypes
<1>3. DrainTypeOK' /\ VisitsOrdered'
  BY <1>1, DrainTypes, VisitsStep
<1>4. StatTypeOK' /\ CallTypeOK'
  BY <1>1, StatTypes, CallTypes
<1>5. (pendingFlush \in BOOLEAN)'
  BY <1>1, FlagType
<1>6. QueueBounded'
  BY <1>1, QueueBoundStep
<1> QED
  BY <1>2, <1>3, <1>4, <1>5, <1>6 DEF Base, TypeOK

LEMMA SpecBase == Spec => []Base
BY InitBase, BaseStep, PTL DEF Spec

\* Every variable of the pipeline keeps its type.
THEOREM PipelineTypeOK == Spec => []TypeOK
<1>1. Base => TypeOK
  BY DEF Base
<1> QED
  BY <1>1, SpecBase, PTL

-----------------------------------------------------------------------------
(* Where an event is.                                                       *)

Hand(t, n) == ppc[t] \in {"register", "push"} /\ n = sent[t]

In(d, t, n) == <<t, n>> \in ToSet(batch[d])

\* OnePlace in the form that is inductive, for the n-th event of t.
Placed(t, n) ==
  LET q == n \in ToSet(queue[t])
      b == \E d \in Drainers : In(d, t, n)
      k == count[<<t, n>>]
      x == ended[<<t, n>>] # "no"
  IN  /\ n > sent[t] => ~q /\ ~b /\ k = 0 /\ ~x
      /\ Hand(t, n) => ~q /\ ~b /\ k = 0 /\ ~x
      /\ q => ~b /\ k = 0 /\ ~x
      /\ b => k = 0 /\ ~x
      /\ k > 0 => ~x
      /\ k <= 1
      /\ \A c, d \in Drainers : In(c, t, n) /\ In(d, t, n) => c = d
      /\ n <= sent[t] => Hand(t, n) \/ q \/ b \/ k > 0 \/ x

Sorted ==
  /\ \A t \in Threads : \A n \in 1..EventsPerThread : Placed(t, n)
  /\ \A t \in Threads : Distinct(queue[t])
  /\ \A d \in Drainers : Distinct(batch[d])
\* What Placed speaks of.
SameData == UNCHANGED <<sent, queue, batch, count, ended>>

SameHand ==
  \A t \in Threads : ppc'[t] \in {"register", "push"} <=> ppc[t] \in {"register", "push"}

LEMMA PlacesFrame ==
  ASSUME Sorted, SameData, SameHand
  PROVE  Sorted'
<1>1. ASSUME NEW t \in Threads, NEW n \in 1..EventsPerThread
      PROVE  Placed(t, n)'
  <2>1. Placed(t, n)
    BY DEF Sorted
  <2>2. Hand(t, n)' <=> Hand(t, n)
    BY DEF Hand, SameData, SameHand
  <2> QED
    BY <2>1, <2>2 DEF Placed, In, SameData
<1> QED
  BY <1>1 DEF Sorted, SameData

\* Steps that move no event.
LEMMA PlacesQuiet ==
  ASSUME Base, Sorted,
         \/ \E t \in Threads : \/ Register(t) \/ CheckLen(t) \/ CountDrop(t)
                               \/ NotifyFlush(t) \/ Signal(t)
         \/ \E d \in Drainers : \/ StartDrain(d) \/ VisitLive(d) \/ VisitGone(d)
                                \/ PopEmpty(d) \/ EndVisits(d)
         \/ \E c \in Callers : ReadStats(c) \/ \E o \in {"snapshot", "reset"} : Call(c, o)
         \/ Poll \/ Park \/ Timeout \/ UNCHANGED vars
  PROVE  Sorted'
<1> USE DEF SameData, SameHand
<1>0. ppc \in [Threads -> ProducerPC]
  BY DEF Base, TypeOK, ThreadTypeOK
<1>1. ASSUME NEW t \in Threads, Register(t) PROVE SameData /\ SameHand
  BY <1>0, <1>1 DEF Register, ProducerAt, drainVars, statVars, history
<1>2. ASSUME NEW t \in Threads, CheckLen(t) PROVE SameData /\ SameHand
  BY <1>0, <1>2 DEF CheckLen, ProducerAt, drainVars, statVars, history
<1>3. ASSUME NEW t \in Threads, CountDrop(t) PROVE SameData /\ SameHand
  BY <1>0, <1>3 DEF CountDrop, ProducerAt, drainVars, statVars, history
<1>4. ASSUME NEW t \in Threads, NotifyFlush(t) PROVE SameData /\ SameHand
  BY <1>0, <1>4 DEF NotifyFlush, ProducerAt, drainVars, statVars, history
<1>5. ASSUME NEW t \in Threads, Signal(t) PROVE SameData /\ SameHand
  BY <1>0, <1>5 DEF Signal, ProducerAt, drainVars, statVars, history
<1> USE DEF threadVars, statVars, history
<1>6. ASSUME NEW d \in Drainers, StartDrain(d) PROVE SameData /\ SameHand
  BY <1>6 DEF StartDrain
<1>7. ASSUME NEW d \in Drainers, VisitLive(d) PROVE SameData /\ SameHand
  BY <1>7 DEF VisitLive
<1>8. ASSUME NEW d \in Drainers, VisitGone(d) PROVE SameData /\ SameHand
  BY <1>8 DEF VisitGone
<1>9. ASSUME NEW d \in Drainers, PopEmpty(d) PROVE SameData /\ SameHand
  BY <1>9 DEF PopEmpty
<1>10. ASSUME NEW d \in Drainers, EndVisits(d) PROVE SameData /\ SameHand
  BY <1>10 DEF EndVisits
<1>11. ASSUME NEW c \in Callers, ReadStats(c) PROVE SameData /\ SameHand
  BY <1>11 DEF ReadStats
<1>12. ASSUME NEW c \in Callers, NEW o \in {"snapshot", "reset"}, Call(c, o)
       PROVE  SameData /\ SameHand
  BY <1>12 DEF Call
<1>13. ASSUME Poll PROVE SameData /\ SameHand
  BY <1>13 DEF Poll
<1>14. ASSUME Park PROVE SameData /\ SameHand
  BY <1>14 DEF Park
<1>15. ASSUME Timeout PROVE SameData /\ SameHand
  BY <1>15 DEF Timeout
<1>16. ASSUME UNCHANGED vars PROVE SameData /\ SameHand
  BY <1>16 DEF vars, drainVars
<1> QED
  BY <1>1, <1>2, <1>3, <1>4, <1>5, <1>6, <1>7, <1>8, <1>9, <1>10, <1>11,
     <1>12, <1>13, <1>14, <1>15, <1>16, PlacesFrame DEF SameData, SameHand

LEMMA PlacesRecord ==
  ASSUME Base, Sorted, NEW t \in Threads, Record(t)
  PROVE  Sorted'
<1>1. /\ ppc[t] = "idle" /\ sent' = [sent EXCEPT ![t] = @ + 1]
      /\ sent \in [Threads -> 0..EventsPerThread]
      /\ queue' = queue /\ batch' = batch /\ count' = count /\ ended' = ended
      /\ \A s \in Threads \ {t} : ppc'[s] = ppc[s]
  BY DEF Record, ProducerAt, Base, TypeOK, ThreadTypeOK, drainVars, statVars,
         history
<1>2. ASSUME NEW s \in Threads, NEW n \in 1..EventsPerThread
      PROVE  Placed(s, n)'
  <2>1. Placed(s, n)
    BY DEF Sorted
  <2>2. CASE s # t
    BY <1>1, <2>1, <2>2 DEF Placed, Hand, In
  <2>3. CASE s = t /\ n = sent[t] + 1
    <3>1. n > sent[s]
      BY <1>1, <2>3
    <3>2. sent'[s] = n
      BY <1>1, <2>3
    <3>3. ppc'[t] \in {"register", "push"}
      BY DEF Record, ProducerAt, Base, TypeOK, ThreadTypeOK
    <3> QED
      BY <1>1, <2>1, <2>3, <3>1, <3>2, <3>3 DEF Placed, Hand, In
  <2>4. CASE s = t /\ n # sent[t] + 1
    <3>1. /\ ~Hand(s, n) /\ ~Hand(s, n)'
          /\ n <= sent'[s] => n <= sent[s]
          /\ n > sent'[s] => n > sent[s]
      BY <1>1, <2>4 DEF Hand
    <3> QED
      BY <1>1, <2>1, <3>1 DEF Placed, In
  <2> QED
    BY <2>2, <2>3, <2>4
<1> QED
  BY <1>1, <1>2 DEF Sorted

LEMMA PlacesPush ==
  ASSUME Base, Sorted, NEW t \in Threads, Push(t)
  PROVE  Sorted'
<1>1. /\ ppc[t] = "push" /\ ppc'[t] = "len"
      /\ queue' = [queue EXCEPT ![t] = Append(queue[t], sent[t])]
      /\ sent' = sent /\ batch' = batch /\ count' = count /\ ended' = ended
      /\ \A s \in Threads \ {t} : ppc'[s] = ppc[s]
  BY DEF Push, ProducerAt, Base, TypeOK, ThreadTypeOK, drainVars, statVars,
         history
<1>2. queue \in [Threads -> Seq(1..EventsPerThread)]
  BY DEF Base, TypeOK, ThreadTypeOK
<1>3. sent[t] \in 1..EventsPerThread
  BY <1>1 DEF Base, TypeOK, ThreadTypeOK, RecordingAlive
<1>4. Placed(t, sent[t]) /\ Hand(t, sent[t])
  BY <1>1, <1>3 DEF Sorted, Hand
<1>5. sent[t] \notin ToSet(queue[t])
  BY <1>4 DEF Placed
<1>6. ToSet(queue'[t]) = ToSet(queue[t]) \cup {sent[t]}
  <2> DEFINE Numbers == 1..EventsPerThread
  <2>1. queue'[t] = Append(queue[t], sent[t])
    BY <1>1, <1>2
  <2>2. queue[t] \in Seq(Numbers) /\ sent[t] \in Numbers
    BY <1>2, <1>3
  <2> HIDE DEF Numbers
  <2> QED
    BY <2>1, <2>2, ToSetAppend
<1>7. Distinct(queue'[t])
  BY <1>1, <1>2, <1>3, <1>5, DistinctAppend DEF Sorted
<1>8. \A s \in Threads \ {t} : queue'[s] = queue[s]
  BY <1>1, <1>2
<1>9. ASSUME NEW s \in Threads, NEW n \in 1..EventsPerThread
      PROVE  Placed(s, n)'
  <2>1. Placed(s, n)
    BY DEF Sorted
  <2>2. CASE s # t
    BY <1>1, <1>8, <2>1, <2>2 DEF Placed, Hand, In
  <2>3. CASE s = t /\ n = sent[t]
    <3>1. n \in ToSet(queue'[s]) /\ ~Hand(s, n)'
      BY <1>1, <1>6, <2>3 DEF Hand
    <3>2. ~(n > sent'[s])
      BY <1>1, <1>3, <2>3
    <3> QED
      BY <1>1, <1>4, <2>1, <2>3, <3>1, <3>2 DEF Placed, In
  <2>4. CASE s = t /\ n # sent[t]
    <3>1. /\ ~Hand(s, n) /\ ~Hand(s, n)'
          /\ n \in ToSet(queue'[s]) <=> n \in ToSet(queue[s])
      BY <1>1, <1>6, <2>4 DEF Hand
    <3> QED
      BY <1>1, <2>1, <3>1 DEF Placed, In
  <2> QED
    BY <2>2, <2>3, <2>4
<1> QED
  BY <1>1, <1>7, <1>8, <1>9 DEF Sorted

LEMMA PlacesPushFull ==
  ASSUME Base, Sorted, NEW t \in Threads, PushFull(t)
  PROVE  Sorted'
<1>1. /\ ppc[t] = "push" /\ ppc'[t] = "drop"
      /\ ended' = [e \in Events |-> IF e = <<t, sent[t]>> THEN "rejected" ELSE ended[e]]
      /\ sent' = sent /\ queue' = queue /\ batch' = batch /\ count' = count
      /\ \A s \in Threads \ {t} : ppc'[s] = ppc[s]
  BY DEF PushFull, End, ProducerAt, Base, TypeOK, ThreadTypeOK, drainVars, statVars
<1>2. sent[t] \in 1..EventsPerThread
  BY <1>1 DEF Base, TypeOK, ThreadTypeOK, RecordingAlive
<1>3. ASSUME NEW s \in Threads, NEW n \in 1..EventsPerThread
      PROVE  Placed(s, n)'
  <2>1. Placed(s, n) /\ <<s, n>> \in Events
    BY DEF Sorted, Events
  <2>2. CASE s = t /\ n = sent[t]
    <3>1. Hand(s, n) /\ ~Hand(s, n)' /\ ended'[<<s, n>>] = "rejected"
      BY <1>1, <2>1, <2>2 DEF Hand
    <3>2. ~(n > sent'[s])
      BY <1>1, <1>2, <2>2
    <3> QED
      BY <1>1, <2>1, <3>1, <3>2 DEF Placed, In
  <2>3. CASE ~(s = t /\ n = sent[t])
    <3>1. Hand(s, n)' <=> Hand(s, n)
      BY <1>1, <2>3 DEF Hand
    <3>2. ended'[<<s, n>>] = ended[<<s, n>>]
      BY <1>1, <2>1, <2>3
    <3> QED
      BY <1>1, <2>1, <3>1, <3>2 DEF Placed, In
  <2> QED
    BY <2>2, <2>3
<1> QED
  BY <1>1, <1>3 DEF Sorted

LEMMA PlacesFree ==
  ASSUME Base, Sorted, NEW t \in Threads, FreeBuffer(t),
         UNCHANGED <<ppc, sent, batch, count>>
  PROVE  Sorted'
<1>1. /\ queue' = [queue EXCEPT ![t] = <<>>]
      /\ queue \in [Threads -> Seq(1..EventsPerThread)]
  BY DEF FreeBuffer, Base, TypeOK, ThreadTypeOK
<1>2. ASSUME NEW s \in Threads, NEW n \in 1..EventsPerThread
      PROVE  Placed(s, n)'
  <2>1. Placed(s, n) /\ <<s, n>> \in Events
    BY DEF Sorted, Events
  <2>2. Hand(s, n)' <=> Hand(s, n)
    BY DEF Hand
  <2>3. CASE s = t /\ n \in ToSet(queue[t])
    <3>1. n \notin ToSet(queue'[s])
      BY <1>1, <2>3, ToSetEmpty
    <3>2. ended'[<<s, n>>] = "lost"
      BY <2>1, <2>3 DEF FreeBuffer, End
    <3> QED
      BY <2>1, <2>2, <2>3, <3>1, <3>2 DEF Placed, In
  <2>4. CASE ~(s = t /\ n \in ToSet(queue[t]))
    <3>1. n \in ToSet(queue'[s]) <=> n \in ToSet(queue[s])
      BY <1>1, <2>4, ToSetEmpty
    <3>2. ended'[<<s, n>>] = ended[<<s, n>>]
      BY <2>1, <2>4 DEF FreeBuffer, End
    <3> QED
      BY <2>1, <2>2, <3>1, <3>2 DEF Placed, In
  <2> QED
    BY <2>3, <2>4
<1>3. \A s \in Threads : Distinct(queue'[s])
  BY <1>1, ToSetEmpty DEF Sorted
<1> QED
  BY <1>2, <1>3 DEF Sorted

LEMMA PlacesExit ==
  ASSUME Base, Sorted, NEW t \in Threads, Exit(t)
  PROVE  Sorted'
<1>1. CASE \E d \in Drainers : Upgraded(d, t)
  <2>1. SameData /\ SameHand
    BY <1>1 DEF Exit, SameData, SameHand, drainVars, statVars
  <2> QED
    BY <2>1, PlacesFrame
<1>2. CASE ~\E d \in Drainers : Upgraded(d, t)
  BY <1>2, PlacesFree DEF Exit, drainVars, statVars
<1> QED
  BY <1>1, <1>2

LEMMA PlacesSwap ==
  ASSUME Base, Sorted, NEW d \in Drainers, SwapDropped(d)
  PROVE  Sorted'
<1>1. Head(todo[d]) \in Threads
  BY Visited DEF Base, TypeOK, SwapDropped, DrainerAt
<1>2. CASE Head(todo[d]) \in alive
  <2>1. SameData /\ SameHand
    BY <1>2 DEF SwapDropped, SameData, SameHand, statVars
  <2> QED
    BY <2>1, PlacesFrame
<1>3. CASE Head(todo[d]) \notin alive
  BY <1>1, <1>3, PlacesFree DEF SwapDropped, statVars
<1> QED
  BY <1>2, <1>3

LEMMA PlacesPop ==
  ASSUME Base, Sorted, NEW d \in Drainers, PopEvent(d)
  PROVE  Sorted'
<1> DEFINE t == Head(todo[d])
           m == Head(queue[t])
<1>1. t \in Threads
  BY Visited DEF Base, TypeOK, PopEvent
<1>2. /\ queue \in [Threads -> Seq(1..EventsPerThread)] /\ queue[t] # <<>>
      /\ queue' = [queue EXCEPT ![t] = Tail(queue[t])]
      /\ batch \in [Drainers -> Seq(Events)]
      /\ batch' = [batch EXCEPT ![d] = Append(batch[d], <<t, m>>)]
  BY <1>1 DEF Base, TypeOK, ThreadTypeOK, DrainTypeOK, PopEvent
<1>3. ppc' = ppc /\ sent' = sent /\ count' = count /\ ended' = ended
  BY DEF PopEvent, statVars, history
<1> HIDE DEF t
<1>4. /\ m \in 1..EventsPerThread
      /\ ToSet(queue[t]) = ToSet(Tail(queue[t])) \cup {m}
  BY <1>1, <1>2, ToSetTail
<1>5. Distinct(Tail(queue[t])) /\ m \notin ToSet(Tail(queue[t]))
  BY <1>1, <1>2, DistinctTail DEF Sorted
<1> HIDE DEF m
<1>6. <<t, m>> \in Events /\ Placed(t, m) /\ m \in ToSet(queue[t])
  BY <1>1, <1>4 DEF Events, Sorted
<1>7. \A c \in Drainers : ~In(c, t, m)
  BY <1>6 DEF Placed
<1>8. ToSet(batch'[d]) = ToSet(batch[d]) \cup {<<t, m>>}
  <2>1. batch'[d] = Append(batch[d], <<t, m>>)
    BY <1>2
  <2> QED
    BY <1>2, <1>6, <2>1, ToSetAppend
<1>9. Distinct(batch'[d])
  BY <1>2, <1>6, <1>7, DistinctAppend DEF In, Sorted
<1>10. ASSUME NEW s \in Threads, NEW n \in 1..EventsPerThread
       PROVE  Placed(s, n)'
  <2>1. Placed(s, n)
    BY DEF Sorted
  <2>2. Hand(s, n)' <=> Hand(s, n)
    BY <1>3 DEF Hand
  <2>3. CASE s = t /\ n = m
    <3>1. n \notin ToSet(queue'[s])
      BY <1>1, <1>2, <1>5, <2>3
    <3>2. \A c \in Drainers : In(c, s, n)' <=> c = d
      BY <1>2, <1>7, <1>8, <2>3 DEF In
    <3> QED
      BY <1>3, <1>6, <2>2, <2>3, <3>1, <3>2 DEF Placed
  <2>4. CASE ~(s = t /\ n = m)
    <3>1. n \in ToSet(queue'[s]) <=> n \in ToSet(queue[s])
      BY <1>1, <1>2, <1>4, <2>4
    <3>2. \A c \in Drainers : In(c, s, n)' <=> In(c, s, n)
      BY <1>2, <1>8, <2>4 DEF In
    <3> QED
      BY <1>3, <2>1, <2>2, <3>1, <3>2 DEF Placed
  <2> QED
    BY <2>3, <2>4
<1>11. \A s \in Threads : Distinct(queue'[s])
  BY <1>1, <1>2, <1>5 DEF Sorted
<1>12. \A c \in Drainers : Distinct(batch'[c])
  BY <1>2, <1>9 DEF Sorted
<1> QED
  BY <1>10, <1>11, <1>12 DEF Sorted

LEMMA PlacesIngest ==
  ASSUME Base, Sorted, NEW d \in Drainers, Ingest(d)
  PROVE  Sorted'
<1>1. /\ batch \in [Drainers -> Seq(Events)] /\ count \in [Events -> Nat]
      /\ batch' = [batch EXCEPT ![d] = <<>>]
      /\ count' = [e \in Events |-> count[e] + Occurrences(e, batch[d])]
      /\ ppc' = ppc /\ sent' = sent /\ queue' = queue /\ ended' = ended
  BY DEF Base, TypeOK, DrainTypeOK, StatTypeOK, Ingest, threadVars, history
<1>2. \A e : Occurrences(e, batch[d]) = IF e \in ToSet(batch[d]) THEN 1 ELSE 0
  BY <1>1, OccurrencesDistinct DEF Sorted
<1>3. ASSUME NEW s \in Threads, NEW n \in 1..EventsPerThread
      PROVE  Placed(s, n)'
  <2>1. Placed(s, n) /\ <<s, n>> \in Events /\ count[<<s, n>>] \in Nat
    BY <1>1 DEF Sorted, Events
  <2>2. Hand(s, n)' <=> Hand(s, n)
    BY <1>1 DEF Hand
  <2>3. count'[<<s, n>>] = count[<<s, n>>] + IF In(d, s, n) THEN 1 ELSE 0
    BY <1>1, <1>2, <2>1 DEF In
  <2>4. \A c \in Drainers : In(c, s, n)' <=> c # d /\ In(c, s, n)
    BY <1>1, ToSetEmpty DEF In
  <2>5. CASE In(d, s, n)
    <3>1. count[<<s, n>>] = 0 /\ count'[<<s, n>>] = 1
      BY <2>1, <2>3, <2>5 DEF Placed
    <3>2. \A c \in Drainers : ~In(c, s, n)'
      BY <2>1, <2>4, <2>5 DEF Placed
    <3> QED
      BY <1>1, <2>1, <2>2, <2>5, <3>1, <3>2 DEF Placed
  <2>6. CASE ~In(d, s, n)
    <3>1. count'[<<s, n>>] = count[<<s, n>>]
      BY <2>1, <2>3, <2>6
    <3>2. \A c \in Drainers : In(c, s, n)' <=> In(c, s, n)
      BY <2>4, <2>6
    <3> QED
      BY <1>1, <2>1, <2>2, <3>1, <3>2 DEF Placed
  <2> QED
    BY <2>5, <2>6
<1>4. \A c \in Drainers : Distinct(batch'[c])
  BY <1>1, ToSetEmpty DEF Sorted
<1> QED
  BY <1>1, <1>3, <1>4 DEF Sorted

LEMMA PlacesClear ==
  ASSUME Base, Sorted, NEW c \in Callers, ClearStats(c)
  PROVE  Sorted'
<1>1. /\ count \in [Events -> Nat] /\ count' = [e \in Events |-> 0]
      /\ ended' = [e \in Events |-> IF count[e] > 0 THEN "cleared" ELSE ended[e]]
      /\ ppc' = ppc /\ sent' = sent /\ queue' = queue /\ batch' = batch
  BY DEF Base, TypeOK, StatTypeOK, ClearStats, End, threadVars
<1>2. ASSUME NEW s \in Threads, NEW n \in 1..EventsPerThread
      PROVE  Placed(s, n)'
  <2>1. Placed(s, n) /\ <<s, n>> \in Events /\ count[<<s, n>>] \in Nat
    BY <1>1 DEF Sorted, Events
  <2>2. Hand(s, n)' <=> Hand(s, n)
    BY <1>1 DEF Hand
  <2>3. /\ count'[<<s, n>>] = 0
        /\ ended'[<<s, n>>] = IF count[<<s, n>>] > 0 THEN "cleared" ELSE ended[<<s, n>>]
    BY <1>1, <2>1
  <2> QED
    BY <1>1, <2>1, <2>2, <2>3 DEF Placed, In
<1> QED
  BY <1>1, <1>2 DEF Sorted

LEMMA InitPlaces == Init => Sorted
<1> SUFFICES ASSUME Init PROVE Sorted
  OBVIOUS
<1>1. \A t \in Threads : queue[t] = <<>> /\ sent[t] = 0 /\ ppc[t] = "idle"
  BY DEF Init, Nothing
<1>2. \A d \in Drainers : batch[d] = <<>>
  BY DEF Init
<1>3. \A t \in Threads : \A n \in 1..EventsPerThread :
        count[<<t, n>>] = 0 /\ ended[<<t, n>>] = "no"
  BY DEF Init, Events
<1>4. ASSUME NEW t \in Threads, NEW n \in 1..EventsPerThread PROVE Placed(t, n)
  BY <1>1, <1>2, <1>3, ToSetEmpty DEF Placed, Hand, In
<1> QED
  BY <1>1, <1>2, <1>4, ToSetEmpty DEF Sorted

LEMMA PlacesStep == Base /\ Sorted /\ [Next]_vars => Sorted'
BY PlacesQuiet, PlacesRecord, PlacesPush, PlacesPushFull, PlacesExit,
   PlacesSwap, PlacesPop, PlacesIngest, PlacesClear
DEF Next, StableNext, ProducerStep, CallerStep, WorkerStep, DrainStep, Drainers

\* Sorted is OnePlace and more.
LEMMA PlacesOnePlace == Base /\ Sorted => OnePlace
<1> SUFFICES ASSUME Base, Sorted, NEW e \in Events
             PROVE  /\ IF e[2] <= sent[e[1]] THEN \E p \in Place : Places(e) = {p}
                                             ELSE Places(e) = {}
                    /\ count[e] <= 1
                    /\ \A c, d \in Drainers :
                         e \in ToSet(batch[c]) /\ e \in ToSet(batch[d]) => c = d
  BY DEF OnePlace
<1>1. PICK t \in Threads, n \in 1..EventsPerThread : e = <<t, n>>
  BY DEF Events
<1>2. Placed(t, n)
  BY DEF Sorted
<1>3. /\ InHand(e) <=> Hand(t, n)
      /\ Queued(e) <=> n \in ToSet(queue[t])
      /\ Batched(e) <=> \E d \in Drainers : In(d, t, n)
      /\ e[1] = t /\ e[2] = n
  BY <1>1 DEF InHand, Hand, Queued, Batched, In
<1>4. count[e] \in Nat /\ sent[t] \in Nat
  BY DEF Base, TypeOK, StatTypeOK, ThreadTypeOK
<1>5. Hand(t, n) => n <= sent[t]
  BY <1>4 DEF Hand
<1>6. CASE n > sent[t]
  BY <1>1, <1>2, <1>3, <1>4, <1>5, <1>6 DEF Placed, Places, In
<1>7. CASE n <= sent[t]
  <2>1. CASE Hand(t, n)
    <3>1. Places(e) = {"hand"}
      BY <1>1, <1>2, <1>3, <1>4, <2>1 DEF Placed, Places, Place
    <3> QED
      BY <1>1, <1>2, <1>3, <1>7, <3>1 DEF Placed, Place, In
  <2>2. CASE Queued(e)
    <3>1. Places(e) = {"queue"}
      BY <1>1, <1>2, <1>3, <1>4, <2>2 DEF Placed, Places, Place
    <3> QED
      BY <1>1, <1>2, <1>3, <1>7, <3>1 DEF Placed, Place, In
  <2>3. CASE Batched(e)
    <3>1. Places(e) = {"batch"}
      BY <1>1, <1>2, <1>3, <1>4, <2>3 DEF Placed, Places, Place
    <3> QED
      BY <1>1, <1>2, <1>3, <1>7, <3>1 DEF Placed, Place, In
  <2>4. CASE count[e] > 0
    <3>1. Places(e) = {"stats"}
      BY <1>1, <1>2, <1>3, <1>4, <2>4 DEF Placed, Places, Place
    <3> QED
      BY <1>1, <1>2, <1>3, <1>7, <3>1 DEF Placed, Place, In
  <2>5. CASE ended[e] # "no"
    <3>1. Places(e) = {"ended"}
      BY <1>1, <1>2, <1>3, <1>4, <2>5 DEF Placed, Places, Place
    <3> QED
      BY <1>1, <1>2, <1>3, <1>7, <3>1 DEF Placed, Place, In
  <2> QED
    BY <1>1, <1>2, <1>3, <1>7, <2>1, <2>2, <2>3, <2>4, <2>5 DEF Placed
<1> QED
  BY <1>4, <1>6, <1>7

LEMMA SpecPlaces == Spec => [](Base /\ Sorted)
BY InitBase, BaseStep, InitPlaces, PlacesStep, PTL DEF Spec

\* No event is counted twice, and none disappears without a reason, however
\* the drains of the worker, of snapshots and of resets interleave.
THEOREM PipelineOnePlace == Spec => []OnePlace
BY SpecPlaces, PlacesOnePlace, PTL

-----------------------------------------------------------------------------
(* What a drain has still to visit.                                         *)

\* A buffer with events is registered, and outlives its thread only in the
\* hands of a drain.
Registered ==
  /\ \A t \in Threads :
       queue[t] # <<>> \/ ppc[t] \notin {"idle", "register"} => t \in ToSet(buffers)
  /\ \A t \in Threads :
       queue[t] # <<>> => t \in alive \/ \E d \in Drainers : Upgraded(d, t)

\* The drain d has not yet emptied t's buffer.
Ahead(d, t) ==
  \/ dpc[d] = "start"
  \/ dpc[d] \in {"visit", "pop"} /\ t \in ToSet(todo[d])
  \/ dpc[d] = "swap" /\ t \in ToSet(Tail(todo[d]))

\* The kinds of step, by who takes it.
LEMMA StepCases ==
  ASSUME [Next]_vars
  PROVE  \/ \E t \in Threads : \/ Record(t) \/ Register(t) \/ Push(t) \/ PushFull(t)
                               \/ CheckLen(t) \/ CountDrop(t) \/ NotifyFlush(t)
                               \/ Signal(t) \/ Exit(t)
         \/ \E d \in Drainers : \/ StartDrain(d) \/ VisitLive(d) \/ VisitGone(d)
                                \/ PopEvent(d) \/ PopEmpty(d) \/ SwapDropped(d)
                                \/ EndVisits(d) \/ Ingest(d)
         \/ \E c \in Callers : \/ ReadStats(c) \/ ClearStats(c)
                               \/ \E o \in {"snapshot", "reset"} : Call(c, o)
         \/ Poll \/ Park \/ Timeout \/ UNCHANGED vars
BY DEF Next, StableNext, ProducerStep, CallerStep, WorkerStep, DrainStep, Drainers

\* An event comes into the queue by a push and in no other way, and an empty
\* queue stays empty without one.
LEMMA QueueStep ==
  ASSUME Base, [Next]_vars, NEW t \in Threads
  PROVE  \/ Push(t)
         \/ queue'[t] = queue[t]
         \/ queue'[t] = <<>>
         \/ \E d \in Drainers :
              PopEvent(d) /\ t = Head(todo[d]) /\ queue[t] # <<>> /\ queue'[t] = Tail(queue[t])
<1>1. queue \in [Threads -> Seq(1..EventsPerThread)]
  BY DEF Base, TypeOK, ThreadTypeOK
<1>2. ASSUME NEW s \in Threads,
             \/ Record(s) \/ Register(s) \/ PushFull(s) \/ CheckLen(s) \/ CountDrop(s)
             \/ NotifyFlush(s) \/ Signal(s)
      PROVE  queue' = queue
  BY <1>2 DEF Record, Register, PushFull, CheckLen, CountDrop, NotifyFlush, Signal
<1>3. ASSUME NEW s \in Threads, Push(s) PROVE Push(t) \/ queue'[t] = queue[t]
  BY <1>1, <1>3 DEF Push
<1>4. ASSUME NEW s \in Threads, Exit(s) PROVE queue'[t] = queue[t] \/ queue'[t] = <<>>
  BY <1>1, <1>4 DEF Exit, FreeBuffer
<1>5. ASSUME NEW d \in Drainers,
             \/ StartDrain(d) \/ VisitLive(d) \/ VisitGone(d) \/ PopEmpty(d)
             \/ EndVisits(d) \/ Ingest(d)
      PROVE  queue' = queue
  BY <1>5 DEF StartDrain, VisitLive, VisitGone, PopEmpty, EndVisits, Ingest, threadVars
<1>6. ASSUME NEW d \in Drainers, PopEvent(d)
      PROVE  \/ queue'[t] = queue[t]
             \/ t = Head(todo[d]) /\ queue[t] # <<>> /\ queue'[t] = Tail(queue[t])
  BY <1>1, <1>6 DEF PopEvent
<1>7. ASSUME NEW d \in Drainers, SwapDropped(d)
      PROVE  queue'[t] = queue[t] \/ queue'[t] = <<>>
  BY <1>1, <1>7 DEF SwapDropped, FreeBuffer
<1>8. ASSUME NEW c \in Callers,
             ReadStats(c) \/ ClearStats(c) \/ \E o \in {"snapshot", "reset"} : Call(c, o)
      PROVE  queue' = queue
  BY <1>8 DEF ReadStats, ClearStats, Call, threadVars
<1>9. CASE Poll \/ Park \/ Timeout \/ UNCHANGED vars
  BY <1>9 DEF Poll, Park, Timeout, vars, threadVars
<1> QED
  BY <1>2, <1>3, <1>4, <1>5, <1>6, <1>7, <1>8, <1>9, StepCases

LEMMA InQueue ==
  ASSUME Base, [Next]_vars, NEW t \in Threads, NEW n \in ToSet(queue'[t])
  PROVE  n \in ToSet(queue[t]) \/ (Push(t) /\ n = sent[t])
<1> DEFINE Numbers == 1..EventsPerThread
<1>1. queue \in [Threads -> Seq(Numbers)] /\ sent \in [Threads -> 0..EventsPerThread]
  BY DEF Base, TypeOK, ThreadTypeOK
<1>2. CASE Push(t)
  <2>1. queue'[t] = Append(queue[t], sent[t])
    BY <1>1, <1>2 DEF Push
  <2>2. sent[t] \in Numbers
    BY <1>1, <1>2 DEF Base, RecordingAlive, Push, ProducerAt
  <2>3. queue[t] \in Seq(Numbers)
    BY <1>1
  <2> HIDE DEF Numbers
  <2>4. ToSet(queue'[t]) = ToSet(queue[t]) \cup {sent[t]}
    BY <2>1, <2>2, <2>3, ToSetAppend
  <2> QED
    BY <1>2, <2>4
<1>3. CASE queue[t] # <<>> /\ queue'[t] = Tail(queue[t])
  <2>1. queue[t] \in Seq(Numbers)
    BY <1>1
  <2> HIDE DEF Numbers
  <2>2. ToSet(queue[t]) = ToSet(queue'[t]) \cup {Head(queue[t])}
    BY <1>3, <2>1, ToSetTail
  <2> QED
    BY <2>2
<1>4. CASE queue'[t] = <<>>
  BY <1>4, ToSetEmpty
<1> QED
  <2>1. CASE queue'[t] = queue[t]
    BY <2>1
  <2> QED
    BY <1>2, <1>3, <1>4, <2>1, QueueStep

\* A drain that has t's buffer ahead still has it after a step, if there is
\* anything in it.
LEMMA AheadStep ==
  ASSUME Base, Registered, [Next]_vars, NEW d \in Drainers, NEW t \in Threads,
         Ahead(d, t), queue[t] # <<>>
  PROVE  Ahead(d, t)'
<1>1. /\ dpc \in [Drainers -> DrainerPC] /\ todo \in [Drainers -> Seq(Threads)]
      /\ VisitsOrdered
  BY DEF Base, TypeOK, DrainTypeOK
<1>2. CASE dpc'[d] = dpc[d] /\ todo'[d] = todo[d]
  BY <1>2 DEF Ahead
<1>3. ASSUME NEW s \in Threads,
             \/ Record(s) \/ Register(s) \/ Push(s) \/ PushFull(s) \/ CheckLen(s)
             \/ CountDrop(s) \/ NotifyFlush(s) \/ Exit(s)
      PROVE  dpc'[d] = dpc[d] /\ todo'[d] = todo[d]
  BY <1>3 DEF Record, Register, Push, PushFull, CheckLen, CountDrop, NotifyFlush, Exit,
              drainVars
<1>4. ASSUME NEW s \in Threads, Signal(s) PROVE Ahead(d, t)'
  <2>1. todo' = todo /\ dpc[d] # "parked"
    BY <1>4 DEF Signal, Ahead
  <2>2. dpc'[d] = dpc[d]
    BY <1>1, <1>4, <2>1 DEF Signal, Drainers
  <2> QED
    BY <1>2, <2>1, <2>2
<1>5. ASSUME NEW c \in Drainers \ {d},
             \/ StartDrain(c) \/ VisitLive(c) \/ VisitGone(c) \/ PopEvent(c) \/ PopEmpty(c)
             \/ SwapDropped(c) \/ EndVisits(c) \/ Ingest(c)
      PROVE  dpc'[d] = dpc[d] /\ todo'[d] = todo[d]
  BY <1>1, <1>5 DEF StartDrain, VisitLive, VisitGone, PopEvent, PopEmpty, SwapDropped,
                    EndVisits, Ingest, DrainerAt
<1>6. CASE StartDrain(d)
  BY <1>1, <1>6 DEF StartDrain, DrainerAt, Ahead, Registered
<1>7. CASE VisitLive(d)
  BY <1>1, <1>7 DEF VisitLive, DrainerAt, Ahead
<1>8. CASE VisitGone(d)
  <2>1. todo[d] # <<>> /\ todo'[d] = Tail(todo[d]) /\ dpc' = dpc /\ dpc[d] = "visit"
    BY <1>1, <1>8 DEF VisitGone
  <2>2. Head(todo[d]) # t
    BY <1>1, <1>8 DEF VisitGone, Registered, VisitsOrdered, Visiting, Upgraded
  <2>3. t \in ToSet(Tail(todo[d]))
    BY <1>1, <2>1, <2>2, ToSetTail DEF Ahead
  <2> QED
    BY <2>1, <2>3 DEF Ahead
<1>9. CASE PopEvent(d)
  BY <1>2, <1>9 DEF PopEvent
<1>10. CASE PopEmpty(d)
  <2>1. /\ todo' = todo /\ dpc[d] = "pop" /\ dpc'[d] = "swap" /\ Head(todo[d]) # t
    BY <1>1, <1>10 DEF PopEmpty, DrainerAt
  <2>2. todo[d] # <<>>
    BY <1>1, <2>1 DEF VisitsOrdered
  <2>3. t \in ToSet(Tail(todo[d]))
    BY <1>1, <2>1, <2>2, ToSetTail DEF Ahead
  <2> QED
    BY <2>1, <2>3 DEF Ahead
<1>11. CASE SwapDropped(d)
  BY <1>1, <1>11 DEF SwapDropped, DrainerAt, Ahead
<1>12. CASE EndVisits(d) \/ Ingest(d)
  BY <1>12, ToSetEmpty DEF EndVisits, Ingest, DrainerAt, Ahead
<1>13. ASSUME NEW c \in Callers,
              ReadStats(c) \/ ClearStats(c) \/ \E o \in {"snapshot", "reset"} : Call(c, o)
       PROVE  dpc'[d] = dpc[d] /\ todo'[d] = todo[d]
  BY <1>1, <1>13 DEF ReadStats, ClearStats, Call, Return, DrainerAt, Ahead
<1>14. CASE Poll \/ Park \/ Timeout
  BY <1>1, <1>14 DEF Poll, Park, Timeout, DrainerAt, Ahead
<1>15. CASE UNCHANGED vars
  BY <1>2, <1>15 DEF vars, drainVars
<1> QED
  BY <1>2, <1>3, <1>4, <1>5, <1>6, <1>7, <1>8, <1>9, <1>10, <1>11, <1>12,
     <1>13, <1>14, <1>15, StepCases
LEMMA InitRegistered == Init => Registered
BY DEF Init, Registered

LEMMA RegisteredStep ==
  ASSUME Base, Registered, [Next]_vars
  PROVE  Registered'
<1>1. /\ ppc \in [Threads -> ProducerPC] /\ queue \in [Threads -> Seq(1..EventsPerThread)]
      /\ dpc \in [Drainers -> DrainerPC] /\ todo \in [Drainers -> Seq(Threads)]
      /\ buffers \in Seq(Threads)
      /\ VisitsOrdered /\ RecordingAlive
  BY DEF Base, TypeOK, ThreadTypeOK, DrainTypeOK
<1>2. ASSUME NEW t \in Threads, Record(t) PROVE Registered'
  BY <1>1, <1>2 DEF Record, ProducerAt, Registered, Upgraded, drainVars
<1>3. ASSUME NEW t \in Threads, Register(t) PROVE Registered'
  <2>1. ToSet(buffers') = ToSet(buffers) \cup {t}
    BY <1>1, <1>3, ToSetAppend DEF Register
  <2> QED
    BY <1>1, <1>3, <2>1 DEF Register, ProducerAt, Registered, Upgraded, drainVars
<1>4. ASSUME NEW t \in Threads, Push(t) PROVE Registered'
  BY <1>1, <1>4 DEF Push, ProducerAt, Registered, RecordingAlive, Upgraded, drainVars
<1>5. ASSUME NEW t \in Threads, PushFull(t) \/ CheckLen(t) \/ CountDrop(t) \/ NotifyFlush(t)
      PROVE  Registered'
  BY <1>1, <1>5 DEF PushFull, CheckLen, CountDrop, NotifyFlush, ProducerAt, Registered,
                    Upgraded, drainVars
<1>6. ASSUME NEW t \in Threads, Signal(t) PROVE Registered'
  BY <1>1, <1>6 DEF Signal, ProducerAt, Registered, Upgraded
<1>7. ASSUME NEW t \in Threads, Exit(t) PROVE Registered'
  BY <1>1, <1>7 DEF Exit, FreeBuffer, Registered, Upgraded, drainVars
<1>8. ASSUME NEW d \in Drainers, StartDrain(d) \/ VisitLive(d) \/ EndVisits(d) \/ Ingest(d)
      PROVE  Registered'
  BY <1>1, <1>8 DEF StartDrain, VisitLive, EndVisits, Ingest, AfterDrain, DrainerAt,
                    Registered, Upgraded, threadVars
<1>9. ASSUME NEW d \in Drainers, VisitGone(d) PROVE Registered'
  <2> DEFINE k == Len(buffers) - Len(todo[d]) + 1
  <2>1. /\ todo[d] # <<>> /\ Head(todo[d]) \notin alive /\ dpc[d] = "visit"
        /\ buffers' = RemoveAt(buffers, k) /\ dpc' = dpc
        /\ UNCHANGED <<alive, ppc, queue>>
    BY <1>9 DEF VisitGone, threadVars
  <2>2. k \in 1..Len(buffers) /\ buffers[k] = Head(todo[d])
    BY <1>1, <2>1, AtEndRemove DEF VisitsOrdered, Visiting
  <2> HIDE DEF k
  <2>3. \A t \in ToSet(buffers) : t # Head(todo[d]) => t \in ToSet(buffers')
    BY <1>1, <2>1, <2>2, RemoveAtKeeps
  <2>4. \A t \in Threads : ~Upgraded(d, t)
    BY <2>1 DEF Upgraded
  <2>5. \A c \in Drainers, t \in Threads : ~Upgraded(c, t)
    BY <1>1, <2>1, <2>4 DEF Upgraded, VisitsOrdered, Visiting
  <2>6. \A t \in Threads : queue[t] # <<>> => t \in alive
    BY <2>5 DEF Registered
  <2> QED
    BY <1>1, <2>1, <2>3, <2>6 DEF Registered, RecordingAlive
<1>10. ASSUME NEW d \in Drainers, PopEvent(d) \/ PopEmpty(d)
       PROVE  Registered'
  BY <1>1, <1>10 DEF PopEvent, PopEmpty, DrainerAt, Registered, Upgraded, threadVars
<1>11. ASSUME NEW d \in Drainers, SwapDropped(d) PROVE Registered'
  <2>1. Head(todo[d]) \in Threads
    BY Visited, <1>11 DEF Base, TypeOK, SwapDropped, DrainerAt
  <2>2. queue'[Head(todo[d])] # <<>> => Head(todo[d]) \in alive
    BY <1>1, <1>11, <2>1 DEF SwapDropped, FreeBuffer
  <2>3. \A t \in Threads \ {Head(todo[d])} : \A c \in Drainers :
          Upgraded(c, t) => Upgraded(c, t)'
    BY <1>1, <1>11 DEF SwapDropped, DrainerAt, Upgraded
  <2>4. \A t \in Threads : queue'[t] # <<>> => queue[t] # <<>>
    BY <1>1, <1>11, <2>1 DEF SwapDropped, FreeBuffer
  <2>5. UNCHANGED <<alive, ppc, buffers>>
    BY <1>11 DEF SwapDropped
  <2> QED
    BY <2>1, <2>2, <2>3, <2>4, <2>5 DEF Registered
<1>12. ASSUME NEW c \in Callers,
              ReadStats(c) \/ ClearStats(c) \/ \E o \in {"snapshot", "reset"} : Call(c, o)
       PROVE  Registered'
  BY <1>1, <1>12 DEF ReadStats, ClearStats, Call, Return, DrainerAt, Registered, Upgraded,
                     threadVars, Drainers
<1>13. CASE Poll \/ Park \/ Timeout
  BY <1>1, <1>13 DEF Poll, Park, Timeout, DrainerAt, Registered, Upgraded, threadVars
<1>14. CASE UNCHANGED vars
  BY <1>14 DEF vars, threadVars, drainVars, Registered, Upgraded
<1> QED
  BY <1>2, <1>3, <1>4, <1>5, <1>6, <1>7, <1>8, <1>9, <1>10, <1>11, <1>12,
     <1>13, <1>14, StepCases

-----------------------------------------------------------------------------
(* What a drain at the start of a call reaches.                             *)

\* What is in the queue and was recorded before c's call is still ahead.
Reached ==
  /\ \A c \in Callers, t \in Threads : before[c][t] <= Returned(t)
  /\ \A c \in Callers, t \in Threads : \A n \in ToSet(queue[t]) :
       n <= before[c][t] => dpc[c] = "idle" \/ Ahead(c, t)

LEMMA InitReached == Init => Reached
<1> SUFFICES ASSUME Init PROVE Reached
  OBVIOUS
<1>1. \A t \in Threads : queue[t] = <<>> /\ Returned(t) = 0
  BY DEF Init, Nothing, Returned
<1>2. \A c \in Callers, t \in Threads : before[c][t] = 0
  BY DEF Init, Nothing
<1> QED
  BY <1>1, <1>2, ToSetEmpty DEF Reached

LEMMA ReturnedGrows ==
  ASSUME Base, [Next]_vars, NEW t \in Threads
  PROVE  Returned(t) \in Nat /\ Returned(t)' \in Nat /\ Returned(t) <= Returned(t)'
<1>1. /\ ppc \in [Threads -> ProducerPC] /\ sent \in [Threads -> Nat]
      /\ RecordingAlive
  BY DEF Base, TypeOK, ThreadTypeOK
<1>2. ASSUME NEW s \in Threads,
             \/ Record(s) \/ Register(s) \/ Push(s) \/ PushFull(s) \/ CheckLen(s)
             \/ CountDrop(s) \/ NotifyFlush(s) \/ Signal(s) \/ Exit(s)
      PROVE  \/ ppc'[t] = ppc[t] /\ sent'[t] = sent[t]
             \/ ppc[t] = "idle" /\ ppc'[t] # "idle" /\ sent'[t] = sent[t] + 1
             \/ ppc[t] # "idle" /\ sent'[t] = sent[t]
  BY <1>1, <1>2 DEF Record, Register, Push, PushFull, CheckLen, CountDrop, NotifyFlush,
                    Signal, Exit, ProducerAt
<1>3. ASSUME NEW d \in Drainers,
             \/ StartDrain(d) \/ VisitLive(d) \/ VisitGone(d) \/ PopEvent(d) \/ PopEmpty(d)
             \/ SwapDropped(d) \/ EndVisits(d) \/ Ingest(d)
      PROVE  ppc' = ppc /\ sent' = sent
  BY <1>3 DEF StartDrain, VisitLive, VisitGone, PopEvent, PopEmpty, SwapDropped, EndVisits,
              Ingest, threadVars
<1>4. ASSUME NEW c \in Callers,
             ReadStats(c) \/ ClearStats(c) \/ \E o \in {"snapshot", "reset"} : Call(c, o)
      PROVE  ppc' = ppc /\ sent' = sent
  BY <1>4 DEF ReadStats, ClearStats, Call, threadVars
<1>5. ASSUME Poll \/ Park \/ Timeout \/ UNCHANGED vars
      PROVE  ppc' = ppc /\ sent' = sent
  BY <1>5 DEF Poll, Park, Timeout, vars, threadVars
<1>6. \/ ppc'[t] = ppc[t] /\ sent'[t] = sent[t]
      \/ ppc[t] = "idle" /\ ppc'[t] # "idle" /\ sent'[t] = sent[t] + 1
      \/ ppc[t] # "idle" /\ sent'[t] = sent[t]
  BY <1>2, <1>3, <1>4, <1>5, StepCases
<1> QED
  BY <1>1, <1>6 DEF Returned, RecordingAlive

\* Where a call is: it begins with what has returned, and ends with nothing.
LEMMA CallStep ==
  ASSUME Base, [Next]_vars, NEW c \in Callers
  PROVE  /\ \/ before'[c] = before[c]
            \/ before'[c] = Nothing /\ dpc'[c] = "idle"
            \/ before'[c] = [t \in Threads |-> Returned(t)] /\ dpc'[c] = "start"
         /\ dpc[c] = "idle" => dpc'[c] \in {"idle", "start"}
<1>1. /\ dpc \in [Drainers -> DrainerPC] /\ before \in [Callers -> [Threads -> Nat]]
      /\ c \in Drainers /\ c # Worker
  BY PipelineAssumption DEF Base, TypeOK, DrainTypeOK, CallTypeOK, Drainers
<1>2. ASSUME NEW s \in Threads,
             \/ Record(s) \/ Register(s) \/ Push(s) \/ PushFull(s) \/ CheckLen(s)
             \/ CountDrop(s) \/ NotifyFlush(s) \/ Signal(s) \/ Exit(s)
      PROVE  before' = before /\ dpc'[c] = dpc[c]
  BY <1>1, <1>2 DEF Record, Register, Push, PushFull, CheckLen, CountDrop, NotifyFlush,
                    Signal, Exit, callVars, drainVars
<1>3. ASSUME NEW d \in Drainers,
             \/ StartDrain(d) \/ VisitLive(d) \/ VisitGone(d) \/ PopEvent(d) \/ PopEmpty(d)
             \/ SwapDropped(d) \/ EndVisits(d) \/ Ingest(d)
      PROVE  before' = before /\ (dpc[c] = "idle" => dpc'[c] = "idle")
  BY <1>1, <1>3 DEF StartDrain, VisitLive, VisitGone, PopEvent, PopEmpty, SwapDropped,
                    EndVisits, Ingest, DrainerAt, callVars
<1>4. ASSUME NEW s \in Callers, ReadStats(s) \/ ClearStats(s)
      PROVE  /\ before'[c] = before[c] \/ (before'[c] = Nothing /\ dpc'[c] = "idle")
             /\ dpc[c] = "idle" => dpc'[c] = "idle"
  BY <1>1, <1>4 DEF ReadStats, ClearStats, Return, DrainerAt
<1>5. ASSUME NEW s \in Callers, NEW o \in {"snapshot", "reset"}, Call(s, o)
      PROVE  /\ \/ before'[c] = before[c]
                \/ before'[c] = [t \in Threads |-> Returned(t)] /\ dpc'[c] = "start"
             /\ dpc[c] = "idle" => dpc'[c] \in {"idle", "start"}
  BY <1>1, <1>5 DEF Call, DrainerAt
<1>6. CASE Poll \/ Park \/ Timeout \/ UNCHANGED vars
  BY <1>1, <1>6 DEF Poll, Park, Timeout, DrainerAt, vars, callVars, drainVars
<1> QED
  BY <1>2, <1>3, <1>4, <1>5, <1>6, StepCases

LEMMA ReachedStep ==
  ASSUME Base, Registered, Reached, [Next]_vars
  PROVE  Reached'
<1>1. ASSUME NEW c \in Callers, NEW t \in Threads
      PROVE  (before[c][t] <= Returned(t))'
  <2>1. /\ before[c][t] \in Nat /\ before[c][t] <= Returned(t)
        /\ Returned(t) \in Nat /\ Returned(t)' \in Nat /\ Returned(t) <= Returned(t)'
    BY <1>1, ReturnedGrows DEF Reached, Base, TypeOK, CallTypeOK
  <2>2. before'[c][t] \in {0, before[c][t], Returned(t)}
    BY CallStep DEF Nothing
  <2> QED
    BY <2>1, <2>2
<1>2. ASSUME NEW c \in Callers, NEW t \in Threads, NEW n \in ToSet(queue'[t]),
             n <= before'[c][t]
      PROVE  dpc'[c] = "idle" \/ Ahead(c, t)'
  <2>1. c \in Drainers
    BY DEF Drainers
  <2>2. CASE before'[c] # before[c]
    BY <2>2, CallStep DEF Ahead
  <2>3. CASE before'[c] = before[c] /\ n \in ToSet(queue[t])
    <3>1. queue[t] # <<>>
      BY <2>3, ToSetEmpty
    <3>2. dpc[c] = "idle" \/ Ahead(c, t)
      BY <1>2, <2>3 DEF Reached
    <3> QED
      BY <2>1, <3>1, <3>2, AheadStep, CallStep DEF Ahead
  <2>4. CASE before'[c] = before[c] /\ n \notin ToSet(queue[t])
    <3>1. n = sent[t] /\ ppc[t] = "push"
      BY <1>2, <2>4, InQueue DEF Push, ProducerAt
    <3>2. Returned(t) = n - 1 /\ n \in Nat
      BY <3>1 DEF Returned, Base, TypeOK, ThreadTypeOK
    <3>3. before[c][t] \in Nat /\ before[c][t] <= Returned(t)
      BY DEF Reached, Base, TypeOK, CallTypeOK
    <3> QED
      BY <1>2, <2>4, <3>2, <3>3
  <2> QED
    BY <2>2, <2>3, <2>4
<1> QED
  BY <1>1, <1>2 DEF Reached

LEMMA SpecReached == Spec => [](Base /\ Registered /\ Reached)
BY InitBase, BaseStep, InitRegistered, RegisteredStep, InitReached, ReachedStep, PTL DEF Spec

\* However drains and threads interleave, the drain at the start of a snapshot
\* or reset leaves nothing in a buffer that was recorded before the call.
THEOREM PipelineDrainReaches == Spec => []DrainReachesRecorded
<1>1. Base /\ Reached => DrainReachesRecorded
  <2> SUFFICES ASSUME Base, Reached, NEW c \in Callers, NEW e \in Events,
                      dpc[c] \in {"read", "clear"}, e[2] <= before[c][e[1]], Queued(e)
               PROVE  FALSE
    BY DEF DrainReachesRecorded
  <2>1. e[1] \in Threads /\ e[2] \in ToSet(queue[e[1]])
    BY DEF Events, Queued
  <2> QED
    BY <2>1 DEF Reached, Ahead
<1> QED
  BY <1>1, SpecReached, PTL
-----------------------------------------------------------------------------
(* A flush that was asked for.                                              *)

\* FlushNotForgotten in the form that is inductive: a thread about to signal
\* has asked for its flush already, and a drain that has emptied a buffer is
\* no answer to what comes into it afterwards.
FlushComing ==
  \A t \in Threads :
    t \in alive /\ ppc[t] \in {"idle", "signal"} /\ NeedsFlush(t) =>
      pendingFlush \/ Ahead(Worker, t)

LEMMA InitFlush == Init => FlushComing
BY DEF Init, FlushComing, Ahead, Drainers

\* A buffer in need of a flush is not empty.
LEMMA NeedNotEmpty ==
  ASSUME NEW t \in Threads, NeedsFlush(t)
  PROVE  queue[t] # <<>>
BY GeometrySound DEF NeedsFlush

LEMMA FlushStep ==
  ASSUME Base, Registered, FlushComing, [Next]_vars
  PROVE  FlushComing'
<1>1. /\ ppc \in [Threads -> ProducerPC] /\ queue \in [Threads -> Seq(1..EventsPerThread)]
      /\ dpc \in [Drainers -> DrainerPC] /\ todo \in [Drainers -> Seq(Threads)]
      /\ pendingFlush \in BOOLEAN
      /\ Worker \in Drainers
  BY DEF Base, TypeOK, ThreadTypeOK, DrainTypeOK, Drainers
<1>2. SUFFICES ASSUME NEW t \in Threads, t \in alive', ppc'[t] \in {"idle", "signal"},
                      NeedsFlush(t)', ~pendingFlush'
               PROVE  Ahead(Worker, t)'
  BY DEF FlushComing
<1>3. ASSUME t \in alive, ppc[t] \in {"idle", "signal"}, NeedsFlush(t), ~pendingFlush
      PROVE  Ahead(Worker, t)'
  BY <1>1, <1>3, NeedNotEmpty, AheadStep DEF FlushComing
<1> USE DEF NeedsFlush
<1>4. ASSUME NEW s \in Threads,
             Record(s) \/ Register(s) \/ Push(s) \/ PushFull(s) \/ CountDrop(s)
      PROVE  Ahead(Worker, t)'
  BY <1>1, <1>2, <1>3, <1>4
  DEF Record, Register, Push, PushFull, CountDrop, ProducerAt
<1>5. ASSUME NEW s \in Threads, CheckLen(s) PROVE Ahead(Worker, t)'
  BY <1>1, <1>2, <1>3, <1>5, GeometrySound DEF CheckLen, ProducerAt
<1>6. ASSUME NEW s \in Threads, NotifyFlush(s) PROVE Ahead(Worker, t)'
  BY <1>2, <1>6 DEF NotifyFlush
<1>7. ASSUME NEW s \in Threads, Signal(s) PROVE Ahead(Worker, t)'
  BY <1>1, <1>2, <1>3, <1>7 DEF Signal, ProducerAt
<1>8. ASSUME NEW s \in Threads, Exit(s) PROVE Ahead(Worker, t)'
  <2>1. t # s /\ t \in alive /\ queue'[t] = queue[t]
    BY <1>1, <1>2, <1>8 DEF Exit, FreeBuffer
  <2> QED
    BY <1>1, <1>2, <1>3, <1>8, <2>1 DEF Exit
<1>9. ASSUME NEW d \in Drainers,
             StartDrain(d) \/ VisitLive(d) \/ VisitGone(d) \/ PopEmpty(d) \/ EndVisits(d)
             \/ Ingest(d)
      PROVE  Ahead(Worker, t)'
  BY <1>1, <1>2, <1>3, <1>9
  DEF StartDrain, VisitLive, VisitGone, PopEmpty, EndVisits, Ingest, threadVars
<1>10. ASSUME NEW d \in Drainers, PopEvent(d) PROVE Ahead(Worker, t)'
  <2> DEFINE q == queue[t]
  <2>1. q \in Seq(1..EventsPerThread) /\ (queue'[t] = q \/ (q # <<>> /\ queue'[t] = Tail(q)))
    BY <1>1, <1>10 DEF PopEvent
  <2>2. Len(queue'[t]) <= Len(q) /\ Len(q) \in Nat /\ Len(queue'[t]) \in Nat
    <3> HIDE DEF q
    <3> QED
      BY <2>1
  <2>3. NeedsFlush(t)
    BY <1>2, <2>2, CapacityPositive, GeometrySound
  <2> QED
    BY <1>1, <1>2, <1>3, <1>10, <2>3 DEF PopEvent
<1>11. ASSUME NEW d \in Drainers, SwapDropped(d) PROVE Ahead(Worker, t)'
  <2>1. queue'[t] = queue[t]
    BY <1>1, <1>2, <1>11, NeedNotEmpty DEF SwapDropped, FreeBuffer
  <2> QED
    BY <1>1, <1>2, <1>3, <1>11, <2>1 DEF SwapDropped
<1>12. ASSUME NEW c \in Callers,
              ReadStats(c) \/ ClearStats(c) \/ \E o \in {"snapshot", "reset"} : Call(c, o)
       PROVE  Ahead(Worker, t)'
  BY <1>1, <1>2, <1>3, <1>12 DEF ReadStats, ClearStats, Call, threadVars
<1>13. CASE Poll
  <2>1. CASE pendingFlush
    BY <1>1, <1>13, <2>1 DEF Poll, DrainerAt, Ahead
  <2>2. CASE ~pendingFlush
    BY <1>1, <1>2, <1>3, <1>13, <2>2 DEF Poll, threadVars
  <2> QED
    BY <2>1, <2>2
<1>14. CASE Park \/ Timeout \/ UNCHANGED vars
  BY <1>1, <1>2, <1>3, <1>14 DEF Park, Timeout, vars, threadVars
<1> QED
  BY <1>4, <1>5, <1>6, <1>7, <1>8, <1>9, <1>10, <1>11, <1>12, <1>13, <1>14, StepCases

LEMMA SpecFlush == Spec => [](Base /\ Registered /\ FlushComing)
BY InitBase, BaseStep, InitRegistered, RegisteredStep, InitFlush, FlushStep, PTL DEF Spec

\* No request for a flush is swallowed: a buffer that needs one has a request
\* pending or a drain of the worker coming, however polls, signals and drains
\* interleave.
THEOREM PipelineFlushComes == Spec => []FlushNotForgotten
<1>1. Base /\ FlushComing => FlushNotForgotten
  <2> SUFFICES ASSUME Base, FlushComing, NEW t \in Threads,
                      t \in alive, ppc[t] = "idle", NeedsFlush(t), ~pendingFlush
               PROVE  \/ dpc[Worker] = "start"
                      \/ dpc[Worker] \in Visiting /\ t \in ToSet(todo[Worker])
    BY DEF FlushNotForgotten
  <2>1. Ahead(Worker, t)
    BY DEF FlushComing
  <2>2. CASE dpc[Worker] = "swap" /\ t \in ToSet(Tail(todo[Worker]))
    <3>1. todo[Worker] \in Seq(Threads) /\ todo[Worker] # <<>>
      BY <2>2 DEF Base, TypeOK, DrainTypeOK, VisitsOrdered, Drainers
    <3>2. t \in ToSet(todo[Worker])
      BY <2>2, <3>1, ToSetTail
    <3> QED
      BY <2>2, <3>2 DEF Visiting
  <2> QED
    BY <2>1, <2>2 DEF Ahead, Visiting
<1> QED
  BY <1>1, SpecFlush, PTL
-----------------------------------------------------------------------------
(* What a reset leaves behind.                                              *)

\* What a reset was to forget has ended.
WipedEnded == \A e \in wiped : ended[e] # "no"

LEMMA InitWiped == Init => WipedEnded
BY DEF Init, WipedEnded

LEMMA WipedStep ==
  ASSUME Base, Registered, Reached, Sorted, WipedEnded, [Next]_vars
  PROVE  WipedEnded'
<1>1. wiped \subseteq Events /\ ended \in [Events -> {"no", "rejected", "lost", "cleared"}]
  BY DEF Base, TypeOK, CallTypeOK, StatTypeOK
<1>2. ASSUME NEW s \in Threads, Record(s) \/ Register(s) \/ Push(s) \/ CheckLen(s)
                                \/ CountDrop(s) \/ NotifyFlush(s) \/ Signal(s)
      PROVE  WipedEnded'
  BY <1>2 DEF Record, Register, Push, CheckLen, CountDrop, NotifyFlush, Signal, history,
              WipedEnded
<1>3. ASSUME NEW s \in Threads, PushFull(s) PROVE WipedEnded'
  BY <1>1, <1>3 DEF PushFull, End, WipedEnded
<1>4. ASSUME NEW s \in Threads, Exit(s) PROVE WipedEnded'
  BY <1>1, <1>4 DEF Exit, FreeBuffer, End, WipedEnded
<1>5. ASSUME NEW d \in Drainers,
             \/ StartDrain(d) \/ VisitLive(d) \/ VisitGone(d) \/ PopEvent(d) \/ PopEmpty(d)
             \/ EndVisits(d) \/ Ingest(d)
      PROVE  WipedEnded'
  BY <1>5 DEF StartDrain, VisitLive, VisitGone, PopEvent, PopEmpty, EndVisits, Ingest,
              history, WipedEnded
<1>6. ASSUME NEW d \in Drainers, SwapDropped(d) PROVE WipedEnded'
  BY <1>1, <1>6 DEF SwapDropped, FreeBuffer, End, WipedEnded
<1>7. ASSUME NEW c \in Callers, ClearStats(c) PROVE WipedEnded'
  <2>1. /\ wiped' = wiped \cup {e \in Recorded(c) : ~Batched(e)}
        /\ ended' = [e \in Events |-> IF count[e] > 0 THEN "cleared" ELSE ended[e]]
        /\ dpc[c] = "clear"
    BY <1>7 DEF ClearStats, Return, DrainerAt, End
  <2>2. ASSUME NEW e \in Recorded(c), ~Batched(e) PROVE ended'[e] # "no"
    <3>1. PICK t \in Threads, n \in 1..EventsPerThread : e = <<t, n>>
      BY DEF Recorded, Events
    <3>2. e \in Events /\ n <= before[c][t]
      BY <3>1 DEF Recorded
    <3>3. n <= Returned(t)
      BY <3>2, ReturnedGrows DEF Reached, Base, TypeOK, CallTypeOK
    <3>4. n <= sent[t] /\ ~Hand(t, n)
      BY <3>3 DEF Returned, Hand, Base, TypeOK, ThreadTypeOK
    <3>5. n \notin ToSet(queue[t])
      BY <2>1, <3>2 DEF Reached, Ahead
    <3>6. \A d \in Drainers : ~In(d, t, n)
      BY <2>2, <3>1 DEF Batched, In
    <3>7. count[e] > 0 \/ ended[e] # "no"
      BY <3>1, <3>4, <3>5, <3>6 DEF Sorted, Placed
    <3> QED
      BY <2>1, <3>2, <3>7
  <2> QED
    BY <1>1, <2>1, <2>2 DEF WipedEnded
<1>8. ASSUME NEW c \in Callers, ReadStats(c) \/ \E o \in {"snapshot", "reset"} : Call(c, o)
      PROVE  WipedEnded'
  BY <1>8 DEF ReadStats, Call, history, WipedEnded
<1>9. CASE Poll \/ Park \/ Timeout \/ UNCHANGED vars
  BY <1>9 DEF Poll, Park, Timeout, vars, history, WipedEnded
<1> QED
  BY <1>2, <1>3, <1>4, <1>5, <1>6, <1>7, <1>8, <1>9, StepCases

\* However drains, snapshots and resets interleave, what was recorded before a
\* reset, and was in no drain's batch when the statistics were cleared, is
\* never counted again.
THEOREM PipelineResetForgets == Spec => []ResetForgets
<1>1. Base /\ Sorted /\ WipedEnded => ResetForgets
  <2> SUFFICES ASSUME Base, Sorted, WipedEnded, NEW e \in wiped PROVE count[e] = 0
    BY DEF ResetForgets
  <2>1. e \in Events /\ count[e] \in Nat
    BY DEF Base, TypeOK, CallTypeOK, StatTypeOK
  <2>2. PICK t \in Threads, n \in 1..EventsPerThread : e = <<t, n>>
    BY <2>1 DEF Events
  <2>3. Placed(t, n) /\ ended[e] # "no"
    BY DEF Sorted, WipedEnded
  <2> QED
    BY <2>1, <2>2, <2>3 DEF Placed
<1> QED
  BY <1>1, SpecPlaces, SpecReached, InitWiped, WipedStep, PTL DEF Spec

-----------------------------------------------------------------------------
(* What `NeverLost` needs.                                                  *)

\* What is lost was recorded by a thread that has ended.
LostWithThread == \A e \in Events : ended[e] = "lost" => e[1] \notin alive

LEMMA LostStep ==
  ASSUME Base, LostWithThread, [Next]_vars
  PROVE  LostWithThread'
<1>1. ASSUME NEW s \in Threads, Record(s) \/ Register(s) \/ Push(s) \/ CheckLen(s)
                                \/ CountDrop(s) \/ NotifyFlush(s) \/ Signal(s)
      PROVE  LostWithThread'
  BY <1>1 DEF Record, Register, Push, CheckLen, CountDrop, NotifyFlush, Signal, history,
              LostWithThread
<1>2. ASSUME NEW s \in Threads, PushFull(s) PROVE LostWithThread'
  BY <1>2 DEF PushFull, End, LostWithThread
<1>3. ASSUME NEW s \in Threads, Exit(s) PROVE LostWithThread'
  <2>1. /\ alive' = alive \ {s}
        /\ \A e \in Events : ended'[e] = ended[e] \/ e[1] = s
    BY <1>3 DEF Exit, FreeBuffer, End
  <2> QED
    BY <2>1 DEF LostWithThread
<1>4. ASSUME NEW d \in Drainers, SwapDropped(d) PROVE LostWithThread'
  <2> DEFINE t == Head(todo[d])
  <2>1. alive' = alive /\ (t \in alive => ended' = ended)
    BY <1>4 DEF SwapDropped
  <2>2. t \notin alive => \A e \in Events : ended'[e] = ended[e] \/ e[1] = t
    BY <1>4 DEF SwapDropped, FreeBuffer, End
  <2> QED
    BY <2>1, <2>2 DEF LostWithThread
<1>5. ASSUME NEW d \in Drainers,
             \/ StartDrain(d) \/ VisitLive(d) \/ VisitGone(d) \/ PopEvent(d) \/ PopEmpty(d)
             \/ EndVisits(d) \/ Ingest(d)
      PROVE  LostWithThread'
  BY <1>5 DEF StartDrain, VisitLive, VisitGone, PopEvent, PopEmpty, EndVisits, Ingest,
              threadVars, history, LostWithThread
<1>6. ASSUME NEW c \in Callers, ClearStats(c) PROVE LostWithThread'
  BY <1>6 DEF ClearStats, Return, End, threadVars, LostWithThread
<1>7. ASSUME NEW c \in Callers, ReadStats(c) \/ \E o \in {"snapshot", "reset"} : Call(c, o)
      PROVE  LostWithThread'
  BY <1>7 DEF ReadStats, Return, Call, threadVars, history, LostWithThread
<1>8. CASE Poll \/ Park \/ Timeout \/ UNCHANGED vars
  BY <1>8 DEF Poll, Park, Timeout, vars, threadVars, history, LostWithThread
<1> QED
  BY <1>1, <1>2, <1>3, <1>4, <1>5, <1>6, <1>7, <1>8, StepCases

\* No event that a buffer took is lost while its thread runs, whatever drains,
\* snapshots and resets do: only the end of a thread loses any (drain_buffers).
THEOREM PipelineLosesOnlyOnExit == Spec => [](Threads \subseteq alive => NeverLost)
<1>1. Init => LostWithThread
  BY DEF Init, LostWithThread
<1>2. Base /\ LostWithThread /\ [Next]_vars => LostWithThread'
  BY LostStep
<1>3. LostWithThread => (Threads \subseteq alive => NeverLost)
  BY DEF LostWithThread, NeverLost, Events
<1> QED
  BY <1>1, <1>2, <1>3, SpecBase, PTL DEF Spec

-----------------------------------------------------------------------------
(* The order of a thread's events.                                          *)

LEMMA InitOrder == Init => OrderKept
BY ToSetEmpty DEF Init, OrderKept

\* Steps that lengthen neither a queue nor a batch.
LEMMA OrderFrame ==
  ASSUME OrderKept, Base,
         \A t \in Threads : queue'[t] = queue[t] \/ queue'[t] = <<>>,
         \A d \in Drainers : batch'[d] = batch[d] \/ batch'[d] = <<>>
  PROVE  OrderKept'
<1>1. \A t \in Threads : \A i, j \in DOMAIN queue'[t] :
        i < j => queue'[t][i] < queue'[t][j]
  BY DEF OrderKept
<1>2. ASSUME NEW d \in Drainers, NEW i \in DOMAIN batch'[d]
      PROVE  /\ batch'[d] = batch[d] /\ i \in DOMAIN batch[d]
             /\ batch[d][i][1] \in Threads
  <2>1. batch'[d] = batch[d] /\ i \in DOMAIN batch[d]
    OBVIOUS
  <2>2. batch[d] \in Seq(Events)
    BY DEF Base, TypeOK, DrainTypeOK
  <2> QED
    BY <2>1, <2>2 DEF Events
<1>3. ASSUME NEW d \in Drainers, NEW i \in DOMAIN batch'[d], NEW j \in DOMAIN batch'[d],
             i < j, batch'[d][i][1] = batch'[d][j][1]
      PROVE  batch'[d][i][2] < batch'[d][j][2]
  BY <1>2, <1>3 DEF OrderKept
<1>4. ASSUME NEW d \in Drainers, NEW i \in DOMAIN batch'[d],
             NEW n \in ToSet(queue'[batch'[d][i][1]])
      PROVE  batch'[d][i][2] < n
  <2>1. queue'[batch[d][i][1]] = queue[batch[d][i][1]]
    BY <1>2, <1>4, ToSetEmpty
  <2> QED
    BY <1>2, <1>4, <2>1 DEF OrderKept
<1> QED
  BY <1>1, <1>3, <1>4 DEF OrderKept

LEMMA OrderPush ==
  ASSUME Base, Sorted, OrderKept, NEW t \in Threads, Push(t)
  PROVE  OrderKept'
<1> DEFINE Numbers == 1..EventsPerThread
           q == queue[t]
<1>1. /\ queue \in [Threads -> Seq(Numbers)] /\ batch \in [Drainers -> Seq(Events)]
      /\ sent[t] \in Numbers
      /\ queue' = [queue EXCEPT ![t] = Append(q, sent[t])] /\ batch' = batch
      /\ ppc[t] = "push"
  BY DEF Base, TypeOK, ThreadTypeOK, DrainTypeOK, RecordingAlive, Push, ProducerAt, drainVars
<1>2. ASSUME NEW n \in Numbers, n \in ToSet(q) \/ \E d \in Drainers : In(d, t, n)
      PROVE  n < sent[t]
  <2>1. Placed(t, n)
    BY DEF Sorted
  <2> QED
    BY <1>1, <1>2, <2>1 DEF Placed, Hand
<1>3. /\ q \in Seq(Numbers) /\ queue'[t] = Append(q, sent[t])
      /\ \A s \in Threads \ {t} : queue'[s] = queue[s]
      /\ \A i, j \in 1..Len(q) : i < j => q[i] < q[j]
  BY <1>1 DEF OrderKept
<1> HIDE DEF q
<1>4. ASSUME NEW i \in 1..Len(q) PROVE q[i] \in Numbers /\ q[i] < sent[t]
  <2>1. q[i] \in Numbers
    <3> HIDE DEF Numbers
    <3> QED
      BY <1>3
  <2>2. q[i] \in ToSet(q)
    BY DEF ToSet
  <2> QED
    BY <1>2, <2>1, <2>2
<1>5. ToSet(queue'[t]) = ToSet(q) \cup {sent[t]}
  <2> HIDE DEF Numbers
  <2> QED
    BY <1>1, <1>3, ToSetAppend
<1>6. \A i, j \in DOMAIN queue'[t] : i < j => queue'[t][i] < queue'[t][j]
  BY <1>1, <1>3, <1>4
<1>7. ASSUME NEW d \in Drainers, NEW i \in DOMAIN batch[d],
             NEW n \in ToSet(queue'[batch[d][i][1]])
      PROVE  batch[d][i][2] < n
  <2>1. batch[d][i] \in Events /\ batch[d][i] \in ToSet(batch[d])
    BY <1>1 DEF ToSet
  <2>2. PICK s \in Threads, m \in Numbers : batch[d][i] = <<s, m>>
    BY <2>1 DEF Events
  <2>3. CASE s = t /\ n = sent[t]
    BY <1>2, <2>1, <2>2, <2>3 DEF In
  <2>4. CASE ~(s = t /\ n = sent[t])
    <3>1. batch[d][i][1] = s
      BY <2>2
    <3>2. CASE s = t
      BY <1>5, <1>7, <2>4, <3>1, <3>2 DEF OrderKept, q
    <3>3. CASE s # t
      BY <1>3, <1>7, <3>1, <3>3 DEF OrderKept
    <3> QED
      BY <3>2, <3>3
  <2> QED
    BY <2>3, <2>4
<1> QED
  BY <1>1, <1>3, <1>6, <1>7 DEF OrderKept
LEMMA OrderPop ==
  ASSUME Base, Sorted, OrderKept, NEW d \in Drainers, PopEvent(d)
  PROVE  OrderKept'
<1> DEFINE Numbers == 1..EventsPerThread
           t == Head(todo[d])
           q == queue[t]
           m == Head(q)
           b == batch[d]
<1>1. t \in Threads
  BY Visited DEF Base, TypeOK, PopEvent
<1>2. /\ queue \in [Threads -> Seq(Numbers)] /\ q # <<>>
      /\ queue' = [queue EXCEPT ![t] = Tail(q)]
      /\ batch \in [Drainers -> Seq(Events)]
      /\ batch' = [batch EXCEPT ![d] = Append(b, <<t, m>>)]
  BY <1>1 DEF Base, TypeOK, ThreadTypeOK, DrainTypeOK, PopEvent
<1> HIDE DEF t
<1>3. /\ q \in Seq(Numbers) /\ queue'[t] = Tail(q)
      /\ \A s \in Threads \ {t} : queue'[s] = queue[s]
      /\ \A i, j \in 1..Len(q) : i < j => q[i] < q[j]
      /\ \A n \in ToSet(Tail(q)) : \E i \in 1..Len(Tail(q)) : Tail(q)[i] = n
      /\ Tail(q) \in Seq(Numbers)
      /\ b \in Seq(Events) /\ batch'[d] = Append(b, <<t, m>>)
      /\ \A c \in Drainers \ {d} : batch'[c] = batch[c]
  <2>1. q \in Seq(Numbers) /\ b \in Seq(Events)
    BY <1>1, <1>2
  <2>2. Tail(q) \in Seq(Numbers)
    <3> HIDE DEF Numbers
    <3> QED
      BY <1>2, <2>1, ToSetTail
  <2>3. \A n \in ToSet(Tail(q)) : \E i \in 1..Len(Tail(q)) : Tail(q)[i] = n
    BY <2>2, ToSetMember
  <2>4. \A i, j \in 1..Len(q) : i < j => q[i] < q[j]
    BY <1>1, <2>1 DEF OrderKept
  <2>5. queue'[t] = Tail(q) /\ \A s \in Threads \ {t} : queue'[s] = queue[s]
    BY <1>1, <1>2
  <2>6. batch'[d] = Append(b, <<t, m>>) /\ \A c \in Drainers \ {d} : batch'[c] = batch[c]
    BY <1>2
  <2> QED
    BY <2>1, <2>2, <2>3, <2>4, <2>5, <2>6
<1> HIDE DEF q, b
<1>4. /\ Len(Tail(q)) = Len(q) - 1 /\ Len(q) \in Nat \ {0} /\ m = q[1]
      /\ \A i \in 1..Len(q) - 1 : Tail(q)[i] = q[i + 1]
  BY <1>2, <1>3
<1>5. m \in Numbers /\ ToSet(q) = ToSet(Tail(q)) \cup {m}
  <2> HIDE DEF Numbers
  <2> QED
    BY <1>2, <1>3, ToSetTail
<1>6. \A n \in ToSet(Tail(q)) : m < n
  BY <1>3, <1>4
<1> HIDE DEF m
<1>7. ASSUME NEW s \in Threads
      PROVE  /\ \A i, j \in DOMAIN queue'[s] : i < j => queue'[s][i] < queue'[s][j]
             /\ ToSet(queue'[s]) \subseteq ToSet(queue[s])
  <2>1. CASE s = t
    <3>1. \A i, j \in 1..Len(Tail(q)) : i < j => Tail(q)[i] < Tail(q)[j]
      BY <1>3, <1>4
    <3>2. DOMAIN Tail(q) = 1..Len(Tail(q))
      BY <1>3
    <3>3. ToSet(Tail(q)) \subseteq ToSet(queue[t])
      BY <1>5 DEF q
    <3> QED
      BY <1>3, <2>1, <3>1, <3>2, <3>3
  <2>2. CASE s # t
    BY <1>3, <2>2 DEF OrderKept
  <2> QED
    BY <2>1, <2>2
<1>8. ASSUME NEW c \in Drainers, NEW i \in DOMAIN batch[c]
      PROVE  /\ batch[c][i][1] \in Threads
             /\ \A n \in ToSet(queue'[batch[c][i][1]]) : batch[c][i][2] < n
             /\ \A j \in DOMAIN batch[c] :
                  i < j /\ batch[c][i][1] = batch[c][j][1] => batch[c][i][2] < batch[c][j][2]
  <2>1. batch[c][i][1] \in Threads
    BY <1>2 DEF Events
  <2> QED
    BY <1>7, <2>1 DEF OrderKept
<1>9. ASSUME NEW i \in DOMAIN b, b[i][1] = t PROVE b[i][2] < m
  BY <1>5, <1>9 DEF OrderKept, b, q
<1>10. /\ \A i \in 1..Len(b) : batch'[d][i] = b[i]
       /\ batch'[d][Len(b) + 1] = <<t, m>>
       /\ DOMAIN batch'[d] = 1..Len(b) + 1
       /\ DOMAIN b = 1..Len(b) /\ Len(b) \in Nat
  BY <1>1, <1>3, <1>5 DEF Events
<1>11. ASSUME NEW i \in DOMAIN batch'[d]
       PROVE  /\ \A n \in ToSet(queue'[batch'[d][i][1]]) : batch'[d][i][2] < n
              /\ \A j \in DOMAIN batch'[d] :
                   i < j /\ batch'[d][i][1] = batch'[d][j][1] => batch'[d][i][2] < batch'[d][j][2]
  <2>1. CASE i = Len(b) + 1
    <3>1. batch'[d][i][1] = t /\ batch'[d][i][2] = m
      BY <1>10, <2>1
    <3>2. \A n \in ToSet(queue'[batch'[d][i][1]]) : batch'[d][i][2] < n
      BY <1>3, <1>6, <3>1
    <3>3. \A j \in DOMAIN batch'[d] : ~(i < j)
      BY <1>10, <2>1
    <3> QED
      BY <3>2, <3>3
  <2>2. CASE i # Len(b) + 1
    <3>1. i \in DOMAIN b /\ i \in DOMAIN batch[d] /\ batch'[d][i] = batch[d][i]
      BY <1>10, <2>2 DEF b
    <3>2. ASSUME NEW j \in DOMAIN batch'[d], i < j, batch'[d][i][1] = batch'[d][j][1]
          PROVE  batch'[d][i][2] < batch'[d][j][2]
      <4>1. CASE j = Len(b) + 1
        BY <1>9, <1>10, <3>1, <3>2, <4>1 DEF b
      <4>2. CASE j # Len(b) + 1
        <5>1. j \in DOMAIN batch[d] /\ batch'[d][j] = batch[d][j]
          BY <1>10, <4>2 DEF b
        <5> QED
          BY <1>8, <3>1, <3>2, <5>1
      <4> QED
        BY <4>1, <4>2
    <3> QED
      BY <1>8, <3>1, <3>2
  <2> QED
    BY <2>1, <2>2
<1>12. ASSUME NEW c \in Drainers, NEW i \in DOMAIN batch'[c]
       PROVE  /\ \A n \in ToSet(queue'[batch'[c][i][1]]) : batch'[c][i][2] < n
              /\ \A j \in DOMAIN batch'[c] :
                   i < j /\ batch'[c][i][1] = batch'[c][j][1] => batch'[c][i][2] < batch'[c][j][2]
  BY <1>3, <1>8, <1>11
<1> QED
  BY <1>7, <1>12 DEF OrderKept

LEMMA OrderStep ==
  ASSUME Base, Sorted, OrderKept, [Next]_vars
  PROVE  OrderKept'
<1>1. batch \in [Drainers -> Seq(Events)]
  BY DEF Base, TypeOK, DrainTypeOK
<1>2. CASE \E t \in Threads : Push(t)
  BY <1>2, OrderPush
<1>3. CASE \E d \in Drainers : PopEvent(d)
  BY <1>3, OrderPop
<1>4. CASE (~\E t \in Threads : Push(t)) /\ (~\E d \in Drainers : PopEvent(d))
  <2>1. \A t \in Threads : queue'[t] = queue[t] \/ queue'[t] = <<>>
    BY <1>4, QueueStep
  <2>2. ASSUME NEW d \in Drainers PROVE batch'[d] = batch[d] \/ batch'[d] = <<>>
    <3>1. ASSUME NEW s \in Threads,
                 \/ Record(s) \/ Register(s) \/ PushFull(s) \/ CheckLen(s) \/ CountDrop(s)
                 \/ NotifyFlush(s) \/ Signal(s) \/ Exit(s)
          PROVE  batch' = batch
      BY <3>1 DEF Record, Register, PushFull, CheckLen, CountDrop, NotifyFlush, Signal, Exit,
                  drainVars
    <3>2. ASSUME NEW c \in Drainers,
                 \/ StartDrain(c) \/ VisitLive(c) \/ VisitGone(c) \/ PopEmpty(c)
                 \/ SwapDropped(c) \/ EndVisits(c)
          PROVE  batch' = batch
      BY <3>2 DEF StartDrain, VisitLive, VisitGone, PopEmpty, SwapDropped, EndVisits
    <3>3. ASSUME NEW c \in Drainers, Ingest(c)
          PROVE  batch'[d] = batch[d] \/ batch'[d] = <<>>
      BY <1>1, <3>3 DEF Ingest
    <3>4. ASSUME NEW c \in Callers,
                 ReadStats(c) \/ ClearStats(c) \/ \E o \in {"snapshot", "reset"} : Call(c, o)
          PROVE  batch' = batch
      BY <3>4 DEF ReadStats, ClearStats, Call
    <3>5. ASSUME Poll \/ Park \/ Timeout \/ UNCHANGED vars PROVE batch' = batch
      BY <3>5 DEF Poll, Park, Timeout, vars, drainVars
    <3> QED
      BY <1>4, <3>1, <3>2, <3>3, <3>4, <3>5, StepCases
  <2> QED
    BY <2>1, <2>2, OrderFrame
<1> QED
  BY <1>2, <1>3, <1>4

\* The events of one thread keep their order from the push to the batch,
\* whichever drains take them.
THEOREM PipelineOrderKept == Spec => []OrderKept
BY SpecPlaces, InitOrder, OrderStep, PTL DEF Spec

-----------------------------------------------------------------------------
(* Where the count of a drop is.                                            *)

Waiting == [t \in Threads |-> Uncollected(t)]

\* The counters that DropsAccounted adds up are numbers, and so is their sum.
LEMMA DropNumbers ==
  ASSUME Base
  PROVE  /\ IsFiniteSet(Threads) /\ IsFiniteSet(Drainers) /\ IsFiniteSet(Rejected)
         /\ Cardinality(Rejected) \in Nat
         /\ \A t \in Threads : Waiting[t] \in Nat /\ dropped[t] \in Nat
         /\ \A d \in Drainers : batchDropped[d] \in Nat
         /\ SumFunctionOnSet(Waiting, Threads) \in Nat
         /\ SumFunctionOnSet(batchDropped, Drainers) \in Nat
         /\ droppedEvents \in Nat /\ forgotten \in Nat
<1>1. IsFiniteSet(Threads) /\ IsFiniteSet(Drainers)
  BY PipelineAssumption, FS_AddElement DEF Drainers
<1>2. IsFiniteSet(Events)
  <2>1. IsFiniteSet(1..EventsPerThread)
    BY PipelineAssumption, FS_Interval
  <2> QED
    BY <1>1, <2>1, FS_Product, Zenon DEF Events
<1>3. IsFiniteSet(Rejected) /\ Cardinality(Rejected) \in Nat
  BY <1>2, FS_Subset, FS_CardinalityType DEF Rejected
<1>4. \A t \in Threads : Waiting[t] \in Nat /\ dropped[t] \in Nat
  BY DEF Base, TypeOK, ThreadTypeOK, Waiting, Uncollected
<1>5. \A d \in Drainers : batchDropped[d] \in Nat
  BY DEF Base, TypeOK, DrainTypeOK
<1>6. droppedEvents \in Nat /\ forgotten \in Nat
  BY DEF Base, TypeOK, StatTypeOK
<1> QED
  BY <1>1, <1>3, <1>4, <1>5, <1>6, SumNat

\* Steps that neither turn an event away nor move a count.
LEMMA DropsFrame ==
  ASSUME DropsAccounted, Rejected' = Rejected, Waiting' = Waiting,
         UNCHANGED <<batchDropped, droppedEvents, forgotten>>
  PROVE  DropsAccounted'
BY DEF DropsAccounted, Waiting

LEMMA DropsQuiet ==
  ASSUME DropsAccounted, UNCHANGED <<dropped, ended, batchDropped, droppedEvents, forgotten>>,
         \A t \in Threads : ppc'[t] = "drop" <=> ppc[t] = "drop"
  PROVE  DropsAccounted'
<1>1. Rejected' = Rejected
  BY DEF Rejected
<1>2. Waiting' = Waiting
  BY DEF Waiting, Uncollected
<1> QED
  BY <1>1, <1>2, DropsFrame

\* Only events that had not ended end when a buffer is freed.
LEMMA FreeRejectsNone ==
  ASSUME Base, Sorted, NEW t \in Threads, FreeBuffer(t)
  PROVE  Rejected' = Rejected
<1> DEFINE Numbers == 1..EventsPerThread
<1>1. queue[t] \in Seq(Numbers)
  BY DEF Base, TypeOK, ThreadTypeOK
<1>2. ToSet(queue[t]) \subseteq Numbers
  <2> HIDE DEF Numbers
  <2>1. \A i \in 1..Len(queue[t]) : queue[t][i] \in Numbers
    BY <1>1
  <2> QED
    BY <1>1, <2>1, ToSetMember
<1>3. \A n \in ToSet(queue[t]) : ended[<<t, n>>] = "no"
  BY <1>2 DEF Sorted, Placed
<1> QED
  BY <1>3 DEF FreeBuffer, End, Rejected

LEMMA DropsPushFull ==
  ASSUME Base, Sorted, DropsAccounted, NEW t \in Threads, PushFull(t), Base'
  PROVE  DropsAccounted'
<1>1. /\ ppc[t] = "push" /\ ppc' = [ppc EXCEPT ![t] = "drop"]
      /\ ended' = [e \in Events |-> IF e = <<t, sent[t]>> THEN "rejected" ELSE ended[e]]
      /\ UNCHANGED <<dropped, batchDropped, droppedEvents, forgotten>>
  BY DEF PushFull, ProducerAt, End, drainVars, statVars
<1>2. sent[t] \in 1..EventsPerThread
  BY <1>1 DEF Base, TypeOK, ThreadTypeOK, RecordingAlive
<1>3. PICK e \in Events : e = <<t, sent[t]>>
  BY <1>2 DEF Events
<1>4. ended[e] = "no"
  BY <1>1, <1>2, <1>3 DEF Sorted, Placed, Hand
<1>5. Rejected' = Rejected \cup {e} /\ e \notin Rejected
  BY <1>1, <1>3, <1>4 DEF Rejected
<1>6. Cardinality(Rejected') = Cardinality(Rejected) + 1
  BY <1>5, DropNumbers, FS_AddElement
<1>7. \A s \in Threads : s # t => Waiting'[s] = Waiting[s]
  BY <1>1 DEF Waiting, Uncollected, Base, TypeOK, ThreadTypeOK
<1>8. Waiting'[t] = Waiting[t] + 1
  BY <1>1 DEF Waiting, Uncollected, Base, TypeOK, ThreadTypeOK
<1>9. PICK f, g : f = Waiting /\ g = Waiting'
  OBVIOUS
<1>10. /\ IsFiniteSet(Threads)
       /\ \A s \in Threads : f[s] \in Nat /\ (s # t => g[s] = f[s])
       /\ g[t] = f[t] + 1
       /\ SumFunctionOnSet(f, Threads) \in Nat
  BY <1>7, <1>8, <1>9, DropNumbers
<1>11. SumFunctionOnSet(g, Threads) = SumFunctionOnSet(f, Threads) - f[t] + g[t]
  BY <1>10, SumChanged
<1>12. SumFunctionOnSet(g, Threads) = SumFunctionOnSet(f, Threads) + 1
  BY <1>10, <1>11
<1> QED
  BY <1>1, <1>6, <1>9, <1>12, DropNumbers DEF DropsAccounted, Waiting

LEMMA DropsCount ==
  ASSUME Base, DropsAccounted, NEW t \in Threads, CountDrop(t)
  PROVE  DropsAccounted'
<1>1. /\ ppc[t] = "drop" /\ ppc' = [ppc EXCEPT ![t] = "notify"]
      /\ dropped' = [dropped EXCEPT ![t] = @ + 1]
      /\ UNCHANGED <<ended, batchDropped, droppedEvents, forgotten>>
  BY DEF CountDrop, ProducerAt, drainVars, statVars, history
<1>2. \A s \in Threads : Uncollected(s)' = Uncollected(s)
  BY <1>1 DEF Uncollected, Base, TypeOK, ThreadTypeOK
<1>3. Rejected' = Rejected /\ Waiting' = Waiting
  BY <1>1, <1>2 DEF Rejected, Waiting
<1> QED
  BY <1>1, <1>3, DropsFrame

\* A thread's count is set to 0, and what it was goes elsewhere.
LEMMA WaitingTaken ==
  ASSUME Base, NEW t \in Threads, dropped' = [dropped EXCEPT ![t] = 0], ppc' = ppc
  PROVE  SumFunctionOnSet(Waiting', Threads)
           = SumFunctionOnSet(Waiting, Threads) - dropped[t]
<1>1. \A s \in Threads : s # t => Waiting'[s] = Waiting[s]
  BY DEF Waiting, Uncollected, Base, TypeOK, ThreadTypeOK
<1>2. Waiting'[t] = Waiting[t] - dropped[t] /\ Waiting'[t] \in Nat
  BY DEF Waiting, Uncollected, Base, TypeOK, ThreadTypeOK
<1>3. PICK f, g : f = Waiting /\ g = Waiting'
  OBVIOUS
<1>4. /\ IsFiniteSet(Threads) /\ dropped[t] \in Nat
      /\ \A s \in Threads : f[s] \in Nat /\ (s # t => g[s] = f[s])
      /\ g[t] = f[t] - dropped[t] /\ g[t] \in Nat
      /\ SumFunctionOnSet(f, Threads) \in Nat
  BY <1>1, <1>2, <1>3, DropNumbers
<1>5. SumFunctionOnSet(g, Threads) = SumFunctionOnSet(f, Threads) - f[t] + g[t]
  BY <1>4, SumChanged
<1> QED
  BY <1>3, <1>4, <1>5

LEMMA DropsExit ==
  ASSUME Base, Sorted, DropsAccounted, NEW t \in Threads, Exit(t)
  PROVE  DropsAccounted'
<1>1. CASE \E d \in Drainers : Upgraded(d, t)
  <2>1. UNCHANGED <<dropped, ended, ppc, batchDropped, droppedEvents, forgotten>>
    BY <1>1 DEF Exit, drainVars, statVars
  <2> QED
    BY <2>1, DropsQuiet
<1>2. CASE ~\E d \in Drainers : Upgraded(d, t)
  <2>1. /\ FreeBuffer(t) /\ dropped' = [dropped EXCEPT ![t] = 0]
        /\ forgotten' = forgotten + dropped[t]
        /\ UNCHANGED <<ppc, batchDropped, droppedEvents>>
    BY <1>2 DEF Exit, drainVars, statVars
  <2>2. Rejected' = Rejected
    BY <2>1, FreeRejectsNone
  <2>3. SumFunctionOnSet(Waiting', Threads)
          = SumFunctionOnSet(Waiting, Threads) - dropped[t]
    BY <2>1, WaitingTaken
  <2> QED
    BY <2>1, <2>2, <2>3, DropNumbers DEF DropsAccounted, Waiting
<1> QED
  BY <1>1, <1>2

LEMMA DropsSwap ==
  ASSUME Base, Sorted, DropsAccounted, NEW d \in Drainers, SwapDropped(d)
  PROVE  DropsAccounted'
<1>1. PICK t \in Threads : t = Head(todo[d])
  BY Visited DEF Base, TypeOK, SwapDropped, DrainerAt
<1>2. /\ batchDropped' = [batchDropped EXCEPT ![d] = @ + dropped[t]]
      /\ dropped' = [dropped EXCEPT ![t] = 0]
      /\ UNCHANGED <<ppc, droppedEvents, forgotten>>
  BY <1>1 DEF SwapDropped, statVars
<1>3. Rejected' = Rejected
  <2>1. CASE t \in alive
    BY <1>1, <2>1 DEF SwapDropped, Rejected
  <2>2. CASE t \notin alive
    BY <1>1, <2>2, FreeRejectsNone DEF SwapDropped
  <2> QED
    BY <2>1, <2>2
<1>4. SumFunctionOnSet(Waiting', Threads)
        = SumFunctionOnSet(Waiting, Threads) - dropped[t]
  BY <1>2, WaitingTaken
<1>5. SumFunctionOnSet(batchDropped', Drainers)
        = SumFunctionOnSet(batchDropped, Drainers) + dropped[t]
  <2>1. PICK f, g, k : f = batchDropped /\ g = batchDropped' /\ k = dropped[t]
    OBVIOUS
  <2>2. /\ IsFiniteSet(Drainers) /\ k \in Nat
        /\ \A c \in Drainers : f[c] \in Nat /\ (c # d => g[c] = f[c])
        /\ g[d] = f[d] + k
        /\ SumFunctionOnSet(f, Drainers) \in Nat
    BY <1>2, <2>1, DropNumbers DEF Base, TypeOK, DrainTypeOK
  <2>3. SumFunctionOnSet(g, Drainers) = SumFunctionOnSet(f, Drainers) - f[d] + g[d]
    BY <2>2, SumChanged
  <2> QED
    BY <2>1, <2>2, <2>3
<1> QED
  BY <1>2, <1>3, <1>4, <1>5, DropNumbers DEF DropsAccounted, Waiting

LEMMA DropsIngest ==
  ASSUME Base, DropsAccounted, NEW d \in Drainers, Ingest(d)
  PROVE  DropsAccounted'
<1>1. /\ batchDropped' = [batchDropped EXCEPT ![d] = 0]
      /\ droppedEvents' = droppedEvents + batchDropped[d]
      /\ UNCHANGED <<ppc, dropped, ended, forgotten>>
  BY DEF Ingest, threadVars, history
<1>2. Rejected' = Rejected /\ Waiting' = Waiting
  BY <1>1 DEF Rejected, Waiting, Uncollected
<1>3. SumFunctionOnSet(batchDropped', Drainers)
        = SumFunctionOnSet(batchDropped, Drainers) - batchDropped[d]
  <2>1. PICK f, g : f = batchDropped /\ g = batchDropped'
    OBVIOUS
  <2>2. /\ IsFiniteSet(Drainers)
        /\ \A c \in Drainers : f[c] \in Nat /\ (c # d => g[c] = f[c])
        /\ g[d] = 0
        /\ SumFunctionOnSet(f, Drainers) \in Nat
    BY <1>1, <2>1, DropNumbers DEF Base, TypeOK, DrainTypeOK
  <2>3. SumFunctionOnSet(g, Drainers) = SumFunctionOnSet(f, Drainers) - f[d] + g[d]
    BY <2>2, SumChanged
  <2> QED
    BY <2>1, <2>2, <2>3
<1> QED
  BY <1>1, <1>2, <1>3, DropNumbers DEF DropsAccounted, Waiting

LEMMA DropsClear ==
  ASSUME Base, Sorted, DropsAccounted, NEW c \in Callers, ClearStats(c)
  PROVE  DropsAccounted'
<1>1. /\ droppedEvents' = 0 /\ forgotten' = forgotten + droppedEvents
      /\ ended' = [e \in Events |-> IF count[e] > 0 THEN "cleared" ELSE ended[e]]
      /\ UNCHANGED <<ppc, dropped, batchDropped>>
  BY DEF ClearStats, End, threadVars
<1>2. \A e \in Events : count[e] > 0 => ended[e] = "no"
  BY DEF Sorted, Placed, Events
<1>3. Rejected' = Rejected /\ Waiting' = Waiting
  BY <1>1, <1>2 DEF Rejected, Waiting, Uncollected
<1> QED
  BY <1>1, <1>3, DropNumbers DEF DropsAccounted, Waiting

LEMMA InitDrops == Init => DropsAccounted
<1> SUFFICES ASSUME Init PROVE DropsAccounted
  OBVIOUS
<1>1. IsFiniteSet(Threads) /\ IsFiniteSet(Drainers)
  BY InitBase, DropNumbers
<1>2. Rejected = {}
  BY DEF Init, Rejected
<1>3. \A t \in Threads : Waiting[t] = 0
  BY DEF Init, Nothing, Waiting, Uncollected
<1>4. \A d \in Drainers : batchDropped[d] = 0
  BY DEF Init
<1>5. /\ SumFunctionOnSet(Waiting, Threads) = 0
      /\ SumFunctionOnSet(batchDropped, Drainers) = 0
  BY <1>1, <1>3, <1>4, SumZero
<1> QED
  BY <1>2, <1>5, FS_EmptySet DEF DropsAccounted, Waiting, Init

LEMMA DropsStep ==
  ASSUME Base, Sorted, DropsAccounted, [Next]_vars
  PROVE  DropsAccounted'
<1>1. ASSUME NEW t \in Threads,
             \/ Record(t) \/ Register(t) \/ Push(t) \/ CheckLen(t) \/ NotifyFlush(t)
             \/ Signal(t)
      PROVE  DropsAccounted'
  <2>1. UNCHANGED <<dropped, ended, batchDropped, droppedEvents, forgotten>>
    BY <1>1 DEF Record, Register, Push, CheckLen, NotifyFlush, Signal, drainVars,
                statVars, history
  <2>2. \A s \in Threads : ppc'[s] = "drop" <=> ppc[s] = "drop"
    BY <1>1 DEF Record, Register, Push, CheckLen, NotifyFlush, Signal, ProducerAt,
                Base, TypeOK, ThreadTypeOK
  <2> QED
    BY <2>1, <2>2, DropsQuiet
<1>2. ASSUME NEW d \in Drainers,
             \/ StartDrain(d) \/ VisitLive(d) \/ VisitGone(d) \/ PopEvent(d) \/ PopEmpty(d)
             \/ EndVisits(d)
      PROVE  DropsAccounted'
  <2>1. UNCHANGED <<ppc, dropped, ended, batchDropped, droppedEvents, forgotten>>
    BY <1>2 DEF StartDrain, VisitLive, VisitGone, PopEvent, PopEmpty, EndVisits, threadVars,
                statVars, history
  <2> QED
    BY <2>1, DropsQuiet
<1>3. ASSUME NEW c \in Callers, ReadStats(c) \/ \E o \in {"snapshot", "reset"} : Call(c, o)
      PROVE  DropsAccounted'
  <2>1. UNCHANGED <<ppc, dropped, ended, batchDropped, droppedEvents, forgotten>>
    BY <1>3 DEF ReadStats, Call, threadVars, statVars, history
  <2> QED
    BY <2>1, DropsQuiet
<1>4. ASSUME Poll \/ Park \/ Timeout \/ UNCHANGED vars
      PROVE  DropsAccounted'
  <2>1. UNCHANGED <<ppc, dropped, ended, batchDropped, droppedEvents, forgotten>>
    BY <1>4 DEF Poll, Park, Timeout, vars, threadVars, drainVars, statVars, history
  <2> QED
    BY <2>1, DropsQuiet
<1>5. Base'
  BY BaseStep
<1> QED
  BY <1>1, <1>2, <1>3, <1>4, <1>5, StepCases, DropsPushFull, DropsCount, DropsExit,
     DropsSwap, DropsIngest, DropsClear

\* Every event that a full queue turned away is in exactly one counter on the
\* way to Snapshot.dropped_events, unless a reset cleared that counter or it
\* was freed with its thread (ThreadBuffer::record, drain_buffers,
\* Aggregator::ingest).
THEOREM PipelineDropsAccounted == Spec => []DropsAccounted
BY InitDrops, DropsStep, SpecPlaces, PTL DEF Spec

-----------------------------------------------------------------------------
(* The pipeline implements the ledger.                                      *)

\* What Sorted says of the status of an event.
LEMMA StatusPlaced ==
  ASSUME Base, Sorted, NEW t \in Threads, NEW n \in 1..EventsPerThread
  PROVE  /\ <<t, n>> \in Events
         /\ StatusOf(<<t, n>>) = "unsent" <=> n > sent[t]
         /\ Hand(t, n) => StatusOf(<<t, n>>) = "pending"
         /\ n \in ToSet(queue[t]) => StatusOf(<<t, n>>) = "pending"
         /\ \A d \in Drainers : In(d, t, n) => StatusOf(<<t, n>>) = "pending" /\ count[<<t, n>>] = 0
         /\ StatusOf(<<t, n>>) = "counted" <=> count[<<t, n>>] > 0
         /\ ended[<<t, n>>] # "no" => StatusOf(<<t, n>>) = ended[<<t, n>>]
         /\ count[<<t, n>>] \in {0, 1}
<1>1. /\ <<t, n>> \in Events /\ Placed(t, n)
      /\ count[<<t, n>>] \in Nat /\ sent[t] \in Nat
      /\ ended[<<t, n>>] \in {"no", "rejected", "lost", "cleared"}
  BY DEF Events, Sorted, Base, TypeOK, StatTypeOK, ThreadTypeOK
<1>2. Hand(t, n) => ~(n > sent[t])
  BY <1>1 DEF Hand
<1> QED
  BY <1>1, <1>2 DEF Placed, StatusOf

\* Steps that change the status of no event.
LEMMA LedgerStutter ==
  ASSUME UNCHANGED <<sent, count, ended>>
  PROVE  UNCHANGED Ledger!ledger
BY DEF Ledger!ledger, StatusOf

LEMMA LedgerRecord ==
  ASSUME Base, Sorted, NEW t \in Threads, Record(t)
  PROVE  Ledger!LedgerNext
<1>1. /\ sent \in [Threads -> 0..EventsPerThread] /\ sent[t] < EventsPerThread
      /\ sent' = [sent EXCEPT ![t] = sent[t] + 1] /\ UNCHANGED <<count, ended>>
  BY DEF Base, TypeOK, ThreadTypeOK, Record, statVars, history
<1>2. PICK n \in 1..EventsPerThread : n = sent[t] + 1
  BY <1>1, PipelineAssumption
<1>3. PICK e \in Events : e = <<t, n>>
  BY DEF Events
<1>4. StatusOf(e) = "unsent"
  BY <1>1, <1>2, <1>3, StatusPlaced
<1>5. StatusOf(e)' = "pending"
  <2>1. ended[e] = "no" /\ count[e] = 0
    BY <1>1, <1>2, <1>3 DEF Sorted, Placed
  <2>2. ~(e[2] > sent'[e[1]])
    BY <1>1, <1>2, <1>3
  <2> QED
    BY <1>1, <2>1, <2>2 DEF StatusOf
<1>6. ASSUME NEW f \in Events, f # e PROVE StatusOf(f)' = StatusOf(f)
  <2>1. PICK s \in Threads, m \in 1..EventsPerThread : f = <<s, m>>
    BY DEF Events
  <2>2. m > sent'[s] <=> m > sent[s]
    BY <1>1, <1>2, <1>3, <1>6, <2>1
  <2> QED
    BY <1>1, <2>1, <2>2 DEF StatusOf
<1>7. Ledger!Send(e)
  BY <1>1, <1>4, <1>5, <1>6 DEF Ledger!Send, Ledger!Become
<1> QED
  BY <1>7 DEF Ledger!LedgerNext

\* Some events end, before they were counted.
LEMMA LedgerEnd ==
  ASSUME Base, Sorted, NEW S \in SUBSET Events, NEW why \in {"rejected", "lost"},
         \A e \in S : StatusOf(e) = "pending", End(S, why), UNCHANGED <<sent, count>>
  PROVE  Ledger!Become(S, "pending", why)
<1>1. \A e \in S : StatusOf(e)' = why
  BY DEF End, StatusOf
<1>2. \A e \in Events \ S : StatusOf(e)' = StatusOf(e)
  BY DEF End, StatusOf
<1> QED
  BY <1>1, <1>2 DEF Ledger!Become

LEMMA LedgerPushFull ==
  ASSUME Base, Sorted, NEW t \in Threads, PushFull(t)
  PROVE  Ledger!LedgerNext
<1> DEFINE e == <<t, sent[t]>>
<1>1. /\ End({e}, "rejected") /\ UNCHANGED <<sent, count>> /\ ppc[t] = "push"
  BY DEF PushFull, ProducerAt, statVars
<1>2. sent[t] \in 1..EventsPerThread
  BY <1>1 DEF Base, TypeOK, ThreadTypeOK, RecordingAlive
<1>3. e \in Events /\ StatusOf(e) = "pending"
  BY <1>1, <1>2, StatusPlaced DEF Hand
<1>4. Ledger!Become({e}, "pending", "rejected")
  BY <1>1, <1>3, LedgerEnd
<1> QED
  BY <1>1, <1>3, <1>4 DEF Ledger!LedgerNext, Ledger!Reject

LEMMA LedgerFree ==
  ASSUME Base, Sorted, NEW t \in Threads, FreeBuffer(t), UNCHANGED <<sent, count>>
  PROVE  Ledger!LedgerNext
<1> DEFINE S == {<<t, n>> : n \in ToSet(queue[t])}
<1> DEFINE Numbers == 1..EventsPerThread
<1>1. queue[t] \in Seq(Numbers)
  BY DEF Base, TypeOK, ThreadTypeOK
<1>2. ToSet(queue[t]) \subseteq Numbers
  <2> HIDE DEF Numbers
  <2>1. \A i \in 1..Len(queue[t]) : queue[t][i] \in Numbers
    BY <1>1
  <2> QED
    BY <1>1, <2>1, ToSetMember
<1>3. S \in SUBSET Events /\ \A e \in S : StatusOf(e) = "pending"
  BY <1>2, StatusPlaced
<1>4. Ledger!Become(S, "pending", "lost")
  BY <1>3, LedgerEnd DEF FreeBuffer
<1>5. Ledger!Lose(S)
  BY <1>4 DEF Ledger!Lose
<1> QED
  BY <1>3, <1>5 DEF Ledger!LedgerNext

LEMMA LedgerIngest ==
  ASSUME Base, Sorted, NEW d \in Drainers, Ingest(d)
  PROVE  Ledger!LedgerNext
<1> DEFINE S == {e \in Events : e \in ToSet(batch[d])}
<1>1. /\ batch \in [Drainers -> Seq(Events)] /\ count \in [Events -> Nat]
      /\ count' = [e \in Events |-> count[e] + Occurrences(e, batch[d])]
      /\ UNCHANGED <<sent, ended>>
  BY DEF Base, TypeOK, DrainTypeOK, StatTypeOK, Ingest, threadVars, history
<1>2. \A e : Occurrences(e, batch[d]) = IF e \in ToSet(batch[d]) THEN 1 ELSE 0
  BY <1>1, OccurrencesDistinct DEF Sorted
<1>3. \A e \in S : count[e] = 0 /\ StatusOf(e) = "pending"
  BY StatusPlaced DEF Events, In
<1>4. \A e \in S : count'[e] = 1 /\ ended'[e] = "no"
  <2> SUFFICES ASSUME NEW e \in S PROVE count'[e] = 1 /\ ended'[e] = "no"
    OBVIOUS
  <2>1. ended[e] \in {"no", "rejected", "lost", "cleared"}
    BY DEF Base, TypeOK, StatTypeOK
  <2>2. ended[e] = "no"
    BY <1>3, <2>1 DEF StatusOf
  <2> QED
    BY <1>1, <1>2, <1>3, <2>2
<1>5. \A e \in Events \ S : count'[e] = count[e]
  BY <1>1, <1>2
<1>6. \A e \in S : StatusOf(e)' = "counted"
  BY <1>4 DEF StatusOf
<1>7. \A e \in Events \ S : StatusOf(e)' = StatusOf(e)
  BY <1>1, <1>5 DEF StatusOf
<1>8. count' = [e \in Events |-> IF e \in S THEN 1 ELSE count[e]]
  BY <1>1, <1>4, <1>5
<1>9. Ledger!Become(S, "pending", "counted")
  BY <1>3, <1>6, <1>7 DEF Ledger!Become
<1>10. Ledger!Deliver(S)
  BY <1>8, <1>9 DEF Ledger!Deliver
<1> QED
  BY <1>10 DEF Ledger!LedgerNext

LEMMA LedgerClear ==
  ASSUME Base, Sorted, NEW c \in Callers, ClearStats(c)
  PROVE  Ledger!LedgerNext
<1>1. /\ count \in [Events -> Nat] /\ count' = [e \in Events |-> 0]
      /\ ended' = [e \in Events |-> IF count[e] > 0 THEN "cleared" ELSE ended[e]]
      /\ sent' = sent
  BY DEF Base, TypeOK, StatTypeOK, ClearStats, End, threadVars
<1>2. ASSUME NEW e \in Events
      PROVE  /\ StatusOf(e) = "counted" <=> count[e] > 0
             /\ StatusOf(e)' = IF StatusOf(e) = "counted" THEN "cleared" ELSE StatusOf(e)
  <2>1. StatusOf(e) = "counted" <=> count[e] > 0
    BY StatusPlaced DEF Events
  <2> QED
    BY <1>1, <2>1 DEF StatusOf
<1>3. Ledger!Clear
  BY <1>1, <1>2 DEF Ledger!Clear, Ledger!Become
<1> QED
  BY <1>3 DEF Ledger!LedgerNext

LEMMA LedgerStep ==
  ASSUME Base, Sorted, [Next]_vars
  PROVE  [Ledger!LedgerNext]_(Ledger!ledger)
<1>1. ASSUME NEW t \in Threads,
             \/ Register(t) \/ Push(t) \/ CheckLen(t) \/ CountDrop(t) \/ NotifyFlush(t)
             \/ Signal(t)
      PROVE  UNCHANGED <<sent, count, ended>>
  BY <1>1 DEF Register, Push, CheckLen, CountDrop, NotifyFlush, Signal, statVars, history
<1>2. ASSUME NEW t \in Threads, Exit(t)
      PROVE  UNCHANGED <<sent, count, ended>> \/ Ledger!LedgerNext
  BY <1>2, LedgerFree DEF Exit, statVars
<1>3. ASSUME NEW d \in Drainers,
             \/ StartDrain(d) \/ VisitLive(d) \/ VisitGone(d) \/ PopEvent(d) \/ PopEmpty(d)
             \/ EndVisits(d)
      PROVE  UNCHANGED <<sent, count, ended>>
  BY <1>3 DEF StartDrain, VisitLive, VisitGone, PopEvent, PopEmpty, EndVisits, threadVars,
              statVars, history
<1>4. ASSUME NEW d \in Drainers, SwapDropped(d)
      PROVE  UNCHANGED <<sent, count, ended>> \/ Ledger!LedgerNext
  <2>1. Head(todo[d]) \in Threads
    BY <1>4, Visited DEF Base, TypeOK, SwapDropped, DrainerAt
  <2> QED
    BY <1>4, <2>1, LedgerFree DEF SwapDropped, statVars
<1>5. ASSUME NEW c \in Callers, ReadStats(c) \/ \E o \in {"snapshot", "reset"} : Call(c, o)
      PROVE  UNCHANGED <<sent, count, ended>>
  BY <1>5 DEF ReadStats, Call, threadVars, statVars, history
<1>6. ASSUME Poll \/ Park \/ Timeout \/ UNCHANGED vars
      PROVE  UNCHANGED <<sent, count, ended>>
  BY <1>6 DEF Poll, Park, Timeout, vars, threadVars, statVars, history
<1> QED
  BY <1>1, <1>2, <1>3, <1>4, <1>5, <1>6, StepCases, LedgerStutter, LedgerRecord,
     LedgerPushFull, LedgerIngest, LedgerClear

LEMMA LedgerStart == Init => Ledger!LedgerInit
<1> SUFFICES ASSUME Init PROVE Ledger!LedgerInit
  OBVIOUS
<1>1. \A e \in Events : StatusOf(e) = "unsent"
  BY DEF Init, Nothing, StatusOf, Events
<1> QED
  BY <1>1 DEF Ledger!LedgerInit, Init

\* The pipeline implements EventLedger, for every number of threads, callers
\* and events: every step of a thread, a drain or a call changes the status of
\* events as one action of the ledger does, or not at all.
THEOREM PipelineImplementsLedger == Spec => ImplementsLedger
BY LedgerStart, LedgerStep, SpecPlaces, PTL DEF Spec, ImplementsLedger, Ledger!LedgerSpec
=============================================================================
