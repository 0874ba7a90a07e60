---------------------- MODULE AllocationTrackingProofs ----------------------
(****************************************************************************)
(* What the tracer knows of the heap, for every number of threads, blocks   *)
(* and hooks, with and without sampling.                                    *)
(****************************************************************************)
EXTENDS AllocationTracking, SumFacts, SequenceTheorems, TLAPS

-----------------------------------------------------------------------------
(* The maps.                                                                *)

LEMMA InsertedFacts ==
  ASSUME NEW f, NEW a, NEW r
  PROVE  /\ DOMAIN Inserted(f, a, r) = DOMAIN f \cup {a}
         /\ Inserted(f, a, r)[a] = r
         /\ \A b \in DOMAIN f : b # a => Inserted(f, a, r)[b] = f[b]
BY DEF Inserted

LEMMA ForgottenFacts ==
  ASSUME NEW f, NEW a
  PROVE  /\ DOMAIN Forgotten(f, a) = DOMAIN f \ {a}
         /\ \A b \in DOMAIN f : b # a => Forgotten(f, a)[b] = f[b]
BY DEF Forgotten, Restrict

\* A map from some of D to S.
MapOf(f, D, S) == DOMAIN f \subseteq D /\ Range(f) \subseteq S

LEMMA InsertedMap ==
  ASSUME NEW D, NEW S, NEW f, NEW a \in D, NEW r \in S, MapOf(f, D, S)
  PROVE  MapOf(Inserted(f, a, r), D, S)
BY DEF MapOf, Range, Inserted

LEMMA ForgottenMap ==
  ASSUME NEW D, NEW S, NEW f, NEW a, MapOf(f, D, S)
  PROVE  MapOf(Forgotten(f, a), D, S)
BY DEF MapOf, Range, Forgotten, Restrict

LEMMA EmptyMap ==
  ASSUME NEW D, NEW S, NEW f, DOMAIN f = {}
  PROVE  MapOf(f, D, S)
BY DEF MapOf, Range

-----------------------------------------------------------------------------
(* Types.                                                                   *)

HeapTypeOK ==
  /\ sampling \in BOOLEAN
  /\ heap \in [Addresses -> {"free", "busy"} \cup Live]
  /\ resetPC \in {"idle", "stats", "index", "allocations"}
  /\ due \subseteq Addresses

MapTypeOK == MapOf(index, Addresses, Record) /\ MapOf(allocations, Addresses, Sizes)

StatTypeOK ==
  /\ current \in [Stacks -> Int]
  /\ droppedEvents \in 0..MaxDropped
  /\ held \in [Threads -> Tally]
  /\ batch \in Tally
  /\ strangers \in Nat

ThreadTypeOK ==
  /\ pc \in [Threads -> ThreadPC]
  /\ call \in [Threads -> Calls]
  /\ out \in [Threads -> Seq(Event)]

LEMMA TypeParts == TypeOK <=> HeapTypeOK /\ MapTypeOK /\ StatTypeOK /\ ThreadTypeOK
BY DEF TypeOK, HeapTypeOK, MapTypeOK, MapOf, StatTypeOK, ThreadTypeOK

\* What a call has been given, and where it can be.
Given(c) ==
  /\ c.from \in Addresses
  /\ c.op \in {"malloc", "realloc", "grow"} => c.size \in Sizes
  /\ IF c.op = "freed" THEN c.to = Nowhere ELSE c.to \in Addresses
  /\ c.op \in {"malloc", "free"} => c.from = c.to
  /\ c.op = "grow" => c.from # c.to /\ c.hook = "first"

Fits(p, c, o) ==
  /\ p = "lookup" => c.op = "realloc"
  /\ p = "frames" => c.op \in {"malloc", "realloc", "grow"}
  /\ p = "put" => c.op = "realloc" /\ o # <<>>
  /\ p = "note" => c.op \in {"malloc", "realloc", "grow"}
  /\ p \in {"forget", "drop", "release"} => c.op \in {"free", "freed", "kept"}
  /\ p = "enqueue" => c.op # "none" /\ o # <<>>
  /\ p # "idle" => Given(c)

Where(t) == Fits(pc[t], call[t], out[t])

Base ==
  /\ HeapTypeOK /\ MapTypeOK /\ StatTypeOK /\ ThreadTypeOK
  /\ \A t \in Threads : Where(t)

LEMMA NothingType == Nothing \in Tally
BY DEF Nothing, Tally

LEMMA InitBase == Init => Base
<1> SUFFICES ASSUME Init PROVE Base
  OBVIOUS
<1>1. Resting \in Calls
  BY DEF Resting, Ask, Calls, Op
<1>2. DOMAIN index = {} /\ DOMAIN allocations = {}
  BY DEF Init
<1>3. HeapTypeOK
  BY DEF Init, HeapTypeOK
<1>4. MapTypeOK
  BY <1>2, EmptyMap DEF MapTypeOK
<1>5. StatTypeOK
  BY TrackingAssumption, NothingType DEF Init, StatTypeOK
<1>6. ThreadTypeOK
  BY <1>1 DEF Init, ThreadTypeOK, ThreadPC
<1>7. \A t \in Threads : Where(t)
  BY DEF Init, Where, Fits
<1> QED
  BY <1>3, <1>4, <1>5, <1>6, <1>7 DEF Base

\* The steps, one by one.
IsCalled(t, a) ==
  \/ \E n \in Sizes, kind \in Live : Malloc(t, a, n, kind)
  \/ Free(t, a) \/ ReallocFrees(t, a)
  \/ \E b \in Addresses, n \in Sizes : Realloc(t, a, b, n) \/ Grow(t, a, b, n)
  \/ \E b \in Addresses : ReallocKeeps(t, a, b)
  \/ \E kind \in Live : MallocUntracked(t, a, kind)
  \/ FreeUntracked(t, a)

GoesOn(t) ==
  \/ \E s \in Stacks, sampled \in BOOLEAN :
       (~sampling => sampled) /\ (Track(t, s, sampled) \/ Put(t, s, sampled))
  \/ Forget(t) \/ Untrack(t) \/ Lookup(t) \/ Retrack(t)
  \/ \E accepted \in BOOLEAN : Enqueue(t, accepted)
  \/ Note(t) \/ NoteInner(t) \/ Return(t) \/ ReturnInner(t)

Worked == Ingest \/ \E t \in Threads : Drain(t) \/ Exit(t)

LEMMA StepCases ==
  ASSUME [Next]_vars
  PROVE  \/ \E t \in Threads, a \in Addresses :
              IsCalled(t, a)
         \/ \E t \in Threads :
              GoesOn(t)
         \/ Worked
         \/ ResetDrain \/ ResetStats \/ ResetIndex \/ ClearAllocations
         \/ UNCHANGED vars
BY DEF Next, HookCall, HookStep, Clear, ShouldSample, IsCalled, GoesOn, Worked

\* A thread that is called, or goes on.
LEMMA BaseThread ==
  ASSUME Base, HeapTypeOK', MapTypeOK', StatTypeOK',
         NEW t \in Threads, NEW p \in ThreadPC, NEW c \in Calls, NEW o \in Seq(Event),
         pc' = [pc EXCEPT ![t] = p], call' = [call EXCEPT ![t] = c],
         out' = [out EXCEPT ![t] = o],
         Fits(p, c, o)
  PROVE  Base'
<1>1. ThreadTypeOK'
  BY DEF Base, ThreadTypeOK
<1>2. \A u \in Threads : Where(u)'
  BY DEF Base, ThreadTypeOK, Where
<1> QED
  BY <1>1, <1>2 DEF Base

LEMMA BaseBegin ==
  ASSUME Base, NEW t \in Threads, NEW p \in {"lookup", "frames", "forget"}, NEW c \in Calls,
         Begin(t, p, c),
         p = "lookup" => c.op = "realloc",
         p = "frames" => c.op \in {"malloc", "grow"},
         p = "forget" => c.op \in {"free", "freed", "kept"},
         Given(c),
         heap' \in [Addresses -> {"free", "busy"} \cup Live],
         due' \subseteq Addresses, strangers' \in Nat
  PROVE  Base'
<1>1. HeapTypeOK /\ MapTypeOK /\ StatTypeOK /\ ThreadTypeOK
  BY DEF Base
<1>2. HeapTypeOK' /\ MapTypeOK' /\ StatTypeOK'
  BY <1>1 DEF Begin, HeapTypeOK, MapTypeOK, StatTypeOK, statVars
<1>3. pc' = [pc EXCEPT ![t] = p] /\ call' = [call EXCEPT ![t] = c]
  BY DEF Begin, At
<1>4. out' = [out EXCEPT ![t] = out[t]] /\ out[t] \in Seq(Event)
  BY <1>1 DEF Begin, ThreadTypeOK
<1>5. p \in ThreadPC
  BY DEF ThreadPC
<1>6. Fits(p, c, out[t])
  BY DEF Fits
<1> QED
  BY <1>2, <1>3, <1>4, <1>5, <1>6, BaseThread

LEMMA BaseCalls ==
  ASSUME Base, NEW t \in Threads, NEW a \in Addresses, IsCalled(t, a)
  PROVE  Base'
<1>1. HeapTypeOK /\ MapTypeOK /\ StatTypeOK /\ ThreadTypeOK
  BY DEF Base
<1>2. \A n : Expect(a, n) /\ n \in Nat => strangers' \in Nat
  BY <1>1 DEF Expect, StatTypeOK
<1>3. ASSUME NEW n \in Sizes, NEW kind \in Live, Malloc(t, a, n, kind) PROVE Base'
  <2>1. /\ Ask("malloc", a, a, n, kind) \in Calls
        /\ Given(Ask("malloc", a, a, n, kind))
    BY DEF Ask, Calls, Op, Given
  <2>2. strangers' \in Nat /\ due' \subseteq Addresses
        /\ heap' \in [Addresses -> {"free", "busy"} \cup Live]
    BY <1>1, <1>3 DEF Malloc, StatTypeOK, HeapTypeOK
  <2>3. Ask("malloc", a, a, n, kind).op = "malloc"
    BY DEF Ask
  <2> QED
    BY <1>3, <2>1, <2>2, <2>3, BaseBegin DEF Malloc
<1>4. ASSUME NEW b \in Addresses \cup {Nowhere}, NEW op \in {"free", "freed", "kept"},
             Begin(t, "forget", Ask(op, a, b, 0, heap[a])), Expect(a, 1),
             op = "free" => b = a,
             IF op = "freed" THEN b = Nowhere ELSE b \in Addresses,
             due' = due \ {a}, heap' \in [Addresses -> {"free", "busy"} \cup Live]
      PROVE  Base'
  <2>1. /\ Ask(op, a, b, 0, heap[a]) \in Calls /\ Given(Ask(op, a, b, 0, heap[a]))
        /\ Ask(op, a, b, 0, heap[a]).op = op
    BY <1>4 DEF Ask, Calls, Op, Given
  <2>2. strangers' \in Nat /\ due' \subseteq Addresses
    BY <1>1, <1>2, <1>4 DEF HeapTypeOK
  <2> QED
    BY <1>4, <2>1, <2>2, BaseBegin
<1>5. CASE Free(t, a)
  BY <1>1, <1>4, <1>5 DEF Free, HeapTypeOK
<1>6. CASE ReallocFrees(t, a)
  BY <1>1, <1>4, <1>6 DEF ReallocFrees, HeapTypeOK
<1>7. ASSUME NEW b \in Addresses, ReallocKeeps(t, a, b) PROVE Base'
  BY <1>1, <1>4, <1>7 DEF ReallocKeeps, HeapTypeOK
<1>8. ASSUME NEW b \in Addresses, NEW n \in Sizes, Realloc(t, a, b, n) PROVE Base'
  <2> DEFINE c == Ask("realloc", a, b, n, heap[a])
  <2>1. c \in Calls /\ Given(c) /\ c.op = "realloc"
    BY DEF Ask, Calls, Op, Given
  <2>2. strangers' \in Nat /\ due' \subseteq Addresses
        /\ heap' \in [Addresses -> {"free", "busy"} \cup Live]
    BY <1>1, <1>2, <1>8 DEF Realloc, HeapTypeOK
  <2>3. Begin(t, "lookup", c)
    BY <1>8 DEF Realloc
  <2> HIDE DEF c
  <2> QED
    BY <2>1, <2>2, <2>3, BaseBegin
<1>9. ASSUME NEW kind \in Live, MallocUntracked(t, a, kind) \/ FreeUntracked(t, a)
      PROVE  Base'
  <2>1. HeapTypeOK' /\ MapTypeOK' /\ StatTypeOK' /\ ThreadTypeOK'
    BY <1>1, <1>9 DEF Live, MallocUntracked, FreeUntracked, HeapTypeOK, MapTypeOK, StatTypeOK,
                      ThreadTypeOK, statVars, threadVars
  <2>2. \A u \in Threads : Where(u)'
    BY <1>9 DEF MallocUntracked, FreeUntracked, Base, Where, threadVars
  <2> QED
    BY <2>1, <2>2 DEF Base
<1>10. ASSUME NEW b \in Addresses, NEW n \in Sizes, Grow(t, a, b, n) PROVE Base'
  <2> DEFINE c == Ask("grow", a, b, n, "large")
  <2>1. c \in Calls /\ c.op = "grow" /\ c.from = a /\ c.to = b /\ c.hook = "first"
        /\ c.size = n
    BY DEF Ask, Calls, Op
  <2>2. a # b
    BY <1>10 DEF Grow
  <2>3. Given(c)
    BY <2>1, <2>2 DEF Given
  <2>4. strangers' \in Nat /\ due' \subseteq Addresses
        /\ heap' \in [Addresses -> {"free", "busy"} \cup Live]
    BY <1>1, <1>10 DEF Grow, HeapTypeOK, StatTypeOK
  <2>5. Begin(t, "frames", c)
    BY <1>10 DEF Grow
  <2> HIDE DEF c
  <2> QED
    BY <2>1, <2>3, <2>4, <2>5, BaseBegin
<1>11. "live" \in Live
  BY DEF Live
<1> QED
  BY <1>3, <1>5, <1>6, <1>7, <1>8, <1>9, <1>10, <1>11 DEF IsCalled

LEMMA AfterEventsFits ==
  ASSUME NEW t \in Threads, NEW o \in Seq(Event), Given(call[t]), call[t].op \in Op \ {"none"}
  PROVE  /\ AfterEvents(t) \in ThreadPC
         /\ Fits(AfterEvents(t), call[t], o)
BY DEF AfterEvents, ThreadPC, Fits, Op

\* A call whose events are known.
LEMMA BaseEmit ==
  ASSUME Base, HeapTypeOK', MapTypeOK', StatTypeOK',
         NEW t \in Threads, NEW events \in Seq(Event), Emit(t, events), call' = call,
         pc[t] # "idle", call[t].op # "none"
  PROVE  Base'
<1>1. call \in [Threads -> Calls] /\ pc \in [Threads -> ThreadPC]
  BY DEF Base, ThreadTypeOK
<1>2. call[t] \in Calls /\ call' = [call EXCEPT ![t] = call[t]] /\ call[t].op \in Op \ {"none"}
  BY <1>1 DEF Calls
<1>3. Given(call[t])
  BY DEF Base, Where, Fits
<1>4. CASE events = <<>>
  <2>1. pc' = [pc EXCEPT ![t] = AfterEvents(t)] /\ out' = [out EXCEPT ![t] = events]
    BY <1>4 DEF Emit
  <2> QED
    BY <1>2, <1>3, <2>1, AfterEventsFits, BaseThread
<1>5. CASE events # <<>>
  <2>1. pc' = [pc EXCEPT ![t] = "enqueue"] /\ out' = [out EXCEPT ![t] = events]
    BY <1>5 DEF Emit
  <2>2. "enqueue" \in ThreadPC /\ Fits("enqueue", call[t], events)
    BY <1>2, <1>3, <1>5 DEF ThreadPC, Fits
  <2> QED
    BY <1>2, <2>1, <2>2, BaseThread
<1> QED
  BY <1>4, <1>5

\* What a hook may put into a buffer.
LEMMA EventTypes ==
  /\ \A n \in Sizes, s \in Stacks : Allocation(n, s) \in Event
  /\ \A n \in Sizes \cup {0}, r \in Record : Deallocation(n, r) \in Event
  /\ Missing(1) \in Seq(Event) /\ Missing(2) \in Seq(Event)
<1>1. \A n \in Sizes, s \in Stacks : Allocation(n, s) \in Event
  BY DEF Allocation, Event
<1>2. \A n \in Sizes \cup {0}, r \in Record : Deallocation(n, r) \in Event
  BY DEF Deallocation, Record, Event
<1>3. \A n \in {1, 2} : [kind |-> "dropped", count |-> n] \in Event
  BY DEF Event
<1> QED
  BY <1>1, <1>2, <1>3 DEF Missing

LEMMA SaturatedType == \A n \in Nat : Saturated(n) \in 0..MaxDropped
BY TrackingAssumption DEF Saturated

LEMMA PlusType == \A x, y \in Tally : Plus(x, y) \in Tally
<1> SUFFICES ASSUME NEW x \in Tally, NEW y \in Tally PROVE Plus(x, y) \in Tally
  OBVIOUS
<1>1. /\ x.bytes \in [Stacks -> Int] /\ y.bytes \in [Stacks -> Int]
      /\ x.dropped \in Nat /\ y.dropped \in Nat
  BY DEF Tally
<1>2. [s \in Stacks |-> x.bytes[s] + y.bytes[s]] \in [Stacks -> Int]
  BY <1>1
<1>3. x.dropped + y.dropped \in Nat
  BY <1>1
<1> QED
  BY <1>2, <1>3 DEF Plus, Tally

LEMMA TallyType == \A e \in Event : TallyOf(e) \in Tally
<1> SUFFICES ASSUME NEW e \in Event PROVE TallyOf(e) \in Tally
  OBVIOUS
<1>1. e.kind \in {"allocation", "deallocation"} => e.size \in Nat
  BY TrackingAssumption DEF Event
<1>2. \A s \in Stacks : Effect(e, s) \in Int
  BY <1>1 DEF Effect
<1>3. e.kind = "dropped" => e.count \in Nat
  BY DEF Event
<1> QED
  BY <1>2, <1>3 DEF TallyOf, Tally

\* What a drain or a refusal makes of a buffer.
LEMMA HeldTypes ==
  ASSUME StatTypeOK, NEW t \in Threads, NEW x \in Tally, held' = [held EXCEPT ![t] = x],
         batch' \in Tally, UNCHANGED <<current, droppedEvents, strangers>>
  PROVE  StatTypeOK'
BY DEF StatTypeOK

LEMMA BaseHooks ==
  ASSUME Base, NEW t \in Threads, GoesOn(t)
  PROVE  Base'
<1>1. HeapTypeOK /\ MapTypeOK /\ StatTypeOK /\ ThreadTypeOK /\ Where(t)
  BY DEF Base
<1>2. /\ call[t] \in Calls /\ pc[t] \in ThreadPC /\ out[t] \in Seq(Event)
      /\ call' = call => call' = [call EXCEPT ![t] = call[t]]
      /\ out' = out => out' = [out EXCEPT ![t] = out[t]]
  BY <1>1 DEF ThreadTypeOK
<1>3. pc[t] # "idle" => call[t].from \in Addresses
  BY <1>1 DEF Where, Fits, Given
<1>4. \A a \in DOMAIN index : index[a] \in Record
  BY <1>1 DEF MapTypeOK, MapOf, Range
<1>5. Sizes \subseteq Nat
  BY TrackingAssumption
<1>6. ASSUME NEW s \in Stacks, NEW sampled \in BOOLEAN, Track(t, s, sampled) PROVE Base'
  <2> DEFINE c == call[t]
             r == [size |-> c.size, stack |-> s]
             events == IF sampled THEN <<Allocation(c.size, s)>> ELSE <<>>
  <2>1. /\ c.op \in {"malloc", "grow"} /\ c.size \in Sizes /\ c.to \in Addresses
        /\ pc[t] = "frames"
    BY <1>1, <1>6 DEF Track, Where, Fits, Given
  <2>2. Allocation(c.size, s) \in Event /\ r \in Record
    BY <2>1, EventTypes DEF Record
  <2>3. events \in Seq(Event)
    BY <2>2
  <2>4. index' \in {Inserted(index, c.to, r), index} /\ allocations' = allocations
    BY <1>6 DEF Track
  <2>5. MapTypeOK'
    BY <1>1, <2>1, <2>2, <2>4, InsertedMap DEF MapTypeOK
  <2>6. HeapTypeOK' /\ StatTypeOK' /\ call' = call /\ Emit(t, events)
    BY <1>1, <1>6 DEF Track, HeapTypeOK, StatTypeOK, statVars, history
  <2> HIDE DEF c, r, events
  <2> QED
    BY <2>1, <2>3, <2>5, <2>6, BaseEmit DEF c
<1>7. ASSUME NEW s \in Stacks, NEW sampled \in BOOLEAN, Put(t, s, sampled) PROVE Base'
  <2> DEFINE c == call[t]
             r == [size |-> c.size, stack |-> s]
  <2>1. c.op = "realloc" /\ c.size \in Sizes /\ c.to \in Addresses /\ pc[t] = "put"
    BY <1>1, <1>7 DEF Put, At, Where, Fits, Given
  <2>2. Allocation(c.size, s) \in Event /\ r \in Record
    BY <2>1, EventTypes DEF Record
  <2>4. index' \in {Inserted(index, c.to, r), index} /\ allocations' = allocations
    BY <1>7 DEF Put
  <2>5. MapTypeOK'
    BY <1>1, <2>1, <2>2, <2>4, InsertedMap DEF MapTypeOK
  <2>6. HeapTypeOK' /\ StatTypeOK'
    BY <1>1, <1>7 DEF Put, HeapTypeOK, StatTypeOK, statVars, history
  <2>7. PICK o \in {out[t], Append(out[t], Allocation(c.size, s))} : out' = [out EXCEPT ![t] = o]
    BY <1>1, <1>7 DEF Put, ThreadTypeOK
  <2>8. CASE out[t] # <<>>
    <3>1. o \in Seq(Event) /\ o # <<>>
      BY <1>2, <2>2, <2>7, <2>8
    <3>2. Fits("enqueue", c, o) /\ "enqueue" \in ThreadPC
      BY <1>1, <2>1, <3>1 DEF Fits, ThreadPC, Where
    <3>3. pc' = [pc EXCEPT ![t] = "enqueue"] /\ call' = call
      BY <1>7 DEF Put, At
    <3> QED
      BY <1>2, <2>5, <2>6, <2>7, <3>1, <3>2, <3>3, BaseThread
  <2>9. out[t] # <<>>
    BY <1>1, <2>1 DEF Where, Fits
  <2> QED
    BY <2>8, <2>9
<1>8. CASE Forget(t)
  <2> DEFINE c == [call[t] EXCEPT !.old = SizeOf(call[t].from)]
  <2>1. SizeOf(call[t].from) \in Sizes \cup {0}
    BY <1>1 DEF SizeOf, MapTypeOK, MapOf, Range
  <2>2. c \in Calls /\ call' = [call EXCEPT ![t] = c] /\ pc' = [pc EXCEPT ![t] = "drop"]
    BY <1>1, <1>2, <1>8, <2>1 DEF Forget, At, Calls, ThreadTypeOK
  <2>3. Fits("drop", c, out[t]) /\ "drop" \in ThreadPC
    BY <1>1, <1>2, <1>8 DEF Forget, At, Where, Fits, Given, ThreadPC, Calls
  <2>4. HeapTypeOK' /\ StatTypeOK'
    BY <1>1, <1>8 DEF Forget, HeapTypeOK, StatTypeOK, statVars, history
  <2>5. MapTypeOK'
    BY <1>1, <1>8, ForgottenMap DEF Forget, MapTypeOK
  <2>6. out' = out
    BY <1>8 DEF Forget
  <2> HIDE DEF c
  <2> QED
    BY <1>2, <2>2, <2>3, <2>4, <2>5, <2>6, BaseThread
<1>9. CASE Lookup(t)
  <2> DEFINE c == [call[t] EXCEPT !.old = SizeOf(call[t].from)]
  <2>1. SizeOf(call[t].from) \in Sizes \cup {0}
    BY <1>1 DEF SizeOf, MapTypeOK, MapOf, Range
  <2>2. c \in Calls /\ call' = [call EXCEPT ![t] = c] /\ pc' = [pc EXCEPT ![t] = "frames"]
    BY <1>1, <1>2, <1>9, <2>1 DEF Lookup, At, Calls, ThreadTypeOK
  <2>3. Fits("frames", c, out[t]) /\ "frames" \in ThreadPC
    BY <1>1, <1>2, <1>9 DEF Lookup, At, Where, Fits, Given, ThreadPC, Calls
  <2>4. HeapTypeOK' /\ StatTypeOK' /\ MapTypeOK' /\ out' = out
    BY <1>1, <1>9 DEF Lookup, HeapTypeOK, StatTypeOK, MapTypeOK, statVars, history
  <2> HIDE DEF c
  <2> QED
    BY <1>2, <2>2, <2>3, <2>4, BaseThread
<1>10. CASE Untrack(t)
  <2> DEFINE c == call[t]
             events == IF c.from \in DOMAIN index
                         THEN <<Deallocation(c.old, index[c.from])>>
                         ELSE Missing(1)
  <2>1. c.op # "none" /\ pc[t] # "idle" /\ c.old \in Sizes \cup {0}
    BY <1>1, <1>2, <1>10 DEF Untrack, Where, Fits, Calls
  <2>2. events \in Seq(Event)
    <3>1. c.from \in DOMAIN index => Deallocation(c.old, index[c.from]) \in Event
      BY <1>4, <2>1, EventTypes
    <3> QED
      BY <3>1, EventTypes
  <2>3. MapTypeOK'
    BY <1>1, <1>10, ForgottenMap DEF Untrack, MapTypeOK
  <2>4. HeapTypeOK' /\ StatTypeOK' /\ call' = call /\ Emit(t, events)
    BY <1>1, <1>10 DEF Untrack, HeapTypeOK, StatTypeOK, statVars, history
  <2> HIDE DEF events
  <2> QED
    BY <2>1, <2>2, <2>3, <2>4, BaseEmit
<1>11. CASE Retrack(t)
  <2> DEFINE c == call[t]
  <2>1. c.op = "realloc" /\ pc[t] # "idle" /\ c.old \in Sizes \cup {0}
    BY <1>1, <1>2, <1>11 DEF Retrack, Where, Fits, Calls
  <2>2. MapTypeOK'
    BY <1>1, <1>11, ForgottenMap DEF Retrack, MapTypeOK
  <2>3. HeapTypeOK' /\ StatTypeOK' /\ call' = call
    BY <1>1, <1>11 DEF Retrack, HeapTypeOK, StatTypeOK, statVars, history
  <2>4. CASE c.from \in DOMAIN index
    <3> DEFINE d == Deallocation(c.old, index[c.from])
    <3>1. d \in Event
      BY <1>4, <2>1, <2>4, EventTypes
    <3>2. pc' = [pc EXCEPT ![t] = "put"] /\ out' = [out EXCEPT ![t] = <<d>>]
      BY <1>11, <2>4 DEF Retrack
    <3> HIDE DEF d
    <3>3. <<d>> \in Seq(Event) /\ <<d>> # <<>>
      BY <3>1
    <3>4. Fits("put", c, <<d>>) /\ "put" \in ThreadPC
      BY <1>1, <2>1, <3>3 DEF Where, Fits, ThreadPC
    <3> QED
      BY <1>2, <2>2, <2>3, <3>2, <3>3, <3>4, BaseThread
  <2>5. CASE c.from \notin DOMAIN index
    <3>1. Emit(t, Missing(2))
      BY <1>11, <2>5 DEF Retrack
    <3> QED
      BY <2>1, <2>2, <2>3, <3>1, BaseEmit, EventTypes
  <2> QED
    BY <2>4, <2>5
<1>12. ASSUME NEW accepted \in BOOLEAN, Enqueue(t, accepted) PROVE Base'
  <2>1. out[t] # <<>> /\ call[t].op # "none" /\ pc[t] # "idle"
    BY <1>1, <1>12 DEF Enqueue, Where, Fits
  <2>2. Head(out[t]) \in Event /\ Tail(out[t]) \in Seq(Event)
    BY <1>2, <2>1
  <2>3. StatTypeOK'
    <3> DEFINE x == IF accepted THEN Plus(held[t], TallyOf(Head(out[t])))
                    ELSE Refused(held[t])
    <3>1. held[t] \in Tally /\ batch \in Tally /\ held \in [Threads -> Tally]
      BY <1>1 DEF StatTypeOK
    <3>2. Plus(held[t], TallyOf(Head(out[t]))) \in Tally
      BY <2>2, <3>1, PlusType, TallyType
    <3>3. Refused(held[t]) \in Tally
      BY <3>1 DEF Tally, Refused
    <3>4. x \in Tally
      BY <3>2, <3>3
    <3>5. /\ held' = [held EXCEPT ![t] = x]
          /\ UNCHANGED <<batch, current, droppedEvents, strangers>>
      BY <1>12, <3>1 DEF Enqueue
    <3> HIDE DEF x
    <3> QED
      BY <1>1, <3>1, <3>4, <3>5, HeldTypes
  <2>4. HeapTypeOK' /\ MapTypeOK' /\ call' = call /\ Emit(t, Tail(out[t]))
    BY <1>1, <1>12 DEF Enqueue, HeapTypeOK, MapTypeOK
  <2> QED
    BY <2>1, <2>2, <2>3, <2>4, BaseEmit
<1>13. Resting \in Calls /\ Fits("idle", Resting, out[t]) /\ "idle" \in ThreadPC
  BY DEF Resting, Ask, Calls, Op, Fits, ThreadPC
<1>14. ASSUME Note(t) \/ NoteInner(t) PROVE MapTypeOK'
  <2>1. call[t].to \in Addresses /\ call[t].size \in Sizes
    BY <1>1, <1>14 DEF Note, NoteInner, Finish, At, Where, Fits, Given
  <2>2. MapOf(Forgotten(allocations, call[t].from), Addresses, Sizes)
        /\ MapOf(allocations, Addresses, Sizes)
    BY <1>1, ForgottenMap DEF MapTypeOK
  <2>3. MapOf(Noted(call[t]), Addresses, Sizes)
    BY <2>1, <2>2, InsertedMap DEF Noted
  <2> QED
    BY <1>1, <1>14, <2>3 DEF Note, NoteInner, MapTypeOK
<1>15. Kind(call[t]) \in Live
  BY DEF Kind, Live
<1>16. CASE Note(t)
  <2>1. HeapTypeOK' /\ StatTypeOK' /\ out' = out
    BY <1>1, <1>15, <1>16 DEF Note, HeapTypeOK, StatTypeOK, statVars, history
  <2> QED
    BY <1>2, <1>13, <1>14, <1>16, <2>1, BaseThread DEF Note, Finish, At
<1>17. CASE NoteInner(t)
  <2> DEFINE c == Outer(call[t])
             p == IF call[t].op = "malloc" THEN "frames" ELSE "lookup"
  <2>1. /\ call[t].op \in {"malloc", "realloc", "grow"} /\ Given(call[t])
        /\ call[t].from \in Addresses
    BY <1>1, <1>17 DEF NoteInner, At, Where, Fits, Given
  <2>2. /\ c \in Calls
        /\ c.op = IF call[t].op = "grow" THEN "realloc" ELSE call[t].op
        /\ c.from = call[t].from /\ c.to = call[t].to /\ c.size = call[t].size
    BY <1>2, <2>1 DEF Calls, Op, Outer
  <2>3. pc' = [pc EXCEPT ![t] = p] /\ call' = [call EXCEPT ![t] = c] /\ out' = out
    BY <1>1, <1>17 DEF NoteInner, At, ThreadTypeOK
  <2> HIDE DEF c
  <2>4. Fits(p, c, out[t]) /\ p \in ThreadPC
    BY <2>1, <2>2 DEF Fits, Given, ThreadPC
  <2>5. HeapTypeOK' /\ StatTypeOK'
    BY <1>1, <1>17, <2>1 DEF NoteInner, HeapTypeOK, StatTypeOK, statVars, history
  <2> HIDE DEF p
  <2> QED
    BY <1>2, <1>14, <1>17, <2>2, <2>3, <2>4, <2>5, BaseThread
<1>18. CASE Return(t)
  <2>1. HeapTypeOK'
    <3>1. heap' \in [Addresses -> {"free", "busy"} \cup Live]
      <4>1. \E x \in {"free"} \cup Live : \E a : heap' \in {heap, [heap EXCEPT ![a] = x]}
        BY <1>18 DEF Return, Live
      <4> QED
        BY <1>1, <4>1 DEF HeapTypeOK
    <3> QED
      BY <1>1, <1>18, <3>1 DEF Return, HeapTypeOK, history
  <2>2. MapTypeOK' /\ StatTypeOK' /\ out' = out
    BY <1>1, <1>18 DEF Return, MapTypeOK, StatTypeOK, statVars, history
  <2> QED
    BY <1>2, <1>13, <1>18, <2>1, <2>2, BaseThread DEF Return, Finish, At
<1>19. CASE ReturnInner(t)
  <2> DEFINE c == [call[t] EXCEPT !.hook = "second"]
  <2>1. call[t].op \in {"free", "freed", "kept"} /\ Given(call[t])
    BY <1>1, <1>19 DEF ReturnInner, At, Where, Fits
  <2>2. /\ c \in Calls /\ c.op = call[t].op
        /\ c.from = call[t].from /\ c.to = call[t].to /\ c.size = call[t].size
    BY <1>2, <2>1 DEF Calls
  <2>3. pc' = [pc EXCEPT ![t] = "forget"] /\ call' = [call EXCEPT ![t] = c] /\ out' = out
    BY <1>1, <1>19 DEF ReturnInner, At, ThreadTypeOK
  <2> HIDE DEF c
  <2>4. Fits("forget", c, out[t]) /\ "forget" \in ThreadPC
    BY <2>1, <2>2 DEF Fits, Given, ThreadPC
  <2>5. HeapTypeOK' /\ MapTypeOK' /\ StatTypeOK'
    BY <1>1, <1>19 DEF ReturnInner, HeapTypeOK, MapTypeOK, StatTypeOK, statVars, history
  <2> QED
    BY <1>2, <2>2, <2>3, <2>4, <2>5, BaseThread
<1> QED
  BY <1>6, <1>7, <1>8, <1>9, <1>10, <1>11, <1>12, <1>16, <1>17, <1>18, <1>19 DEF GoesOn

LEMMA BaseStep == Base /\ [Next]_vars => Base'
<1> SUFFICES ASSUME Base, [Next]_vars PROVE Base'
  OBVIOUS
<1>1. ASSUME UNCHANGED threadVars, HeapTypeOK', MapTypeOK', StatTypeOK' PROVE Base'
  BY <1>1 DEF Base, ThreadTypeOK, Where, threadVars
<1>2. HeapTypeOK /\ MapTypeOK /\ StatTypeOK
  BY DEF Base
<1>7. CASE Worked
  <2>1. held \in [Threads -> Tally] /\ batch \in Tally
    BY <1>2 DEF StatTypeOK
  <2>2. ASSUME NEW t \in Threads, Drain(t) PROVE StatTypeOK'
    <3>1. batch' \in Tally
      BY <2>1, <2>2, PlusType DEF Drain
    <3> QED
      BY <1>2, <2>2, <3>1, NothingType, HeldTypes DEF Drain, history
  <2>3. ASSUME NEW t \in Threads, Exit(t) PROVE StatTypeOK'
    BY <1>2, <2>1, <2>3, NothingType, HeldTypes DEF Exit
  <2>4. ASSUME Ingest PROVE StatTypeOK'
    <3>1. batch.bytes \in [Stacks -> Int] /\ batch.dropped \in Nat
      BY <2>1 DEF Tally
    <3>2. current' \in [Stacks -> Int]
      BY <1>2, <2>4, <3>1 DEF Ingest, StatTypeOK
    <3>3. droppedEvents' \in 0..MaxDropped
      <4>1. droppedEvents + batch.dropped \in Nat
        BY <1>2, <3>1 DEF StatTypeOK
      <4> QED
        BY <2>4, <4>1, SaturatedType DEF Ingest
    <3> QED
      BY <1>2, <2>4, <3>2, <3>3, NothingType DEF Ingest, StatTypeOK, history
  <2>5. StatTypeOK'
    BY <1>7, <2>2, <2>3, <2>4 DEF Worked
  <2>6. HeapTypeOK' /\ MapTypeOK' /\ UNCHANGED threadVars
    BY <1>2, <1>7 DEF Worked, Drain, Ingest, Exit, HeapTypeOK, MapTypeOK, history
  <2> QED
    BY <1>1, <2>5, <2>6
<1>8. CASE ResetDrain
  <2>1. held \in [Threads -> Tally] /\ IsFiniteSet(Threads)
    BY <1>2, TrackingAssumption DEF StatTypeOK
  <2>2. \A s \in Stacks : SumFunction([t \in Threads |-> held[t].bytes[s]]) \in Int
    <3> SUFFICES ASSUME NEW s \in Stacks
                 PROVE  SumFunction([t \in Threads |-> held[t].bytes[s]]) \in Int
      OBVIOUS
    <3>1. \A t \in Threads : held[t].bytes[s] \in Int
      BY <2>1 DEF Tally
    <3> DEFINE f == [t \in Threads |-> held[t].bytes[s]]
    <3>2. DOMAIN f = Threads /\ \A t \in Threads : f[t] \in Int
      BY <3>1
    <3> HIDE DEF f
    <3> QED
      BY <2>1, <3>2, SumInt DEF SumFunction, f
  <2>3. SumFunction([t \in Threads |-> held[t].dropped]) \in Nat
    <3>1. \A t \in Threads : held[t].dropped \in Nat
      BY <2>1 DEF Tally
    <3> DEFINE f == [t \in Threads |-> held[t].dropped]
    <3>2. DOMAIN f = Threads /\ \A t \in Threads : f[t] \in Nat
      BY <3>1
    <3> HIDE DEF f
    <3> QED
      BY <2>1, <3>2, SumNat DEF SumFunction, f
  <2>4. current' \in [Stacks -> Int]
    BY <1>2, <1>8, <2>2 DEF ResetDrain, StatTypeOK
  <2>5. droppedEvents' \in 0..MaxDropped
    <3>1. droppedEvents + SumFunction([t \in Threads |-> held[t].dropped]) \in Nat
      BY <1>2, <2>3 DEF StatTypeOK
    <3> QED
      BY <1>8, <3>1, SaturatedType DEF ResetDrain
  <2>6. StatTypeOK'
    BY <1>2, <1>8, <2>4, <2>5, NothingType DEF ResetDrain, StatTypeOK
  <2> QED
    BY <1>1, <1>2, <1>8, <2>6 DEF ResetDrain, ResetAt, HeapTypeOK, MapTypeOK
<1>3. CASE ResetStats
  BY <1>1, <1>2, <1>3, TrackingAssumption
  DEF ResetStats, ResetAt, HeapTypeOK, MapTypeOK, StatTypeOK
<1>4. CASE ResetIndex
  <2>1. MapTypeOK'
    <3>1. DOMAIN index' = {}
      BY <1>4 DEF ResetIndex
    <3> QED
      BY <1>2, <1>4, <3>1, EmptyMap DEF ResetIndex, MapTypeOK
  <2> QED
    BY <1>1, <1>2, <1>4, <2>1 DEF ResetIndex, ResetAt, HeapTypeOK, StatTypeOK, statVars
<1>5. CASE ClearAllocations
  <2>1. MapTypeOK'
    <3>1. DOMAIN allocations' = {}
      BY <1>5 DEF ClearAllocations
    <3> QED
      BY <1>2, <1>5, <3>1, EmptyMap DEF ClearAllocations, MapTypeOK
  <2> QED
    BY <1>1, <1>2, <1>5, <2>1 DEF ClearAllocations, ResetAt, HeapTypeOK, StatTypeOK, statVars
<1>6. CASE UNCHANGED vars
  BY <1>1, <1>2, <1>6 DEF vars, statVars, history, HeapTypeOK, MapTypeOK, StatTypeOK
<1> QED
  BY <1>3, <1>4, <1>5, <1>6, <1>7, <1>8, BaseCalls, BaseHooks, StepCases

\* Every variable keeps its type: an event is never asked for where there is
\* none, sizes are those of blocks, dropped_events saturates.
THEOREM TrackingTypeOK == Spec => []TypeOK
<1>1. Base => TypeOK
  BY TypeParts DEF Base
<1> QED
  BY <1>1, InitBase, BaseStep, PTL DEF Spec

-----------------------------------------------------------------------------
(* The shapes of the steps.                                                 *)

\* A hook is called: what it has done to the heap, and what is due.
Called(t, p, c) ==
  /\ pc[t] = "idle"
  /\ pc' = [pc EXCEPT ![t] = p]
  /\ call' = [call EXCEPT ![t] = c]
  /\ UNCHANGED <<sampling, index, allocations, resetPC>>
  /\ disturbed \subseteq disturbed' /\ skewed \subseteq skewed'
  /\ p = CASE c.op \in {"malloc", "grow"} -> "frames" [] c.op = "realloc" -> "lookup"
           [] OTHER -> "forget"
  /\ c \in Calls /\ c.op # "none" /\ Given(c)
  /\ c.hook = "only" \/ (c.hook = "first" /\ "twice" \in skewed')
  /\ IF c.op = "malloc" THEN heap[c.from] = "free" ELSE heap[c.from] \in Live
  /\ c.to \notin {c.from, Nowhere} => heap[c.to] = "free"
  /\ c.to # c.from => heap'[c.from] = IF c.op = "grow" THEN "busy" ELSE "free"
  /\ c.to # Nowhere => heap'[c.to] = "busy"
  /\ \A a \in Addresses \ {c.from, c.to} : heap'[a] = heap[a]
  /\ disturbed' = {} =>
       /\ resetPC = "idle"
       /\ c.op # "freed" /\ heap[c.to] = "free" => ~Unreported(c.to)
  /\ due' = CASE c.op = "malloc" -> due \cup {c.to}
             [] c.op = "grow" -> (due \ {c.from}) \cup {c.to}
             [] c.op = "realloc" ->
                  IF c.from \in due THEN (due \ {c.from}) \cup {c.to} ELSE due
             [] OTHER -> due \ {c.from}

\* A block comes or goes without the tracer.
Unheard(t, a) ==
  /\ UNCHANGED <<sampling, index, allocations, threadVars, resetPC, skewed>>
  /\ disturbed \subseteq disturbed'
  /\ \A b \in Addresses \ {a} : heap'[b] = heap[b]
  /\ \/ /\ heap[a] = "free" /\ heap'[a] \in Live
        /\ disturbed' = {} => ~Unreported(a)
        /\ due' = due
     \/ /\ heap[a] \in Live /\ heap'[a] = "free"
        /\ a \in DOMAIN index => "reentry" \in disturbed'
        /\ due' = due \ {a}

LEMMA CallShapes ==
  ASSUME Base, NEW t \in Threads, NEW a \in Addresses, IsCalled(t, a)
  PROVE  \/ \E p \in ThreadPC, c \in Calls : Called(t, p, c)
         \/ Unheard(t, a)
<1>1. /\ heap \in [Addresses -> {"free", "busy", "live", "large"}] /\ Nowhere \notin Addresses
      /\ Live = {"live", "large"}
  BY TrackingAssumption DEF Base, HeapTypeOK, Live
<1>2. \A b : Reused(b) = {} => ~Unreported(b)
  BY DEF Reused
<1>3. Overlap = {} => resetPC = "idle"
  BY DEF Overlap
<1>4. {"lookup", "frames", "forget"} \subseteq ThreadPC
  BY DEF ThreadPC
<1> DEFINE Shape == \E p \in ThreadPC, c \in Calls : Called(t, p, c)
<1>5. ASSUME NEW n \in Sizes, NEW kind \in Live, Malloc(t, a, n, kind) PROVE Shape
  <2> DEFINE c == Ask("malloc", a, a, n, kind)
  <2>1. c \in Calls /\ Given(c)
    BY DEF Ask, Calls, Op, Given
  <2>2. c.op = "malloc" /\ c.from = a /\ c.to = a /\ c.hook \in {"only", "first"}
    BY DEF Ask
  <2>3. /\ pc[t] = "idle" /\ pc' = [pc EXCEPT ![t] = "frames"] /\ call' = [call EXCEPT ![t] = c]
        /\ UNCHANGED <<sampling, index, allocations, resetPC>>
        /\ skewed \subseteq skewed' /\ (c.hook = "first" => "twice" \in skewed')
    BY <1>5 DEF Malloc, Begin, At, Skew
  <2>4. /\ heap[a] = "free" /\ heap'[a] = "busy"
        /\ \A b \in Addresses \ {a} : heap'[b] = heap[b]
    BY <1>1, <1>5 DEF Malloc
  <2>5. /\ disturbed \subseteq disturbed'
        /\ disturbed' = {} => resetPC = "idle" /\ ~Unreported(a)
    BY <1>2, <1>3, <1>5 DEF Malloc, Disturb
  <2>6. due' = due \cup {a}
    BY <1>5 DEF Malloc
  <2> HIDE DEF c
  <2>7. Called(t, "frames", c)
    BY <2>1, <2>2, <2>3, <2>4, <2>5, <2>6 DEF Called
  <2> QED
    BY <1>4, <2>1, <2>7
<1>6. ASSUME NEW b \in Addresses, NEW n \in Sizes, Realloc(t, a, b, n) PROVE Shape
  <2> DEFINE c == Ask("realloc", a, b, n, heap[a])
  <2>1. c \in Calls /\ Given(c)
    BY DEF Ask, Calls, Op, Given
  <2>2. c.op = "realloc" /\ c.from = a /\ c.to = b /\ c.hook \in {"only", "first"}
    BY DEF Ask
  <2>3. /\ pc[t] = "idle" /\ pc' = [pc EXCEPT ![t] = "lookup"] /\ call' = [call EXCEPT ![t] = c]
        /\ UNCHANGED <<sampling, index, allocations, resetPC>>
        /\ skewed \subseteq skewed' /\ (c.hook = "first" => "twice" \in skewed')
    BY <1>6 DEF Realloc, Begin, At, Skew
  <2>4. /\ heap[a] \in Live /\ (b # a => heap'[a] = "free" /\ heap[b] = "free")
        /\ heap'[b] = "busy"
        /\ \A x \in Addresses \ {a, b} : heap'[x] = heap[x]
    BY <1>1, <1>6 DEF Realloc
  <2>5. /\ disturbed \subseteq disturbed'
        /\ disturbed' = {} => resetPC = "idle" /\ ~Unreported(b)
    BY <1>2, <1>3, <1>6 DEF Realloc, Disturb
  <2>6. due' = IF a \in due THEN (due \ {a}) \cup {b} ELSE due
    BY <1>6 DEF Realloc
  <2> HIDE DEF c
  <2>7. Called(t, "lookup", c)
    BY <2>1, <2>2, <2>3, <2>4, <2>5, <2>6 DEF Called
  <2> QED
    BY <1>4, <2>1, <2>7
<1>7. ASSUME NEW b \in Addresses \cup {Nowhere}, NEW op \in {"free", "freed", "kept"},
             Begin(t, "forget", Ask(op, a, b, 0, heap[a])),
             Disturb(Reused(b) \cup Overlap) \/ b \in {a, Nowhere},
             Disturb(Overlap) \/ Disturb(Reused(b) \cup Overlap),
             op = "free" => b = a,
             IF op = "freed" THEN b = Nowhere ELSE b \in Addresses,
             due' = due \ {a}, heap[a] \in Live,
             b \notin {a, Nowhere} => heap[b] = "free",
             b # a => heap'[a] = "free",
             b # Nowhere => heap'[b] = "busy",
             \A x \in Addresses \ {a, b} : heap'[x] = heap[x]
      PROVE  Shape
  <2> DEFINE c == Ask(op, a, b, 0, heap[a])
  <2>1. c \in Calls /\ Given(c)
    BY <1>7 DEF Ask, Calls, Op, Given
  <2>2. c.op = op /\ c.from = a /\ c.to = b /\ c.hook \in {"only", "first"}
    BY DEF Ask
  <2>3. /\ pc[t] = "idle" /\ pc' = [pc EXCEPT ![t] = "forget"] /\ call' = [call EXCEPT ![t] = c]
        /\ UNCHANGED <<sampling, index, allocations, resetPC>>
        /\ skewed \subseteq skewed' /\ (c.hook = "first" => "twice" \in skewed')
    BY <1>7 DEF Begin, At, Skew
  <2>4. /\ disturbed \subseteq disturbed'
        /\ disturbed' = {} => resetPC = "idle" /\ (b \notin {a, Nowhere} => ~Unreported(b))
    BY <1>2, <1>3, <1>7 DEF Disturb
  <2> HIDE DEF c
  <2>5. Called(t, "forget", c)
    BY <1>1, <1>7, <2>1, <2>2, <2>3, <2>4 DEF Called
  <2> QED
    BY <1>4, <2>1, <2>5
<1>8. CASE Free(t, a)
  BY <1>1, <1>7, <1>8 DEF Free
<1>9. CASE ReallocFrees(t, a)
  BY <1>1, <1>7, <1>9 DEF ReallocFrees
<1>10. ASSUME NEW b \in Addresses, ReallocKeeps(t, a, b) PROVE Shape
  BY <1>1, <1>7, <1>10 DEF ReallocKeeps
<1>11. ASSUME NEW kind \in Live, MallocUntracked(t, a, kind) PROVE Unheard(t, a)
  BY <1>1, <1>2, <1>11 DEF MallocUntracked, Unheard, Disturb
<1>12. CASE FreeUntracked(t, a)
  BY <1>1, <1>12 DEF FreeUntracked, Unheard, Disturb
<1>13. ASSUME NEW b \in Addresses, NEW n \in Sizes, Grow(t, a, b, n) PROVE Shape
  <2> DEFINE c == Ask("grow", a, b, n, "large")
  <2>1. a # b /\ heap[a] \in Live /\ heap[b] = "free"
    BY <1>13 DEF Grow, Live
  <2>2. /\ c \in Calls /\ c.op = "grow" /\ c.from = a /\ c.to = b /\ c.hook = "first"
        /\ c.size = n
    BY DEF Ask, Calls, Op
  <2>3. Given(c)
    BY <2>1, <2>2 DEF Given
  <2>4. /\ pc[t] = "idle" /\ pc' = [pc EXCEPT ![t] = "frames"] /\ call' = [call EXCEPT ![t] = c]
        /\ UNCHANGED <<sampling, index, allocations, resetPC>>
        /\ skewed \subseteq skewed' /\ (c.hook = "first" => "twice" \in skewed')
    BY <1>13, <2>2 DEF Grow, Begin, At, Skew
  <2>5. /\ heap'[a] = "busy" /\ heap'[b] = "busy"
        /\ \A x \in Addresses \ {a, b} : heap'[x] = heap[x]
    BY <1>1, <1>13 DEF Grow
  <2>6. /\ disturbed \subseteq disturbed'
        /\ disturbed' = {} => resetPC = "idle" /\ ~Unreported(b)
    BY <1>2, <1>3, <1>13 DEF Grow, Disturb
  <2>7. due' = (due \ {a}) \cup {b}
    BY <1>13 DEF Grow
  <2> HIDE DEF c
  <2>8. Called(t, "frames", c)
    BY <2>1, <2>2, <2>3, <2>4, <2>5, <2>6, <2>7 DEF Called
  <2> QED
    BY <1>4, <2>2, <2>8
<1>14. "live" \in Live
  BY DEF Live
<1> QED
  BY <1>5, <1>6, <1>8, <1>9, <1>10, <1>11, <1>12, <1>13, <1>14 DEF IsCalled

\* A hook goes on ...
Went(t, p) ==
  /\ pc[t] # "idle"
  /\ pc' = [pc EXCEPT ![t] = p]
  /\ \A u \in Threads :
       /\ call'[u].op = call[u].op /\ call'[u].size = call[u].size
       /\ call'[u].from = call[u].from /\ call'[u].to = call[u].to
       /\ call'[u].hook = call[u].hook
  /\ UNCHANGED <<sampling, heap, resetPC, due, disturbed>>

Ends(t) == call[t].op \in {"free", "freed", "kept"}

Enters(t) ==
  \E r \in Record : r.size = call[t].size /\ index' = Inserted(index, call[t].to, r)

Leaves(t) == index' = Forgotten(index, call[t].from)

\* ... with the block it has to add to the index, if it is sampled,
Adding(t, p) ==
  /\ \/ pc[t] = "frames" /\ call[t].op \in {"malloc", "grow"}
     \/ pc[t] = "put" /\ call[t].op = "realloc"
  /\ p \in {"enqueue", "note"}
  /\ Enters(t) \/ (sampling /\ index' = index)
  /\ allocations' = allocations

\* the one it has to take out of the shim's map,
Forgetting(t, p) ==
  /\ pc[t] = "forget" /\ p = "drop" /\ Ends(t)
  /\ index' = index
  /\ allocations' = Forgotten(allocations, call[t].from)

\* or out of the index,
Removing(t, p) ==
  /\ pc[t] = "drop" /\ p \in {"enqueue", "release"} /\ Ends(t)
  /\ Leaves(t)
  /\ allocations' = allocations

Moving(t, p) ==
  /\ pc[t] = "frames" /\ call[t].op = "realloc"
  /\ IF call[t].from \in DOMAIN index THEN p = "put" ELSE p \in {"enqueue", "note"}
  /\ Leaves(t)
  /\ allocations' = allocations

\* or with neither.
Passing(t, p) ==
  /\ \/ pc[t] = "lookup" /\ p = "frames" /\ call[t].op = "realloc"
     \/ pc[t] = "enqueue" /\ p = "enqueue"
     \/ pc[t] = "enqueue" /\ p = IF Ends(t) THEN "release" ELSE "note"
  /\ UNCHANGED <<index, allocations>>

\* A hook returns to the interpreter,
Finished(t) ==
  /\ pc[t] = IF Ends(t) THEN "release" ELSE "note"
  /\ call[t].hook # "first"
  /\ pc' = [pc EXCEPT ![t] = "idle"]
  /\ call' = [call EXCEPT ![t] = Resting]
  /\ UNCHANGED <<sampling, index, resetPC, due, disturbed>>
  /\ allocations' = IF Ends(t) THEN allocations ELSE Noted(call[t])
  /\ IF call[t].op = "freed" THEN heap' = heap
     ELSE \E x \in {"free"} \cup Live :
            /\ (x = "free") <=> (call[t].op = "free")
            /\ heap' = [heap EXCEPT ![call[t].to] = x]

\* or to the hook of the other domain.
Again(t) ==
  /\ pc[t] = IF Ends(t) THEN "release" ELSE "note"
  /\ call[t].hook = "first"
  /\ pc' = [pc EXCEPT ![t] = IF Ends(t) THEN "forget"
                             ELSE IF call[t].op = "malloc" THEN "frames" ELSE "lookup"]
  /\ \E c \in Calls :
       /\ call' = [call EXCEPT ![t] = c]
       /\ c.op = (IF call[t].op = "grow" THEN "realloc" ELSE call[t].op)
       /\ c.hook = "second" /\ c.size = call[t].size
       /\ c.from = call[t].from /\ c.to = call[t].to
  /\ UNCHANGED <<sampling, index, resetPC, due, disturbed>>
  /\ allocations' = IF Ends(t) THEN allocations ELSE Noted(call[t])
  /\ heap' = IF call[t].op = "grow" THEN [heap EXCEPT ![call[t].from] = "free"] ELSE heap

LEMMA EmitGoes ==
  ASSUME NEW t \in Threads, NEW events, Emit(t, events)
  PROVE  \E p \in {"enqueue", AfterEvents(t)} : pc' = [pc EXCEPT ![t] = p]
BY DEF Emit

LEMMA HookShapes ==
  ASSUME Base, NEW t \in Threads, GoesOn(t)
  PROVE  \/ Finished(t) \/ Again(t)
         \/ \E p \in ThreadPC \ {"idle"} :
              /\ Went(t, p)
              /\ \/ Adding(t, p) \/ Forgetting(t, p) \/ Removing(t, p)
                 \/ Moving(t, p) \/ Passing(t, p)
<1>1. /\ call \in [Threads -> Calls] /\ pc \in [Threads -> ThreadPC]
      /\ Where(t) /\ Sizes \cup {0} \subseteq Int
  BY TrackingAssumption DEF Base, ThreadTypeOK
<1>2. /\ \A u \in Threads : call[u] \in Calls
      /\ call[t].op \in Op
  BY <1>1 DEF Calls
<1> DEFINE Shape(p) == \/ Adding(t, p) \/ Forgetting(t, p) \/ Removing(t, p)
                       \/ Moving(t, p) \/ Passing(t, p)
           Goal == \/ Finished(t) \/ Again(t)
                   \/ \E p \in ThreadPC \ {"idle"} : Went(t, p) /\ Shape(p)
<1>3. ASSUME NEW p \in ThreadPC \ {"idle"}, pc[t] # "idle", pc' = [pc EXCEPT ![t] = p],
             \/ call' = call
             \/ call' = [call EXCEPT ![t].old = SizeOf(call[t].from)],
             UNCHANGED <<sampling, heap, resetPC, due, disturbed>>
      PROVE  Went(t, p)
  <2>1. \A u \in Threads :
          /\ call'[u].op = call[u].op /\ call'[u].size = call[u].size
          /\ call'[u].from = call[u].from /\ call'[u].to = call[u].to
          /\ call'[u].hook = call[u].hook
    BY <1>1, <1>2, <1>3 DEF Calls
  <2> QED
    BY <1>3, <2>1 DEF Went
<1>4. ASSUME NEW events, Emit(t, events), pc[t] # "idle", call[t].op # "none"
      PROVE  \E p \in {"enqueue", IF Ends(t) THEN "release" ELSE "note"} :
               /\ p \in ThreadPC \ {"idle"}
               /\ pc' = [pc EXCEPT ![t] = p]
  BY <1>2, <1>4, EmitGoes DEF AfterEvents, Ends, Op, ThreadPC
<1>5. ASSUME NEW s \in Stacks, NEW sampled \in BOOLEAN, ~sampling => sampled,
             Track(t, s, sampled)
      PROVE  Goal
  <2> DEFINE r == [size |-> call[t].size, stack |-> s]
  <2>1. /\ pc[t] = "frames" /\ call[t].op \in {"malloc", "grow"} /\ ~Ends(t) /\ r \in Record
        /\ r.size = call[t].size
    BY <1>1, <1>5 DEF Track, Where, Fits, Given, Record, Ends
  <2>2. PICK p \in {"enqueue", "note"} : p \in ThreadPC \ {"idle"} /\ pc' = [pc EXCEPT ![t] = p]
    BY <1>4, <1>5, <2>1 DEF Track
  <2>3. Went(t, p)
    BY <1>3, <1>5, <2>1, <2>2 DEF Track, history
  <2>4. \/ index' = Inserted(index, call[t].to, r)
        \/ sampling /\ index' = index
    BY <1>5 DEF Track
  <2>6. allocations' = allocations
    BY <1>5 DEF Track
  <2> HIDE DEF r
  <2>5. Adding(t, p)
    BY <2>1, <2>2, <2>4, <2>6 DEF Adding, Enters
  <2> QED
    BY <2>2, <2>3, <2>5
<1>6. ASSUME NEW s \in Stacks, NEW sampled \in BOOLEAN, ~sampling => sampled,
             Put(t, s, sampled)
      PROVE  Goal
  <2> DEFINE r == [size |-> call[t].size, stack |-> s]
  <2>1. /\ pc[t] = "put" /\ call[t].op = "realloc" /\ r \in Record
        /\ r.size = call[t].size
    BY <1>1, <1>6 DEF Put, At, Where, Fits, Given, Record
  <2>2. pc' = [pc EXCEPT ![t] = "enqueue"] /\ "enqueue" \in ThreadPC \ {"idle"}
    BY <1>6 DEF Put, At, ThreadPC
  <2>3. Went(t, "enqueue")
    BY <1>3, <1>6, <2>1, <2>2 DEF Put, history
  <2>4. \/ index' = Inserted(index, call[t].to, r)
        \/ sampling /\ index' = index
    BY <1>6 DEF Put
  <2>6. allocations' = allocations
    BY <1>6 DEF Put
  <2> HIDE DEF r
  <2>5. Adding(t, "enqueue")
    BY <2>1, <2>2, <2>4, <2>6 DEF Adding, Enters
  <2> QED
    BY <2>2, <2>3, <2>5
<1>7. CASE Forget(t)
  <2>1. pc[t] = "forget" /\ Ends(t) /\ "drop" \in ThreadPC \ {"idle"}
    BY <1>1, <1>7 DEF Forget, At, Where, Fits, Ends, ThreadPC
  <2>2. Went(t, "drop")
    BY <1>3, <1>7, <2>1 DEF Forget, At, history
  <2>3. Forgetting(t, "drop")
    BY <1>7, <2>1 DEF Forget, Forgetting
  <2> QED
    BY <2>1, <2>2, <2>3
<1>8. CASE Untrack(t)
  <2>1. pc[t] = "drop" /\ Ends(t) /\ call[t].op # "none"
    BY <1>1, <1>8 DEF Untrack, Where, Fits, Ends
  <2>2. PICK p \in {"enqueue", "release"} : p \in ThreadPC \ {"idle"} /\ pc' = [pc EXCEPT ![t] = p]
    BY <1>4, <1>8, <2>1 DEF Untrack
  <2>3. Went(t, p)
    BY <1>3, <1>8, <2>1, <2>2 DEF Untrack, history
  <2>4. Removing(t, p)
    BY <1>8, <2>1, <2>2 DEF Removing, Leaves, Untrack
  <2> QED
    BY <2>2, <2>3, <2>4
<1>9. CASE Lookup(t)
  <2>1. pc[t] = "lookup" /\ call[t].op = "realloc" /\ "frames" \in ThreadPC \ {"idle"}
    BY <1>1, <1>9 DEF Lookup, At, Where, Fits, ThreadPC
  <2>2. Went(t, "frames")
    BY <1>3, <1>9, <2>1 DEF Lookup, At, history
  <2>3. Passing(t, "frames")
    BY <1>9, <2>1 DEF Lookup, Passing
  <2> QED
    BY <2>1, <2>2, <2>3
<1>10. CASE Retrack(t)
  <2>1. pc[t] = "frames" /\ call[t].op = "realloc" /\ ~Ends(t)
    BY <1>10 DEF Retrack, Ends
  <2>2. \E p \in ThreadPC \ {"idle"} :
          /\ pc' = [pc EXCEPT ![t] = p]
          /\ IF call[t].from \in DOMAIN index THEN p = "put" ELSE p \in {"enqueue", "note"}
    <3>1. CASE call[t].from \in DOMAIN index
      BY <1>10, <3>1 DEF Retrack, ThreadPC
    <3>2. CASE call[t].from \notin DOMAIN index
      <4>1. Emit(t, Missing(2))
        BY <1>10, <3>2 DEF Retrack
      <4> QED
        BY <1>4, <2>1, <3>2, <4>1
    <3> QED
      BY <3>1, <3>2
  <2>3. PICK p \in ThreadPC \ {"idle"} :
          /\ pc' = [pc EXCEPT ![t] = p]
          /\ IF call[t].from \in DOMAIN index THEN p = "put" ELSE p \in {"enqueue", "note"}
    BY <2>2
  <2>4. Went(t, p)
    BY <1>3, <1>10, <2>1, <2>3 DEF Retrack, history
  <2>5. Moving(t, p)
    BY <1>10, <2>1, <2>3 DEF Moving, Leaves, Retrack
  <2> QED
    BY <2>4, <2>5
<1>11. ASSUME NEW accepted \in BOOLEAN, Enqueue(t, accepted) PROVE Goal
  <2>1. pc[t] = "enqueue" /\ call[t].op # "none"
    BY <1>1, <1>11 DEF Enqueue, Where, Fits
  <2>2. PICK p \in {"enqueue", IF Ends(t) THEN "release" ELSE "note"} :
          p \in ThreadPC \ {"idle"} /\ pc' = [pc EXCEPT ![t] = p]
    BY <1>4, <1>11, <2>1 DEF Enqueue
  <2>3. Went(t, p)
    BY <1>3, <1>11, <2>1, <2>2 DEF Enqueue
  <2>4. Passing(t, p)
    BY <1>11, <2>1, <2>2 DEF Passing, Enqueue
  <2> QED
    BY <2>2, <2>3, <2>4
<1>12. CASE Note(t)
  <2>1. pc[t] = "note" /\ call[t].op \in {"malloc", "realloc", "grow"}
    BY <1>1, <1>12 DEF Note, Finish, At, Where, Fits
  <2>2. Kind(call[t]) \in Live /\ "free" \notin Live
    BY DEF Kind, Live
  <2> QED
    BY <1>12, <2>1, <2>2 DEF Note, Finish, At, Finished, Ends, history
<1>13. CASE Return(t)
  <2>1. pc[t] = "release" /\ Ends(t) /\ (call[t].op = "free" => call[t].from = call[t].to)
    BY <1>1, <1>13 DEF Return, Finish, At, Where, Fits, Ends, Given
  <2>2. "free" \notin Live
    BY DEF Live
  <2>3. /\ pc' = [pc EXCEPT ![t] = "idle"] /\ call' = [call EXCEPT ![t] = Resting]
        /\ call[t].hook # "first"
        /\ UNCHANGED <<sampling, index, resetPC, due, disturbed, allocations>>
    BY <1>13 DEF Return, Finish, At, history
  <2>4. IF call[t].op = "freed" THEN heap' = heap
        ELSE \E x \in {"free"} \cup Live :
               /\ (x = "free") <=> (call[t].op = "free")
               /\ heap' = [heap EXCEPT ![call[t].to] = x]
    BY <1>13, <2>1, <2>2 DEF Return
  <2> QED
    BY <2>1, <2>3, <2>4 DEF Finished
<1>14. CASE NoteInner(t)
  <2>1. pc[t] = "note" /\ call[t].op \in {"malloc", "realloc", "grow"}
    BY <1>1, <1>14 DEF NoteInner, At, Where, Fits
  <2> DEFINE c == Outer(call[t])
  <2>2. /\ c \in Calls /\ c.hook = "second" /\ c.size = call[t].size
        /\ c.op = (IF call[t].op = "grow" THEN "realloc" ELSE call[t].op)
        /\ c.from = call[t].from /\ c.to = call[t].to
    BY <1>2 DEF Calls, Op, Outer
  <2>3. call' = [call EXCEPT ![t] = c]
    BY <1>14 DEF NoteInner
  <2> HIDE DEF c
  <2> QED
    BY <1>14, <2>1, <2>2, <2>3 DEF NoteInner, At, Again, Ends, history
<1>15. CASE ReturnInner(t)
  <2>1. pc[t] = "release" /\ Ends(t) /\ call[t].op # "grow"
    BY <1>1, <1>15 DEF ReturnInner, At, Where, Fits, Ends
  <2> DEFINE c == [call[t] EXCEPT !.hook = "second"]
  <2>2. /\ c \in Calls /\ c.hook = "second" /\ c.size = call[t].size
        /\ c.op = call[t].op
        /\ c.from = call[t].from /\ c.to = call[t].to
    BY <1>2 DEF Calls
  <2>3. call' = [call EXCEPT ![t] = c]
    BY <1>1, <1>15 DEF ReturnInner
  <2> HIDE DEF c
  <2> QED
    BY <1>15, <2>1, <2>2, <2>3 DEF ReturnInner, At, Again, history
<1> QED
  BY <1>5, <1>6, <1>7, <1>8, <1>9, <1>10, <1>11, <1>12, <1>13, <1>14, <1>15 DEF GoesOn

-----------------------------------------------------------------------------
(* Who holds a block.                                                       *)

Holds(t, a) ==
  /\ pc[t] # "idle"
  /\ \/ call[t].op # "freed" /\ call[t].to = a
     \/ call[t].op = "grow" /\ call[t].from = a

HeldBusy == \A t \in Threads, a \in Addresses : Holds(t, a) => heap[a] = "busy"

HeldOnce ==
  \A t, u \in Threads, a \in Addresses : Holds(t, a) /\ Holds(u, a) => t = u

Owned == Base /\ HeldBusy /\ HeldOnce

\* A step that concerns the statistics alone.
Aside ==
  /\ UNCHANGED <<sampling, heap, index, allocations, pc, call, out, due>>
  /\ disturbed \subseteq disturbed'
  /\ UNCHANGED <<resetPC, disturbed>> \/ ResetDrain

\* The cases of a step, with the shapes above.
Steps ==
  \/ \E t \in Threads, p \in ThreadPC, c \in Calls : Called(t, p, c)
  \/ \E t \in Threads, a \in Addresses : Unheard(t, a)
  \/ \E t \in Threads : Finished(t) \/ Again(t)
  \/ \E t \in Threads, p \in ThreadPC \ {"idle"} :
       /\ Went(t, p)
       /\ \/ Adding(t, p) \/ Forgetting(t, p) \/ Removing(t, p)
          \/ Moving(t, p) \/ Passing(t, p)
  \/ Aside
  \/ ResetStats \/ ResetIndex \/ ClearAllocations

LEMMA AllSteps == Base /\ [Next]_vars => Steps
<1> SUFFICES ASSUME Base, [Next]_vars PROVE Steps
  OBVIOUS
<1>1. ASSUME NEW t \in Threads, NEW a \in Addresses, IsCalled(t, a) PROVE Steps
  BY <1>1, CallShapes DEF Steps
<1>2. ASSUME NEW t \in Threads, GoesOn(t) PROVE Steps
  BY <1>2, HookShapes DEF Steps
<1>3. ASSUME ResetStats \/ ResetIndex \/ ClearAllocations PROVE Steps
  BY <1>3 DEF Steps
<1>4. CASE Worked
  <2>1. Aside
    BY <1>4 DEF Worked, Ingest, Drain, Exit, Aside, threadVars, history
  <2> QED
    BY <2>1 DEF Steps
<1>5. CASE ResetDrain
  <2>1. Aside
    BY <1>5 DEF ResetDrain, ResetAt, Disturb, Aside, threadVars
  <2> QED
    BY <2>1 DEF Steps
<1>6. CASE UNCHANGED vars
  <2>1. Aside
    BY <1>6 DEF vars, Aside, threadVars, history
  <2> QED
    BY <2>1 DEF Steps
<1> QED
  BY <1>1, <1>2, <1>3, <1>4, <1>5, <1>6, StepCases

\* A thread that goes on holds what it held.
LEMMA WentHolds ==
  ASSUME Base, NEW t \in Threads, NEW p \in ThreadPC \ {"idle"}, Went(t, p)
  PROVE  \A u \in Threads, a \in Addresses :
           /\ Holds(u, a)' <=> Holds(u, a)
           /\ pc'[u] # "idle" <=> pc[u] # "idle"
           /\ u # t => pc'[u] = pc[u]
           /\ pc'[t] = p
BY DEF Base, ThreadTypeOK, Went, Holds

\* A thread whose hook returns holds nothing; one that is called holds the
\* block it works on.
LEMMA FinishedHolds ==
  ASSUME Base, NEW t \in Threads, Finished(t)
  PROVE  \A u \in Threads, a \in Addresses :
           /\ Holds(u, a)' <=> u # t /\ Holds(u, a)
           /\ u # t => pc'[u] = pc[u] /\ call'[u] = call[u]
           /\ pc'[t] = "idle"
BY DEF Base, ThreadTypeOK, Finished, Holds

LEMMA AgainHolds ==
  ASSUME Base, NEW t \in Threads, Again(t)
  PROVE  \A u \in Threads, a \in Addresses :
           /\ Holds(u, a)' => Holds(u, a)
           /\ u # t => pc'[u] = pc[u] /\ call'[u] = call[u]
           /\ heap'[a] = heap[a] \/ (Holds(t, a) /\ ~Holds(t, a)')
<1>1. /\ pc \in [Threads -> ThreadPC] /\ call \in [Threads -> Calls]
      /\ heap \in [Addresses -> {"free", "busy"} \cup Live]
  BY DEF Base, ThreadTypeOK, HeapTypeOK
<1>2. pc[t] # "idle" /\ pc'[t] # "idle" /\ Given(call[t])
  BY <1>1 DEF Again, Base, Where, Fits
<1>3. /\ call'[t].op = (IF call[t].op = "grow" THEN "realloc" ELSE call[t].op)
      /\ call'[t].from = call[t].from /\ call'[t].to = call[t].to
  BY <1>1 DEF Again
<1>4. \A u \in Threads : u # t => pc'[u] = pc[u] /\ call'[u] = call[u]
  BY <1>1 DEF Again
<1>5. \A u \in Threads, a \in Addresses : Holds(u, a)' => Holds(u, a)
  BY <1>2, <1>3, <1>4 DEF Holds
<1>6. \A a \in Addresses : heap'[a] = heap[a] \/ (call[t].op = "grow" /\ a = call[t].from)
  BY <1>1 DEF Again
<1>7. ASSUME NEW a \in Addresses, call[t].op = "grow", a = call[t].from
      PROVE  Holds(t, a) /\ ~Holds(t, a)'
  BY <1>2, <1>3, <1>7 DEF Holds, Given
<1> QED
  BY <1>4, <1>5, <1>6, <1>7

LEMMA CalledHolds ==
  ASSUME Base, NEW t \in Threads, NEW p \in ThreadPC, NEW c \in Calls, Called(t, p, c)
  PROVE  \A u \in Threads, a \in Addresses :
           /\ Holds(u, a)' <=>
                IF u = t THEN \/ c.op # "freed" /\ c.to = a
                              \/ c.op = "grow" /\ c.from = a
                ELSE Holds(u, a)
           /\ u # t => pc'[u] = pc[u] /\ call'[u] = call[u]
           /\ pc'[t] = p /\ p # "idle" /\ call'[t] = c
BY DEF Base, ThreadTypeOK, Called, Holds

LEMMA OwnedStep == Owned /\ [Next]_vars => Owned'
<1> SUFFICES ASSUME Owned, [Next]_vars PROVE HeldBusy' /\ HeldOnce'
  BY BaseStep DEF Owned
<1>1. Base /\ HeldBusy /\ HeldOnce
  BY DEF Owned
<1>2. /\ heap \in [Addresses -> {"free", "busy", "live", "large"}]
      /\ Live = {"live", "large"} /\ Nowhere \notin Addresses
  BY <1>1, TrackingAssumption DEF Base, HeapTypeOK, Live
<1>3. \A t \in Threads : pc[t] # "idle" => Given(call[t])
  BY <1>1 DEF Base, Where, Fits
<1>4. ASSUME NEW t \in Threads, NEW p \in ThreadPC, NEW c \in Calls, Called(t, p, c)
      PROVE  HeldBusy' /\ HeldOnce'
  <2>1. /\ c.op # "freed" => c.to \in Addresses /\ c.to # Nowhere /\ heap'[c.to] = "busy"
        /\ c.op = "grow" => heap'[c.from] = "busy"
    BY <1>2, <1>4 DEF Called, Given
  <2>2. \A u \in Threads : c.op # "freed" => ~Holds(u, c.to)
    <3>1. c.op # "freed" => heap[c.to] # "busy"
      BY <1>2, <1>4, <2>1 DEF Called
    <3> QED
      BY <1>1, <2>1, <3>1 DEF HeldBusy
  <2>3. \A u \in Threads : ~Holds(u, c.from)
    BY <1>1, <1>2, <1>4 DEF Called, HeldBusy, Given
  <2>4. ASSUME NEW u \in Threads, NEW a \in Addresses, Holds(u, a)' PROVE heap'[a] = "busy"
    <3>1. CASE u = t
      BY <1>1, <1>4, <2>1, <2>4, <3>1, CalledHolds
    <3>2. CASE u # t
      <4>1. Holds(u, a)
        BY <1>1, <1>4, <2>4, <3>2, CalledHolds
      <4>2. a # c.from /\ (c.op # "freed" => a # c.to)
        BY <2>2, <2>3, <4>1
      <4>3. a # c.to
        BY <1>2, <1>4, <4>2 DEF Called, Given
      <4> QED
        BY <1>1, <1>4, <4>1, <4>2, <4>3 DEF Called, HeldBusy
    <3> QED
      BY <3>1, <3>2
  <2>5. ASSUME NEW u \in Threads, NEW v \in Threads, NEW a \in Addresses,
               Holds(u, a)', Holds(v, a)'
        PROVE  u = v
    BY <1>1, <1>4, <2>2, <2>3, <2>5, CalledHolds DEF HeldOnce
  <2> QED
    BY <2>4, <2>5 DEF HeldBusy, HeldOnce
<1>5. ASSUME NEW t \in Threads, NEW a \in Addresses, Unheard(t, a)
      PROVE  HeldBusy' /\ HeldOnce'
  <2>1. \A u \in Threads, b \in Addresses : Holds(u, b)' <=> Holds(u, b)
    BY <1>5 DEF Unheard, threadVars, Holds
  <2>2. heap[a] # "busy" /\ \A b \in Addresses \ {a} : heap'[b] = heap[b]
    BY <1>2, <1>5 DEF Unheard
  <2>3. \A u \in Threads, b \in Addresses : Holds(u, b) => heap'[b] = "busy"
    BY <1>1, <2>2 DEF HeldBusy
  <2> QED
    BY <1>1, <2>1, <2>3 DEF HeldBusy, HeldOnce
<1>6. ASSUME NEW t \in Threads, Finished(t) PROVE HeldBusy' /\ HeldOnce'
  <2>1. call[t].op # "none" /\ Given(call[t])
    BY <1>1, <1>6 DEF Finished, Ends, Base, Where, Fits
  <2>2. \A b \in Addresses : heap'[b] = heap[b] \/ Holds(t, b)
    <3>1. pc[t] # "idle"
      BY <1>6 DEF Finished
    <3>2. CASE call[t].op = "freed"
      BY <1>6, <3>2 DEF Finished
    <3>3. CASE call[t].op # "freed"
      BY <1>2, <1>6, <2>1, <3>1, <3>3 DEF Finished, Holds, Given
    <3> QED
      BY <3>2, <3>3
  <2>3. \A u \in Threads, b \in Addresses : Holds(u, b)' => Holds(u, b) /\ u # t
    BY <1>1, <1>6, FinishedHolds
  <2>4. \A u \in Threads, b \in Addresses : Holds(u, b)' => heap'[b] = "busy"
    BY <1>1, <2>2, <2>3 DEF HeldBusy, HeldOnce
  <2> QED
    BY <1>1, <2>3, <2>4 DEF HeldBusy, HeldOnce
<1>7. ASSUME NEW t \in Threads, NEW p \in ThreadPC \ {"idle"}, Went(t, p)
      PROVE  HeldBusy' /\ HeldOnce'
  <2>1. heap' = heap
    BY <1>7 DEF Went
  <2> QED
    BY <1>1, <1>7, <2>1, WentHolds DEF HeldBusy, HeldOnce
<1>10. ASSUME NEW t \in Threads, Again(t) PROVE HeldBusy' /\ HeldOnce'
  <2>1. \A u \in Threads, a \in Addresses : Holds(u, a)' => Holds(u, a)
    BY <1>1, <1>10, AgainHolds
  <2>2. ASSUME NEW u \in Threads, NEW a \in Addresses, Holds(u, a)' PROVE heap'[a] = "busy"
    <3>1. Holds(u, a) /\ heap[a] = "busy"
      BY <1>1, <2>1, <2>2 DEF HeldBusy
    <3>2. ~(Holds(t, a) /\ ~Holds(t, a)')
      BY <1>1, <2>2, <3>1 DEF HeldOnce
    <3> QED
      BY <1>1, <1>10, <3>1, <3>2, AgainHolds
  <2> QED
    BY <1>1, <2>1, <2>2 DEF HeldBusy, HeldOnce
<1>8. ASSUME UNCHANGED <<pc, call, heap>> PROVE HeldBusy' /\ HeldOnce'
  BY <1>1, <1>8 DEF HeldBusy, HeldOnce, Holds
<1>9. CASE Aside \/ ResetStats \/ ResetIndex \/ ClearAllocations
  BY <1>8, <1>9 DEF Aside, ResetStats, ResetIndex, ClearAllocations, threadVars
<1> QED
  BY <1>1, <1>4, <1>5, <1>6, <1>7, <1>9, <1>10, AllSteps DEF Steps

-----------------------------------------------------------------------------
(* The index lists blocks that exist.                                       *)

\* The thread will return the block at a, or is about to take it out of the
\* index.
Concern(t, a) ==
  \/ pc[t] # "idle" /\ call[t].op \in {"malloc", "realloc", "grow"} /\ call[t].to = a
  \/ pc[t] # "idle" /\ call[t].op = "grow" /\ call[t].from = a
  \/ pc[t] \in {"lookup", "frames"} /\ call[t].op = "realloc" /\ call[t].from = a
  \/ pc[t] \in {"forget", "drop"} /\ call[t].from = a

Indexed ==
  "reentry" \notin disturbed =>
    \A a \in DOMAIN index : heap[a] \in Live \/ \E t \in Threads : Concern(t, a)

Removed ==
  \A t \in Threads :
    pc[t] \in {"enqueue", "release"} /\ call[t].op = "free" =>
      call[t].from \notin DOMAIN index

Listed == Owned /\ Indexed /\ Removed

LEMMA InitListed == Init => Listed
<1> SUFFICES ASSUME Init PROVE Listed
  OBVIOUS
<1>1. DOMAIN index = {} /\ \A t \in Threads : pc[t] = "idle"
  BY DEF Init
<1> QED
  BY <1>1, InitBase DEF Listed, Owned, HeldBusy, HeldOnce, Holds, Indexed, Removed

\* What a step adds to the index is a block its thread holds.
LEMMA AddingIndex ==
  ASSUME NEW t \in Threads, NEW p \in ThreadPC, Adding(t, p)
  PROVE  /\ DOMAIN index \subseteq DOMAIN index'
         /\ DOMAIN index' \subseteq DOMAIN index \cup {call[t].to}
<1>1. CASE Enters(t)
  <2>1. PICK r \in Record : index' = Inserted(index, call[t].to, r)
    BY <1>1 DEF Enters
  <2>2. DOMAIN index' = DOMAIN index \cup {call[t].to}
    <3>1. DOMAIN Inserted(index, call[t].to, r) = DOMAIN index \cup {call[t].to}
      BY DEF Inserted
    <3> QED
      BY <2>1, <3>1
  <2> QED
    BY <2>2
<1>2. CASE index' = index
  BY <1>2
<1> QED
  BY <1>1, <1>2 DEF Adding

LEMMA LeavesIndex ==
  ASSUME NEW t \in Threads, Leaves(t)
  PROVE  DOMAIN index' = DOMAIN index \ {call[t].from}
BY ForgottenFacts DEF Leaves

LEMMA ListedWent ==
  ASSUME Listed, NEW t \in Threads, NEW p \in ThreadPC \ {"idle"}, Went(t, p),
         \/ Adding(t, p) \/ Forgetting(t, p) \/ Removing(t, p)
         \/ Moving(t, p) \/ Passing(t, p)
  PROVE  Indexed' /\ Removed'
<1> DEFINE c == call[t]
<1>1. /\ Base /\ HeldBusy /\ HeldOnce /\ Indexed /\ Removed
      /\ pc \in [Threads -> ThreadPC]
  BY DEF Listed, Owned, Base, ThreadTypeOK
<1>2. /\ heap' = heap /\ disturbed' = disturbed
      /\ \A u \in Threads : call'[u].op = call[u].op /\ call'[u].from = call[u].from
                             /\ call'[u].to = call[u].to
      /\ pc'[t] = p /\ \A u \in Threads : u # t => pc'[u] = pc[u]
  BY <1>1 DEF Went
<1>3. \A u \in Threads : \A a : u # t /\ Concern(u, a) => Concern(u, a)'
  BY <1>2 DEF Concern
<1>4. pc[t] # "idle" /\ p # "idle" /\ Given(c)
  BY <1>1 DEF Went, Base, Where, Fits
<1>5. \A a : c.op \in {"malloc", "realloc", "grow"} /\ c.to = a => Concern(t, a)'
  BY <1>2, <1>4 DEF Concern
<1>6. CASE Adding(t, p)
  <2>1. c.op \in {"malloc", "realloc", "grow"} /\ c.to \in Addresses
    BY <1>4, <1>6 DEF Adding, Given
  <2>2. Holds(t, c.to)
    BY <1>4, <2>1 DEF Holds
  <2>3. \A a : Concern(t, a) => Concern(t, a)' \/ a = c.to
    BY <1>1, <1>2, <1>4, <1>6, <2>1 DEF Concern, Adding, Given
  <2>4. Indexed'
    BY <1>1, <1>2, <1>3, <1>5, <1>6, <2>1, <2>3, AddingIndex DEF Indexed
  <2>5. ASSUME NEW u \in Threads, pc'[u] \in {"enqueue", "release"}, call'[u].op = "free"
        PROVE  call'[u].from \notin DOMAIN index'
    <3>1. u # t
      BY <1>2, <2>1, <2>5
    <3>2. pc[u] \in {"enqueue", "release"} /\ call[u].op = "free" /\ call'[u].from = call[u].from
      BY <1>2, <2>5, <3>1
    <3>3. call[u].from = call[u].to /\ Holds(u, call[u].from) /\ call[u].from \in Addresses
      BY <1>1, <3>2 DEF Base, Where, Fits, Given, Holds
    <3>4. call[u].from # c.to
      BY <1>1, <2>1, <2>2, <3>1, <3>3 DEF HeldOnce
    <3>5. call[u].from \notin DOMAIN index
      BY <1>1, <3>2 DEF Removed
    <3> QED
      BY <1>6, <3>2, <3>4, <3>5, AddingIndex
  <2> QED
    BY <2>4, <2>5 DEF Removed
<1>7. CASE Leaves(t) /\ (Removing(t, p) \/ Moving(t, p))
  <2>1. DOMAIN index' = DOMAIN index \ {c.from}
    BY <1>7, LeavesIndex
  <2>2. \A a : Concern(t, a) => Concern(t, a)' \/ a = c.from
    BY <1>2, <1>4, <1>7 DEF Concern, Removing, Moving, Ends
  <2>3. Indexed'
    BY <1>1, <1>2, <1>3, <2>1, <2>2 DEF Indexed
  <2>4. ASSUME NEW u \in Threads, pc'[u] \in {"enqueue", "release"}, call'[u].op = "free"
        PROVE  call'[u].from \notin DOMAIN index'
    BY <1>1, <1>2, <2>1, <2>4 DEF Removed
  <2> QED
    BY <2>3, <2>4 DEF Removed
<1>8. CASE Forgetting(t, p)
  <2>1. index' = index /\ pc[t] = "forget" /\ p = "drop"
    BY <1>8 DEF Forgetting
  <2>2. \A a : Concern(t, a) => Concern(t, a)'
    BY <1>2, <2>1 DEF Concern
  <2>3. Indexed'
    BY <1>1, <1>2, <1>3, <2>1, <2>2 DEF Indexed
  <2>4. Removed'
    BY <1>1, <1>2, <2>1 DEF Removed
  <2> QED
    BY <2>3, <2>4
<1>9. CASE Passing(t, p)
  <2>1. index' = index
    BY <1>9 DEF Passing
  <2>2. \A a : Concern(t, a) => Concern(t, a)'
    BY <1>2, <1>4, <1>9 DEF Concern, Passing
  <2>3. Indexed'
    BY <1>1, <1>2, <1>3, <2>1, <2>2 DEF Indexed
  <2>4. Removed'
    BY <1>1, <1>2, <1>9, <2>1 DEF Removed, Passing
  <2> QED
    BY <2>3, <2>4
<1> QED
  BY <1>6, <1>7, <1>8, <1>9 DEF Removing, Moving

LEMMA ListedStep == Listed /\ [Next]_vars => Listed'
<1> SUFFICES ASSUME Listed, [Next]_vars PROVE Indexed' /\ Removed'
  BY OwnedStep DEF Listed
<1>1. /\ Base /\ HeldBusy /\ HeldOnce /\ Indexed /\ Removed
      /\ pc \in [Threads -> ThreadPC] /\ Base'
  BY BaseStep DEF Listed, Owned, Base, ThreadTypeOK
<1>2. /\ heap \in [Addresses -> {"free", "busy", "live", "large"}]
      /\ Live = {"live", "large"} /\ Nowhere \notin Addresses
      /\ DOMAIN index \subseteq Addresses
  BY <1>1, TrackingAssumption DEF Base, HeapTypeOK, MapTypeOK, MapOf, Live
<1>3. ASSUME NEW t \in Threads, NEW p \in ThreadPC, NEW c \in Calls, Called(t, p, c)
      PROVE  Indexed' /\ Removed'
  <2>1. /\ index' = index /\ ("reentry" \notin disturbed' => "reentry" \notin disturbed)
        /\ pc[t] = "idle" /\ Given(c) /\ pc'[t] = p /\ p # "idle" /\ call'[t] = c
        /\ \A u \in Threads : u # t => pc'[u] = pc[u] /\ call'[u] = call[u]
    <3>1. /\ index' = index /\ pc[t] = "idle" /\ Given(c)
          /\ ("reentry" \notin disturbed' => "reentry" \notin disturbed)
      BY <1>3 DEF Called
    <3>2. c.from \in Addresses
      BY <3>1 DEF Given
    <3>3. /\ pc'[t] = p /\ p # "idle" /\ call'[t] = c
          /\ \A u \in Threads : u # t => pc'[u] = pc[u] /\ call'[u] = call[u]
      BY <1>1, <1>3, <3>2, CalledHolds
    <3> QED
      BY <3>1, <3>3
  <2>2. \A u \in Threads : \A a : Concern(u, a) => Concern(u, a)'
    BY <2>1 DEF Concern
  <2>3. c.op # "malloc" => Concern(t, c.from)'
    BY <1>3, <2>1 DEF Called, Concern
  <2>4. c.op \in {"malloc", "realloc", "grow"} => Concern(t, c.to)'
    BY <1>3, <2>1 DEF Called, Concern
  <2>5. ASSUME NEW a \in DOMAIN index, "reentry" \notin disturbed'
        PROVE  heap'[a] \in Live \/ \E u \in Threads : Concern(u, a)'
    <3>1. CASE heap[a] \in Live
      <4>1. CASE a = c.from
        BY <1>2, <1>3, <2>3, <3>1, <4>1 DEF Called
      <4>2. CASE a # c.from
        <5>1. a # c.to
          BY <1>2, <1>3, <3>1, <4>2 DEF Called
        <5> QED
          BY <1>2, <1>3, <3>1, <4>2, <5>1 DEF Called
      <4> QED
        BY <4>1, <4>2
    <3>2. CASE heap[a] \notin Live
      BY <1>1, <2>1, <2>2, <2>5, <3>2 DEF Indexed
    <3> QED
      BY <3>1, <3>2
  <2>6. ASSUME NEW u \in Threads, pc'[u] \in {"enqueue", "release"}, call'[u].op = "free"
        PROVE  call'[u].from \notin DOMAIN index'
    <3>1. u # t
      BY <1>3, <2>1, <2>6 DEF Called
    <3> QED
      BY <1>1, <2>1, <2>6, <3>1 DEF Removed
  <2> QED
    BY <2>1, <2>5, <2>6 DEF Indexed, Removed
<1>4. ASSUME NEW t \in Threads, NEW a \in Addresses, Unheard(t, a)
      PROVE  Indexed' /\ Removed'
  <2>1. /\ index' = index /\ ("reentry" \notin disturbed' => "reentry" \notin disturbed)
        /\ UNCHANGED <<pc, call>>
    BY <1>4 DEF Unheard, threadVars
  <2>2. \A u \in Threads : \A b : Concern(u, b) => Concern(u, b)'
    BY <2>1 DEF Concern
  <2>3. ASSUME NEW b \in DOMAIN index, "reentry" \notin disturbed', heap[b] \in Live
        PROVE  heap'[b] \in Live
    BY <1>2, <1>4, <2>3 DEF Unheard
  <2>4. Indexed'
    BY <1>1, <2>1, <2>2, <2>3 DEF Indexed
  <2> QED
    BY <1>1, <2>1, <2>4 DEF Removed
<1>5. ASSUME NEW t \in Threads, Finished(t) PROVE Indexed' /\ Removed'
  <2> DEFINE c == call[t]
  <2>1. /\ index' = index /\ disturbed' = disturbed
        /\ pc[t] \in {"note", "release"} /\ Given(c) /\ c.op # "none"
        /\ pc[t] = IF Ends(t) THEN "release" ELSE "note"
    BY <1>1, <1>5 DEF Finished, Base, Where, Fits, Ends
  <2>2. \A u \in Threads : u # t => pc'[u] = pc[u] /\ call'[u] = call[u]
    <3>1. c.from \in Addresses
      BY <2>1 DEF Given
    <3> QED
      BY <1>1, <1>5, <3>1, FinishedHolds
  <2>3. \A u \in Threads : \A a : u # t /\ Concern(u, a) => Concern(u, a)'
    BY <2>2 DEF Concern
  <2>9. c.op # "grow"
    BY <1>5, <2>1 DEF Finished, Given
  <2>4. \A a \in Addresses : Concern(t, a) => heap'[a] \in Live
    BY <1>2, <1>5, <2>1, <2>9 DEF Concern, Finished, Ends
  <2>5. \A a \in DOMAIN index : heap[a] \in Live => heap'[a] \in Live
    <3>1. CASE c.op = "free"
      <4>1. c.from \notin DOMAIN index
        BY <1>1, <2>1, <3>1 DEF Removed, Ends
      <4> QED
        BY <1>2, <1>5, <2>1, <3>1, <4>1 DEF Finished, Given
    <3>2. CASE c.op # "free"
      BY <1>2, <1>5, <3>2 DEF Finished
    <3> QED
      BY <3>1, <3>2
  <2>6. Indexed'
    BY <1>1, <1>2, <2>1, <2>3, <2>4, <2>5 DEF Indexed
  <2>7. pc'[t] = "idle"
    BY <1>1, <1>5 DEF Finished
  <2>8. Removed'
    BY <1>1, <2>1, <2>2, <2>7 DEF Removed
  <2> QED
    BY <2>6, <2>8
<1>6. CASE ResetIndex
  <2>1. DOMAIN index' = {}
    BY <1>6 DEF ResetIndex
  <2> QED
    BY <2>1 DEF Indexed, Removed
<1>7. CASE Aside \/ ResetStats \/ ClearAllocations
  <2>1. UNCHANGED <<index, heap, pc, call>> /\ disturbed \subseteq disturbed'
    BY <1>7 DEF Aside, ResetStats, ClearAllocations, ResetAt, Disturb, threadVars
  <2>2. \A u \in Threads : \A a : Concern(u, a) => Concern(u, a)'
    BY <2>1 DEF Concern
  <2> QED
    BY <1>1, <2>1, <2>2 DEF Indexed, Removed
<1>8. ASSUME NEW t \in Threads, Again(t) PROVE Indexed' /\ Removed'
  <2> DEFINE c == call[t]
  <2>1. /\ index' = index /\ disturbed' = disturbed
        /\ pc[t] \in {"note", "release"} /\ Given(c) /\ c.op # "none"
        /\ pc[t] = IF Ends(t) THEN "release" ELSE "note"
    BY <1>1, <1>8 DEF Again, Base, Where, Fits, Ends
  <2>2. \A u \in Threads : u # t => pc'[u] = pc[u] /\ call'[u] = call[u]
    BY <1>1, <1>8 DEF Again
  <2>3. /\ pc'[t] = IF Ends(t) THEN "forget" ELSE IF c.op = "malloc" THEN "frames" ELSE "lookup"
        /\ call'[t].op = (IF c.op = "grow" THEN "realloc" ELSE c.op)
        /\ call'[t].from = c.from /\ call'[t].to = c.to
    BY <1>1, <1>8 DEF Again, Base, ThreadTypeOK
  <2>4. c.op \in {"malloc", "realloc", "grow", "free", "freed", "kept"}
        /\ (Ends(t) <=> c.op \notin {"malloc", "realloc", "grow"})
    BY <1>1, <1>8, <2>1 DEF Base, Where, Fits, Ends
  <2>5. \A u \in Threads : \A a : Concern(u, a) => Concern(u, a)'
    BY <2>1, <2>2, <2>3, <2>4 DEF Concern
  <2>6. \A a \in Addresses : heap[a] \in Live => heap'[a] = heap[a]
    <3>1. \A a \in Addresses : Holds(t, a) => heap[a] = "busy"
      BY <1>1 DEF HeldBusy
    <3> QED
      BY <1>1, <1>2, <1>8, <3>1, AgainHolds
  <2>7. Indexed'
    BY <1>1, <1>2, <2>1, <2>5, <2>6 DEF Indexed
  <2>8. Removed'
    BY <1>1, <2>1, <2>2, <2>3 DEF Removed
  <2> QED
    BY <2>7, <2>8
<1> QED
  BY <1>1, <1>3, <1>4, <1>5, <1>6, <1>7, <1>8, AllSteps, ListedWent DEF Steps

\* With no hook and no clear() under way every block in the index exists,
\* unless a hook has itself freed one: a record goes before its block does and
\* comes after it, whatever the other threads do in between.
THEOREM TrackingNoDangling == Spec => []NoDangling
<1>1. Listed => NoDangling
  <2>1. ASSUME Quiet PROVE \A t \in Threads : \A a : ~Concern(t, a)
    BY <2>1 DEF Quiet, Concern
  <2> QED
    BY <2>1 DEF NoDangling, Listed, Indexed
<1> QED
  BY <1>1, InitListed, ListedStep, PTL DEF Spec

-----------------------------------------------------------------------------
(* No two calls concern one block, as long as nothing disturbs the tracer.  *)

Departs(t, a) ==
  pc[t] # "idle" /\ call[t].op # "grow" /\ call[t].from = a /\ call[t].to # a

Departed == \A t \in Threads, a \in Addresses : Departs(t, a) => heap[a] = "free"

DepartedOnce ==
  \A t, u \in Threads, a \in Addresses : Departs(t, a) /\ Departs(u, a) => t = u

ResetAlone == resetPC # "idle" => \A t \in Threads : pc[t] = "idle"

Apart == disturbed = {} => Departed /\ DepartedOnce /\ ResetAlone

Settled == Listed /\ Apart

Uses(t, a) == pc[t] # "idle" /\ a \in {call[t].from, call[t].to}

LEMMA GivenCall ==
  ASSUME Base, NEW t \in Threads, pc[t] # "idle"
  PROVE  /\ Given(call[t])
         /\ call[t].op \in {"malloc", "free", "realloc", "grow", "freed", "kept"}
<1>1. call[t] \in Calls /\ pc[t] \in ThreadPC /\ Fits(pc[t], call[t], out[t])
  BY DEF Base, ThreadTypeOK, Where
<1>2. call[t].op # "none"
  BY <1>1 DEF Fits, ThreadPC
<1> QED
  BY <1>1, <1>2 DEF Fits, Calls, Op

LEMMA DepartsUnreported ==
  ASSUME Base, NEW t \in Threads, NEW a \in Addresses, Departs(t, a)
  PROVE  Unreported(a)
BY GivenCall DEF Departs, Unreported, Given

\* A block that is used is busy, or free and not yet reported.
LEMMA UsedBlock ==
  ASSUME Base, HeldBusy, HeldOnce, Departed, DepartedOnce,
         NEW t \in Threads, NEW a \in Addresses, Uses(t, a)
  PROVE  /\ heap[a] = "busy" \/ (heap[a] = "free" /\ Unreported(a))
         /\ \A u \in Threads : Uses(u, a) => u = t
<1>1. ASSUME NEW u \in Threads, Uses(u, a) PROVE Holds(u, a) \/ Departs(u, a)
  <2>1. Given(call[u]) /\ Nowhere # a
    BY <1>1, GivenCall, TrackingAssumption DEF Uses
  <2> QED
    BY <1>1, <2>1 DEF Uses, Holds, Departs, Given
<1>2. \A u \in Threads : Holds(u, a) => heap[a] = "busy"
  BY DEF HeldBusy
<1>3. \A u \in Threads : Departs(u, a) => heap[a] = "free" /\ Unreported(a)
  BY DepartsUnreported DEF Departed
<1> QED
  BY <1>1, <1>2, <1>3 DEF HeldOnce, DepartedOnce

LEMMA SettledParts ==
  ASSUME Settled
  PROVE  /\ Base /\ HeldBusy /\ HeldOnce /\ Indexed /\ Removed
         /\ pc \in [Threads -> ThreadPC] /\ call \in [Threads -> Calls]
         /\ heap \in [Addresses -> {"free", "busy", "live", "large"}]
         /\ Live = {"live", "large"}
         /\ DOMAIN index \subseteq Addresses /\ due \subseteq Addresses
         /\ Nowhere \notin Addresses
BY TrackingAssumption
DEF Settled, Listed, Owned, Base, ThreadTypeOK, HeapTypeOK, MapTypeOK, MapOf, Live

\* A call finds its blocks unused.
LEMMA CalledUnused ==
  ASSUME Settled, NEW t \in Threads, NEW p \in ThreadPC, NEW c \in Calls,
         Called(t, p, c), disturbed' = {}
  PROVE  /\ disturbed = {}
         /\ \A u \in Threads : ~Uses(u, c.from)
         /\ c.to # Nowhere => \A u \in Threads : ~Uses(u, c.to)
<1>1. /\ disturbed = {} /\ Given(c)
      /\ IF c.op = "malloc" THEN heap[c.from] = "free" ELSE heap[c.from] \in Live
      /\ Live = {"live", "large"}
      /\ c.to \notin {c.from, Nowhere} => heap[c.to] = "free"
      /\ c.op # "freed" /\ heap[c.to] = "free" => ~Unreported(c.to)
  BY SettledParts DEF Called
<1>2. Departed /\ DepartedOnce
  BY <1>1 DEF Settled, Apart
<1>3. \A u \in Threads, a \in Addresses :
        Uses(u, a) => heap[a] = "busy" \/ (heap[a] = "free" /\ Unreported(a))
  BY <1>2, SettledParts, UsedBlock
<1>4. \A u \in Threads : ~Uses(u, c.from)
  BY <1>1, <1>3 DEF Given
<1>5. c.to # Nowhere => \A u \in Threads : ~Uses(u, c.to)
  <2>1. ASSUME c.to # Nowhere PROVE c.op # "freed" /\ c.to \in Addresses
    BY <1>1, <2>1 DEF Given
  <2> QED
    BY <1>1, <1>3, <1>4, <2>1
<1> QED
  BY <1>1, <1>4, <1>5

LEMMA SettledStep == Settled /\ [Next]_vars => Settled'
<1> SUFFICES ASSUME Settled, [Next]_vars, disturbed' = {}
             PROVE  Departed' /\ DepartedOnce' /\ ResetAlone'
  BY ListedStep DEF Settled, Apart
<1>1. /\ Base /\ HeldBusy /\ HeldOnce
      /\ pc \in [Threads -> ThreadPC] /\ call \in [Threads -> Calls]
      /\ heap \in [Addresses -> {"free", "busy", "live", "large"}]
      /\ Live = {"live", "large"}
      /\ Nowhere \notin Addresses
  BY SettledParts
<1>2. disturbed = {} => Departed /\ DepartedOnce /\ ResetAlone
  BY DEF Settled, Apart
<1>3. ASSUME NEW t \in Threads, NEW p \in ThreadPC, NEW c \in Calls, Called(t, p, c)
      PROVE  Departed' /\ DepartedOnce' /\ ResetAlone'
  <2>1. /\ disturbed = {} /\ \A u \in Threads : ~Uses(u, c.from)
        /\ c.to # Nowhere => \A u \in Threads : ~Uses(u, c.to)
    BY <1>3, CalledUnused
  <2>2. /\ c.from \in Addresses /\ pc[t] = "idle"
        /\ c.to # c.from => heap'[c.from] = IF c.op = "grow" THEN "busy" ELSE "free"
        /\ \A a \in Addresses \ {c.from, c.to} : heap'[a] = heap[a]
        /\ resetPC = "idle" /\ resetPC' = resetPC
    BY <1>3 DEF Called, Given
  <2>3. \A u \in Threads, a \in Addresses : u # t =>
          /\ Departs(u, a)' => Departs(u, a) /\ Uses(u, a)
    BY <1>1, <1>3, CalledHolds DEF Departs, Uses
  <2>4. \A a : Departs(t, a)' => a = c.from /\ c.to # c.from /\ c.op # "grow"
    BY <1>1, <1>3, <2>2, CalledHolds DEF Departs
  <2>5. ASSUME NEW u \in Threads, NEW a \in Addresses, Departs(u, a)' PROVE heap'[a] = "free"
    <3>1. CASE u = t
      BY <2>2, <2>4, <2>5, <3>1
    <3>2. CASE u # t
      <4>1. Departs(u, a) /\ a \notin {c.from, c.to}
        BY <1>1, <2>1, <2>3, <2>5, <3>2
      <4> QED
        BY <1>2, <2>1, <2>2, <4>1 DEF Departed
    <3> QED
      BY <3>1, <3>2
  <2>6. ASSUME NEW u \in Threads, NEW v \in Threads, NEW a \in Addresses,
               Departs(u, a)', Departs(v, a)'
        PROVE  u = v
    BY <1>2, <2>1, <2>3, <2>4, <2>6 DEF DepartedOnce
  <2> QED
    BY <2>2, <2>5, <2>6 DEF Departed, DepartedOnce, ResetAlone
<1>4. ASSUME NEW t \in Threads, NEW a \in Addresses, Unheard(t, a)
      PROVE  Departed' /\ DepartedOnce' /\ ResetAlone'
  <2>1. /\ disturbed = {} /\ UNCHANGED <<pc, call, resetPC>>
        /\ \A b \in Addresses \ {a} : heap'[b] = heap[b]
        /\ heap'[a] = "free" \/ (heap[a] = "free" /\ ~Unreported(a))
    BY <1>1, <1>4 DEF Unheard, threadVars
  <2>2. \A u \in Threads, b \in Addresses : Departs(u, b)' <=> Departs(u, b)
    BY <2>1 DEF Departs
  <2>3. \A u \in Threads : Departs(u, a) => heap'[a] = "free"
    BY <1>1, <2>1, DepartsUnreported
  <2> QED
    BY <1>2, <2>1, <2>2, <2>3 DEF Departed, DepartedOnce, ResetAlone
<1>5. ASSUME NEW t \in Threads, Finished(t)
      PROVE  Departed' /\ DepartedOnce' /\ ResetAlone'
  <2>1. disturbed = {} /\ resetPC' = resetPC /\ pc[t] # "idle"
    BY <1>5 DEF Finished
  <2>2. /\ Given(call[t]) /\ call[t].op \in {"malloc", "free", "realloc", "grow", "freed", "kept"}
    BY <1>1, <2>1, GivenCall
  <2>3. \A u \in Threads, b \in Addresses : Departs(u, b)' => Departs(u, b) /\ u # t
    BY <1>1, <1>5, FinishedHolds DEF Departs
  <2>4. \A b \in Addresses : heap'[b] = heap[b] \/ Holds(t, b)
    <3>1. CASE call[t].op = "freed"
      BY <1>5, <3>1 DEF Finished
    <3>2. CASE call[t].op # "freed"
      BY <1>1, <1>5, <2>1, <2>2, <3>2 DEF Finished, Holds, Given
    <3> QED
      BY <3>1, <3>2
  <2>5. \A b \in Addresses : heap[b] = "free" => heap'[b] = heap[b]
    BY <1>1, <2>4 DEF HeldBusy
  <2>6. ResetAlone'
    BY <1>2, <2>1 DEF ResetAlone
  <2> QED
    BY <1>2, <2>1, <2>3, <2>5, <2>6 DEF Departed, DepartedOnce
<1>6. ASSUME NEW t \in Threads, NEW p \in ThreadPC \ {"idle"}, Went(t, p)
      PROVE  Departed' /\ DepartedOnce' /\ ResetAlone'
  <2>1. UNCHANGED <<heap, resetPC, disturbed>> /\ pc[t] # "idle"
    BY <1>6 DEF Went
  <2>2. \A u \in Threads, b \in Addresses : Departs(u, b)' => Departs(u, b)
    BY <1>1, <1>6, WentHolds DEF Departs, Went
  <2>3. ResetAlone'
    BY <1>2, <2>1 DEF ResetAlone
  <2> QED
    BY <1>2, <2>1, <2>2, <2>3 DEF Departed, DepartedOnce
<1>7. ASSUME UNCHANGED <<heap, pc, call>>, disturbed \subseteq disturbed',
             resetPC' = resetPC \/ \A t \in Threads : pc[t] = "idle"
      PROVE  Departed' /\ DepartedOnce' /\ ResetAlone'
  <2>1. disturbed = {} /\ Departed /\ DepartedOnce /\ ResetAlone
    BY <1>2, <1>7
  <2> QED
    BY <1>7, <2>1 DEF Departed, DepartedOnce, ResetAlone, Departs
<1>8. CASE ResetStats \/ ResetIndex \/ ClearAllocations
  <2>1. UNCHANGED <<heap, pc, call>> /\ disturbed \subseteq disturbed'
    BY <1>8 DEF ResetStats, ResetIndex, ClearAllocations, ResetAt, Disturb, threadVars
  <2>2. \A t \in Threads : pc[t] = "idle"
    BY <1>8 DEF ResetStats, ResetIndex, ClearAllocations, ResetAt, Disturb
  <2> QED
    BY <1>7, <2>1, <2>2
<1>9. CASE Aside
  <2>1. resetPC' = resetPC \/ \A t \in Threads : pc[t] = "idle"
    BY <1>9 DEF Aside, ResetDrain, ResetAt, Disturb
  <2> QED
    BY <1>7, <1>9, <2>1 DEF Aside
<1>10. ASSUME NEW t \in Threads, Again(t)
       PROVE  Departed' /\ DepartedOnce' /\ ResetAlone'
  <2>1. UNCHANGED <<resetPC, disturbed>> /\ pc[t] # "idle"
    BY <1>10 DEF Again
  <2>2. Given(call[t])
    BY <1>1, <2>1, GivenCall
  <2>3. /\ call'[t].op = (IF call[t].op = "grow" THEN "realloc" ELSE call[t].op)
        /\ call'[t].from = call[t].from /\ call'[t].to = call[t].to
        /\ \A u \in Threads : u # t => pc'[u] = pc[u] /\ call'[u] = call[u]
    BY <1>1, <1>10 DEF Again
  <2>4. \A u \in Threads, b \in Addresses : u # t => (Departs(u, b)' <=> Departs(u, b))
    BY <2>3 DEF Departs
  <2>5. \A b \in Addresses : Departs(t, b)' =>
          \/ Departs(t, b) /\ heap' = heap
          \/ Holds(t, b) /\ heap' = [heap EXCEPT ![b] = "free"]
    BY <1>10, <2>1, <2>3 DEF Departs, Holds, Again
  <2>6. Departed /\ DepartedOnce /\ ResetAlone
    BY <1>2, <2>1
  <2>7. \A b \in Addresses : heap[b] = "free" => heap'[b] = "free"
    BY <1>1, <1>10 DEF Again
  <2>8. \A b \in Addresses : Holds(t, b) => heap[b] = "busy"
    BY <1>1 DEF HeldBusy
  <2>9. Departed'
    BY <1>1, <2>4, <2>5, <2>6, <2>7 DEF Departed
  <2>10. DepartedOnce'
    BY <2>4, <2>5, <2>6, <2>8 DEF Departed, DepartedOnce
  <2>11. ResetAlone'
    BY <2>1, <2>6 DEF ResetAlone
  <2> QED
    BY <2>9, <2>10, <2>11
<1> QED
  BY <1>1, <1>3, <1>4, <1>5, <1>6, <1>8, <1>9, <1>10, AllSteps DEF Steps

LEMMA InitSettled == Init => Settled
BY InitListed DEF Settled, Apart, Departed, DepartedOnce, ResetAlone, Departs, Init

-----------------------------------------------------------------------------
(* What is known of the blocks a call concerns, and of the others.          *)

\* What is due of them,
DueFacts(t) ==
  /\ call[t].op \in {"malloc", "grow"} => call[t].to \in due
  /\ Ends(t) \/ call[t].from # call[t].to => call[t].from \notin due
  /\ Ends(t) => call[t].to \notin due

\* what is in the index,
IndexFacts(t) ==
  /\ pc[t] \in {"lookup", "frames"} /\ call[t].hook # "second" =>
       (call[t].op \in {"malloc", "grow"} \/ call[t].from # call[t].to
          => call[t].to \notin DOMAIN index)
  /\ Ends(t) /\ call[t].from # call[t].to => call[t].to \notin DOMAIN index
  /\ pc[t] = "put" => call[t].from \notin DOMAIN index
  /\ pc[t] = "put" /\ call[t].hook # "second" => call[t].to \notin DOMAIN index
  /\ Ends(t) /\ pc[t] \in {"enqueue", "release"} => call[t].from \notin DOMAIN index
  /\ pc[t] \in {"enqueue", "note"} /\ call[t].op # "grow" /\ call[t].from # call[t].to =>
       call[t].from \notin DOMAIN index
  /\ ~Ends(t) /\ (pc[t] \in {"enqueue", "note"} \/ call[t].hook = "second") =>
       (call[t].to \in DOMAIN index => index[call[t].to].size = call[t].size)

\* what the shim has noted,
NotedFacts(t) ==
  Ends(t) /\ pc[t] \in {"drop", "enqueue", "release"} =>
    call[t].from \notin DOMAIN allocations

\* and what is in the index if there is no sampling.
AllFacts(t) ==
  /\ ~Ends(t) /\ (pc[t] \in {"enqueue", "note"}
                  \/ (call[t].hook = "second" /\ pc[t] \in {"lookup", "frames"})) =>
       (call[t].to \in DOMAIN index <=> call[t].to \in due)
  /\ pc[t] \in {"lookup", "frames"} /\ call[t].op = "realloc" =>
       (call[t].from \in DOMAIN index => call[t].to \in due)
  /\ pc[t] \in {"lookup", "frames"} /\ call[t].op = "realloc" /\ call[t].hook # "second" =>
       (call[t].to \in due => call[t].from \in DOMAIN index)
  /\ pc[t] = "put" => call[t].to \in due

Facts(t) ==
  pc[t] # "idle" =>
    /\ DueFacts(t) /\ IndexFacts(t) /\ NotedFacts(t)
    /\ ~sampling => AllFacts(t)

Matched(a) ==
  /\ ~sampling => (a \in DOMAIN index <=> a \in due)
  /\ a \in DOMAIN index \cap DOMAIN allocations => allocations[a] = index[a].size

Agreed ==
  /\ \A t \in Threads : Facts(t)
  /\ \A a \in due : heap[a] # "free"
  /\ \A a \in Addresses : (\A t \in Threads : ~Uses(t, a)) => Matched(a)

Faithful == Settled /\ (disturbed = {} => Agreed)

LEMMA InitFaithful == Init => Faithful
<1> SUFFICES ASSUME Init PROVE Agreed
  BY InitSettled DEF Faithful
<1>1. DOMAIN index = {} /\ due = {} /\ \A t \in Threads : pc[t] = "idle"
  BY DEF Init
<1> QED
  BY <1>1 DEF Agreed, Facts, Matched

\* Where nothing changes, the same holds.
LEMMA FactsKept ==
  ASSUME NEW t \in Threads, Facts(t), pc'[t] = pc[t], sampling' = sampling,
         call'[t].op = call[t].op, call'[t].from = call[t].from,
         call'[t].to = call[t].to, call'[t].size = call[t].size,
         call'[t].hook = call[t].hook,
         pc[t] # "idle" =>
           \A a \in {call[t].from, call[t].to} :
             /\ a \in DOMAIN index' <=> a \in DOMAIN index
             /\ a \in DOMAIN index => index'[a] = index[a]
             /\ a \in due' <=> a \in due
             /\ a \in DOMAIN allocations' <=> a \in DOMAIN allocations
  PROVE  Facts(t)'
<1> SUFFICES ASSUME pc[t] # "idle" PROVE Facts(t)'
  BY DEF Facts
<1>1. /\ DueFacts(t) /\ IndexFacts(t) /\ NotedFacts(t)
      /\ ~sampling => AllFacts(t)
  BY DEF Facts
<1>2. DueFacts(t)'
  BY <1>1 DEF DueFacts, Ends
<1>3. IndexFacts(t)'
  BY <1>1 DEF IndexFacts, Ends
<1>4. NotedFacts(t)'
  BY <1>1 DEF NotedFacts, Ends
<1>5. ~sampling => AllFacts(t)'
  BY <1>1 DEF AllFacts, Ends
<1> QED
  BY <1>2, <1>3, <1>4, <1>5 DEF Facts

LEMMA MatchedKept ==
  ASSUME NEW a \in Addresses, Matched(a), sampling' = sampling,
         a \in DOMAIN index' <=> a \in DOMAIN index,
         a \in DOMAIN index => index'[a] = index[a],
         a \in due' <=> a \in due,
         a \in DOMAIN allocations' <=> a \in DOMAIN allocations,
         a \in DOMAIN allocations => allocations'[a] = allocations[a]
  PROVE  Matched(a)'
BY DEF Matched

Same(a) ==
  /\ a \in DOMAIN index' <=> a \in DOMAIN index
  /\ a \in DOMAIN index => index'[a] = index[a]
  /\ a \in due' <=> a \in due
  /\ a \in DOMAIN allocations' <=> a \in DOMAIN allocations
  /\ a \in DOMAIN allocations => allocations'[a] = allocations[a]

\* A step of one thread that changes the blocks of A alone.
LEMMA Elsewhere ==
  ASSUME Base, Base', Agreed, NEW t \in Threads, NEW A, sampling' = sampling,
         \A u \in Threads \ {t} :
           /\ pc'[u] = pc[u]
           /\ call'[u].op = call[u].op /\ call'[u].size = call[u].size
           /\ call'[u].from = call[u].from /\ call'[u].to = call[u].to
           /\ call'[u].hook = call[u].hook
           /\ \A a \in A \cap Addresses : ~Uses(u, a),
         \A a \in Addresses \ A : Same(a)
  PROVE  /\ \A u \in Threads \ {t} : Facts(u)'
         /\ \A a \in Addresses \ A : Matched(a) => Matched(a)'
<1>1. /\ DOMAIN index \subseteq Addresses /\ DOMAIN allocations \subseteq Addresses
      /\ due \subseteq Addresses
  BY DEF Base, MapTypeOK, MapOf, HeapTypeOK
<1>2. /\ DOMAIN index' \subseteq Addresses /\ DOMAIN allocations' \subseteq Addresses
      /\ due' \subseteq Addresses
  BY DEF Base, MapTypeOK, MapOf, HeapTypeOK
<1>3. \A a : a \notin A \cap Addresses => Same(a)
  BY <1>1, <1>2 DEF Same
<1>4. ASSUME NEW u \in Threads \ {t} PROVE Facts(u)'
  <2>1. pc[u] # "idle" => \A a \in {call[u].from, call[u].to} : Same(a)
    BY <1>3 DEF Uses
  <2>2. Facts(u)
    BY DEF Agreed
  <2> QED
    BY <2>1, <2>2, FactsKept DEF Same
<1>5. ASSUME NEW a \in Addresses \ A, Matched(a) PROVE Matched(a)'
  BY <1>5, MatchedKept DEF Same
<1> QED
  BY <1>4, <1>5

\* A hook is called.
LEMMA FaithfulCalled ==
  ASSUME Settled, Base', Agreed, disturbed' = {},
         NEW t \in Threads, NEW p \in ThreadPC, NEW c \in Calls, Called(t, p, c)
  PROVE  Agreed'
<1> DEFINE A == {c.from, c.to}
<1>1. /\ Base /\ Indexed
      /\ heap \in [Addresses -> {"free", "busy", "live", "large"}]
      /\ Live = {"live", "large"}
      /\ due \subseteq Addresses /\ DOMAIN index \subseteq Addresses
      /\ Nowhere \notin Addresses
  BY SettledParts
<1>2. /\ UNCHANGED <<sampling, index, allocations>>
      /\ c.from \in Addresses /\ Given(c)
      /\ p = CASE c.op \in {"malloc", "grow"} -> "frames" [] c.op = "realloc" -> "lookup"
               [] OTHER -> "forget"
      /\ c.hook # "second"
      /\ c.op \in {"malloc", "free", "realloc", "grow", "freed", "kept"}
  BY DEF Called, Given, Calls, Op
<1>3. /\ disturbed = {}
      /\ \A u \in Threads : ~Uses(u, c.from)
      /\ c.to # Nowhere => \A u \in Threads : ~Uses(u, c.to)
  BY CalledUnused
<1>4. /\ pc'[t] = p /\ p # "idle" /\ call'[t] = c
      /\ \A u \in Threads : u # t => pc'[u] = pc[u] /\ call'[u] = call[u]
  BY <1>1, <1>2, CalledHolds
<1>5. due' = CASE c.op = "malloc" -> due \cup {c.to}
             [] c.op = "grow" -> (due \ {c.from}) \cup {c.to}
             [] c.op = "realloc" ->
                  IF c.from \in due THEN (due \ {c.from}) \cup {c.to} ELSE due
             [] OTHER -> due \ {c.from}
  BY DEF Called
<1>6. \A a \in Addresses \ A : Same(a)
  BY <1>2, <1>5 DEF Same
<1>7. /\ \A u \in Threads \ {t} : Facts(u)'
      /\ \A a \in Addresses \ A : Matched(a) => Matched(a)'
  <2>1. \A u \in Threads \ {t} : \A a \in A \cap Addresses : ~Uses(u, a)
    BY <1>1, <1>3
  <2> HIDE DEF A
  <2> QED
    BY <1>1, <1>2, <1>4, <1>6, <2>1, Elsewhere
\* What the call finds of a free block.
<1>8. ASSUME c.to # Nowhere, heap[c.to] = "free"
      PROVE  c.to \notin due /\ c.to \notin DOMAIN index
  <2>1. c.to \in Addresses /\ \A u \in Threads : ~Uses(u, c.to)
    BY <1>2, <1>3, <1>8 DEF Given
  <2>2. c.to \notin due
    BY <1>8 DEF Agreed
  <2>3. \A u \in Threads : ~Concern(u, c.to)
    BY <2>1 DEF Concern, Uses
  <2>4. c.to \notin DOMAIN index
    BY <1>1, <1>3, <1>8, <2>3 DEF Indexed
  <2> QED
    BY <2>2, <2>4
<1>9. c.to # c.from => c.to \notin due /\ c.to \notin DOMAIN index
  <2>1. CASE c.to = Nowhere
    BY <1>1, <2>1
  <2>2. CASE c.to # Nowhere
    BY <1>8, <2>2 DEF Called
  <2> QED
    BY <2>1, <2>2
<1>20. c.op = "grow" => c.to # c.from
  BY <1>2 DEF Given
<1>10. c.op = "malloc" => c.to = c.from /\ c.to \notin DOMAIN index
  <2> SUFFICES ASSUME c.op = "malloc" PROVE c.to = c.from /\ c.to \notin DOMAIN index
    OBVIOUS
  <2>1. c.to = c.from /\ c.to # Nowhere
    BY <1>1, <1>2 DEF Given
  <2>2. heap[c.to] = "free"
    BY <2>1 DEF Called
  <2> QED
    BY <1>8, <2>1, <2>2
<1>11. ~sampling => (c.from \in DOMAIN index <=> c.from \in due)
  BY <1>2, <1>3 DEF Agreed, Matched
<1>12. Ends(t)' <=> c.op \notin {"malloc", "realloc", "grow"}
  BY <1>2, <1>4 DEF Ends
<1>13. Facts(t)'
  <2>1. DueFacts(t)'
    <3>1. c.op \in {"malloc", "grow"} => c.to \in due'
      BY <1>5
    <3>2. c.op \notin {"malloc", "realloc", "grow"} => c.from \notin due' /\ c.to \notin due'
      BY <1>5, <1>9
    <3>3. c.from # c.to => c.from \notin due'
      BY <1>5, <1>10
    <3> QED
      BY <1>4, <1>12, <3>1, <3>2, <3>3 DEF DueFacts
  <2>2. IndexFacts(t)'
    BY <1>2, <1>4, <1>9, <1>10, <1>12, <1>20 DEF IndexFacts
  <2>3. NotedFacts(t)'
    BY <1>2, <1>4 DEF NotedFacts
  <2>4. ~sampling => AllFacts(t)'
    <3>1. c.op = "realloc" => (c.from \in due <=> c.to \in due')
      BY <1>5, <1>9
    <3> QED
      BY <1>2, <1>4, <1>11, <3>1 DEF AllFacts
  <2> QED
    BY <1>2, <2>1, <2>2, <2>3, <2>4 DEF Facts
<1>14. ASSUME NEW a \in due' PROVE heap'[a] # "free"
  <2>1. CASE a = c.to
    <3>1. a # Nowhere
      BY <1>1, <1>2, <1>5, <2>1 DEF Given
    <3> QED
      BY <2>1, <3>1 DEF Called
  <2>2. CASE a # c.to
    <3>1. a \in due
      BY <1>5, <2>2
    <3>2. a # c.from
      BY <1>2, <1>5, <1>10, <2>2
    <3>3. heap'[a] = heap[a]
      BY <1>1, <2>2, <3>1, <3>2 DEF Called
    <3> QED
      BY <3>1, <3>3 DEF Agreed
  <2> QED
    BY <2>1, <2>2
<1>15. ASSUME NEW a \in Addresses, \A u \in Threads : ~Uses(u, a)' PROVE Matched(a)'
  <2>1. a \notin A
    BY <1>4, <1>15 DEF Uses
  <2>2. \A u \in Threads : ~Uses(u, a)
    <3>1. pc[t] = "idle"
      BY DEF Called
    <3> QED
      BY <1>4, <1>15, <3>1 DEF Uses
  <2> QED
    BY <1>7, <2>1, <2>2 DEF Agreed
<1> QED
  BY <1>7, <1>13, <1>14, <1>15 DEF Agreed

\* A block comes or goes without the tracer.
LEMMA FaithfulUnheard ==
  ASSUME Settled, Base', Agreed, disturbed' = {},
         NEW t \in Threads, NEW a \in Addresses, Unheard(t, a)
  PROVE  Agreed'
<1>1. /\ Base /\ HeldBusy /\ HeldOnce
      /\ heap \in [Addresses -> {"free", "busy", "live", "large"}]
      /\ Live = {"live", "large"}
      /\ due \subseteq Addresses
  BY SettledParts
<1>2. /\ UNCHANGED <<sampling, index, allocations, pc, call>> /\ disturbed = {}
      /\ \A b \in Addresses \ {a} : heap'[b] = heap[b]
      /\ due' \in {due, due \ {a}}
  BY DEF Unheard, threadVars
<1>3. \A u \in Threads : ~Uses(u, a)
  <2>1. Departed /\ DepartedOnce
    BY <1>2 DEF Settled, Apart
  <2>2. heap[a] \in Live \/ (heap[a] = "free" /\ ~Unreported(a))
    BY DEF Unheard
  <2> QED
    BY <1>1, <2>1, <2>2, UsedBlock
<1>4. Matched(a)
  BY <1>3 DEF Agreed
<1>5. due' = due \/ (a \notin DOMAIN index /\ due' = due \ {a} /\ heap'[a] = "free")
  BY DEF Unheard
<1>6. Matched(a)'
  BY <1>2, <1>4, <1>5 DEF Matched
<1>7. \A b : b # a => Same(b)
  BY <1>2 DEF Same
<1>8. ASSUME NEW u \in Threads PROVE Facts(u)'
  <2>1. Facts(u) /\ ~Uses(u, a)
    BY <1>3 DEF Agreed
  <2>2. pc[u] # "idle" => \A b \in {call[u].from, call[u].to} : Same(b)
    BY <1>7, <2>1 DEF Uses
  <2> QED
    BY <1>2, <2>1, <2>2, FactsKept DEF Same
<1>9. ASSUME NEW b \in due' PROVE heap'[b] # "free"
  <2>1. CASE b = a
    <3>1. due' = due /\ b \in due
      BY <1>5, <1>9, <2>1
    <3>2. heap'[a] # "free" \/ due' = due \ {a}
      BY <1>1 DEF Unheard
    <3> QED
      BY <1>9, <2>1, <3>2
  <2>2. CASE b # a
    BY <1>1, <1>2, <1>9, <2>2 DEF Agreed
  <2> QED
    BY <2>1, <2>2
<1>10. ASSUME NEW b \in Addresses, \A u \in Threads : ~Uses(u, b)' PROVE Matched(b)'
  <2>1. \A u \in Threads : ~Uses(u, b)
    BY <1>2, <1>10 DEF Uses
  <2>2. Matched(b)
    BY <2>1 DEF Agreed
  <2> QED
    BY <1>2, <1>6, <1>7, <2>2, MatchedKept DEF Same
<1> QED
  BY <1>8, <1>9, <1>10 DEF Agreed

\* The blocks of a call are its own.
LEMMA OwnBlocks ==
  ASSUME Settled, disturbed = {}, NEW t \in Threads, pc[t] # "idle",
         NEW u \in Threads \ {t}, NEW a \in {call[t].from, call[t].to} \cap Addresses
  PROVE  ~Uses(u, a)
<1>1. Uses(t, a)
  BY DEF Uses
<1>2. Departed /\ DepartedOnce
  BY DEF Settled, Apart
<1> QED
  BY <1>1, <1>2, SettledParts, UsedBlock

LEMMA NotedMap ==
  ASSUME NEW c
  PROVE  /\ DOMAIN Noted(c) \ {c.from, c.to} = DOMAIN allocations \ {c.from, c.to}
         /\ c.to \in DOMAIN Noted(c) /\ Noted(c)[c.to] = c.size
         /\ \A a \in DOMAIN allocations : a \notin {c.from, c.to} => Noted(c)[a] = allocations[a]
BY DEF Noted, Inserted, Forgotten, Restrict

\* A hook returns: what is known of its blocks becomes what is known of all.
LEMMA FaithfulFinished ==
  ASSUME Settled, Base', Agreed, disturbed' = {}, NEW t \in Threads, Finished(t)
  PROVE  Agreed'
<1> DEFINE c == call[t]
           A == {c.from, c.to}
<1>1. /\ Base /\ HeldBusy /\ HeldOnce
      /\ heap \in [Addresses -> {"free", "busy", "live", "large"}]
      /\ Live = {"live", "large"}
      /\ due \subseteq Addresses /\ DOMAIN index \subseteq Addresses
      /\ Nowhere \notin Addresses
  BY SettledParts
<1>2. /\ UNCHANGED <<sampling, index, due, disturbed>> /\ pc[t] # "idle"
      /\ pc[t] = IF Ends(t) THEN "release" ELSE "note"
      /\ allocations' = IF Ends(t) THEN allocations ELSE Noted(c)
      /\ c.hook # "first"
  BY DEF Finished
<1>3. /\ Given(c) /\ c.op \in {"malloc", "free", "realloc", "grow", "freed", "kept"}
      /\ c.from \in Addresses /\ c.op # "grow"
  BY <1>1, <1>2, GivenCall DEF Given
<1>4. /\ pc'[t] = "idle"
      /\ \A u \in Threads : u # t => pc'[u] = pc[u] /\ call'[u] = call[u]
  BY <1>1, <1>3, FinishedHolds
<1>5. ~Ends(t) =>
        /\ DOMAIN allocations' \ A = DOMAIN allocations \ A
        /\ c.to \in DOMAIN allocations'
        /\ allocations'[c.to] = c.size
        /\ \A a \in DOMAIN allocations : a \notin A => allocations'[a] = allocations[a]
  BY <1>2, <1>3, NotedMap DEF Ends
<1>6. \A a \in Addresses \ A : Same(a)
  BY <1>2, <1>5 DEF Same
<1>7. /\ \A u \in Threads \ {t} : Facts(u)'
      /\ \A a \in Addresses \ A : Matched(a) => Matched(a)'
  <2>1. \A u \in Threads \ {t} : \A a \in A \cap Addresses : ~Uses(u, a)
    BY <1>2, OwnBlocks
  <2> HIDE DEF A, c
  <2> QED
    BY <1>1, <1>2, <1>4, <1>6, <2>1, Elsewhere
<1>8. /\ DueFacts(t) /\ IndexFacts(t) /\ NotedFacts(t)
      /\ ~sampling => AllFacts(t)
  BY <1>2 DEF Agreed, Facts
<1>9. Facts(t)'
  BY <1>4 DEF Facts
<1>10. ASSUME NEW a \in Addresses \cap A PROVE Matched(a)'
  <2>1. CASE Ends(t)
    <3>1. c.from \notin due /\ c.to \notin due
      BY <1>8, <2>1 DEF DueFacts
    <3>2. c.from \notin DOMAIN index /\ c.to \notin DOMAIN index
      BY <1>2, <1>8, <2>1 DEF IndexFacts
    <3> QED
      BY <1>2, <3>1, <3>2 DEF Matched
  <2>2. CASE ~Ends(t) /\ a = c.to
    <3>1. c.to \in DOMAIN index => index[c.to].size = c.size
      BY <1>2, <1>8, <2>2 DEF IndexFacts
    <3>2. ~sampling => (c.to \in DOMAIN index <=> c.to \in due)
      BY <1>2, <1>8, <2>2 DEF AllFacts
    <3> QED
      BY <1>2, <1>5, <2>2, <3>1, <3>2 DEF Matched
  <2>3. CASE ~Ends(t) /\ a # c.to
    <3>1. a = c.from /\ c.from # c.to
      BY <2>3
    <3>2. c.from \notin due
      BY <1>8, <3>1 DEF DueFacts
    <3>3. c.from \notin DOMAIN index
      BY <1>2, <1>3, <1>8, <2>3, <3>1 DEF IndexFacts
    <3> QED
      BY <1>2, <3>1, <3>2, <3>3 DEF Matched
  <2> QED
    BY <2>1, <2>2, <2>3
<1>11. ASSUME NEW a \in Addresses, \A u \in Threads : ~Uses(u, a)' PROVE Matched(a)'
  <2>1. CASE a \in A
    BY <1>10, <2>1
  <2>2. CASE a \notin A
    <3>1. \A u \in Threads : ~Uses(u, a)
      BY <1>4, <1>11, <2>2 DEF Uses
    <3> QED
      BY <1>7, <2>2, <3>1 DEF Agreed
  <2> QED
    BY <2>1, <2>2
<1>12. ASSUME NEW a \in due' PROVE heap'[a] # "free"
  <2>1. a \in due /\ heap[a] # "free" /\ a \in Addresses
    BY <1>1, <1>2, <1>12 DEF Agreed
  <2>2. c.op = "free" => a # c.to
    BY <1>3, <1>8, <2>1 DEF DueFacts, Ends, Given
  <2> QED
    BY <1>1, <1>3, <2>1, <2>2 DEF Finished, Given
<1> QED
  BY <1>7, <1>9, <1>11, <1>12 DEF Agreed

\* A hook goes on.
LEMMA FaithfulWent ==
  ASSUME Settled, Base', Agreed, disturbed' = {},
         NEW t \in Threads, NEW p \in ThreadPC \ {"idle"}, Went(t, p),
         \/ Adding(t, p) \/ Forgetting(t, p) \/ Removing(t, p)
         \/ Moving(t, p) \/ Passing(t, p)
  PROVE  Agreed'
<1> DEFINE c == call[t]
           A == {c.from, c.to}
<1>1. /\ Base /\ pc \in [Threads -> ThreadPC]
      /\ due \subseteq Addresses
  BY SettledParts
<1>2. /\ UNCHANGED <<sampling, heap, due, disturbed>> /\ pc[t] # "idle" /\ p # "idle"
      /\ \A u \in Threads : call'[u].op = call[u].op /\ call'[u].size = call[u].size
                             /\ call'[u].from = call[u].from /\ call'[u].to = call[u].to
                             /\ call'[u].hook = call[u].hook
      /\ pc'[t] = p /\ \A u \in Threads : u # t => pc'[u] = pc[u]
  BY <1>1 DEF Went
<1>3. Given(c) /\ c.op \in {"malloc", "free", "realloc", "grow", "freed", "kept"}
  BY <1>1, <1>2, GivenCall
<1>4. /\ DueFacts(t) /\ IndexFacts(t) /\ NotedFacts(t)
      /\ ~sampling => AllFacts(t)
  BY <1>2 DEF Agreed, Facts
<1>5. Ends(t)' <=> Ends(t)
  BY <1>2 DEF Ends
\* The index,
<1>6. ASSUME Enters(t)
      PROVE  /\ DOMAIN index' = DOMAIN index \cup {c.to}
             /\ index'[c.to].size = c.size
             /\ \A a \in DOMAIN index : a # c.to => index'[a] = index[a]
  <2>1. PICK r \in Record : r.size = c.size /\ index' = Inserted(index, c.to, r)
    BY <1>6 DEF Enters
  <2> QED
    BY <2>1 DEF Inserted
<1>7. ASSUME Leaves(t)
      PROVE  /\ DOMAIN index' = DOMAIN index \ {c.from}
             /\ \A a \in DOMAIN index : a # c.from => index'[a] = index[a]
  BY <1>7 DEF Leaves, Forgotten, Restrict
\* and the sizes.
<1>8. ASSUME Forgetting(t, p)
      PROVE  /\ DOMAIN allocations' = DOMAIN allocations \ {c.from}
             /\ \A a \in DOMAIN allocations : a # c.from => allocations'[a] = allocations[a]
  BY <1>8 DEF Forgetting, Forgotten, Restrict
<1>9. \A a \in Addresses \ A : Same(a)
  <2>1. /\ Enters(t) \/ Leaves(t) \/ index' = index
        /\ Forgetting(t, p) \/ allocations' = allocations
    BY DEF Adding, Forgetting, Removing, Moving, Passing
  <2> QED
    BY <1>2, <1>6, <1>7, <1>8, <2>1 DEF Same
<1>10. /\ \A u \in Threads \ {t} : Facts(u)'
       /\ \A a \in Addresses \ A : Matched(a) => Matched(a)'
  <2>1. \A u \in Threads \ {t} : \A a \in A \cap Addresses : ~Uses(u, a)
    BY <1>2, OwnBlocks
  <2> HIDE DEF A, c
  <2> QED
    BY <1>1, <1>2, <1>9, <2>1, Elsewhere
<1>11. DueFacts(t)'
  BY <1>2, <1>4, <1>5 DEF DueFacts
<1>12. ASSUME Adding(t, p) PROVE Facts(t)'
  <2>1. /\ \/ pc[t] = "frames" /\ c.op \in {"malloc", "grow"}
           \/ pc[t] = "put" /\ c.op = "realloc"
        /\ p \in {"enqueue", "note"} /\ ~Ends(t)
        /\ allocations' = allocations
    BY <1>12 DEF Adding, Ends
  <2>2. c.from # c.to /\ c.op # "grow" => c.from \notin DOMAIN index
    BY <1>3, <1>4, <2>1 DEF IndexFacts, Given
  <2>3. c.to \in DOMAIN index => index[c.to].size = c.size
    BY <1>4, <2>1 DEF IndexFacts
  <2>4. ~sampling => c.to \in due
    BY <1>4, <2>1 DEF DueFacts, AllFacts
  <2>5. CASE Enters(t)
    <3>1. IndexFacts(t)'
      BY <1>2, <1>5, <1>6, <2>1, <2>2, <2>5 DEF IndexFacts
    <3>2. ~sampling => AllFacts(t)'
      BY <1>2, <1>6, <2>1, <2>4, <2>5 DEF AllFacts
    <3> QED
      BY <1>2, <1>5, <1>11, <2>1, <3>1, <3>2 DEF Facts, NotedFacts
  <2>6. CASE sampling /\ index' = index
    <3>1. IndexFacts(t)'
      BY <1>2, <1>5, <2>1, <2>2, <2>3, <2>6 DEF IndexFacts
    <3> QED
      BY <1>2, <1>5, <1>11, <2>1, <2>6, <3>1 DEF Facts, NotedFacts
  <2> QED
    BY <1>12, <2>5, <2>6 DEF Adding
<1>13. ASSUME Forgetting(t, p) PROVE Facts(t)'
  <2>1. pc[t] = "forget" /\ p = "drop" /\ Ends(t) /\ index' = index
    BY <1>13 DEF Forgetting
  <2>2. IndexFacts(t)'
    BY <1>2, <1>4, <1>5, <2>1 DEF IndexFacts
  <2>3. NotedFacts(t)'
    BY <1>2, <1>8, <1>13, <2>1 DEF NotedFacts
  <2>4. ~sampling => AllFacts(t)'
    BY <1>2, <2>1 DEF AllFacts
  <2> QED
    BY <1>2, <1>11, <2>2, <2>3, <2>4 DEF Facts
<1>14. ASSUME Removing(t, p) PROVE Facts(t)'
  <2>1. /\ pc[t] = "drop" /\ p \in {"enqueue", "release"} /\ Ends(t) /\ Leaves(t)
        /\ allocations' = allocations
    BY <1>14 DEF Removing
  <2>2. IndexFacts(t)'
    BY <1>2, <1>4, <1>5, <1>7, <2>1 DEF IndexFacts
  <2>3. NotedFacts(t)'
    BY <1>2, <1>4, <1>5, <2>1 DEF NotedFacts
  <2>4. ~sampling => AllFacts(t)'
    BY <1>2, <1>5, <2>1 DEF AllFacts
  <2> QED
    BY <1>2, <1>11, <2>2, <2>3, <2>4 DEF Facts
<1>15. ASSUME Moving(t, p) PROVE Facts(t)'
  <2>1. /\ pc[t] = "frames" /\ c.op = "realloc" /\ ~Ends(t) /\ Leaves(t)
        /\ IF c.from \in DOMAIN index THEN p = "put" ELSE p \in {"enqueue", "note"}
    BY <1>15 DEF Moving, Ends
  <2>2. DOMAIN index' = DOMAIN index \ {c.from}
    BY <1>7, <2>1
  <2>3. c.from # c.to /\ c.hook # "second" => c.to \notin DOMAIN index
    BY <1>4, <2>1 DEF IndexFacts
  <2>4. /\ c.from \notin DOMAIN index'
        /\ c.hook # "second" => c.to \notin DOMAIN index'
        /\ c.hook = "second" /\ c.to \in DOMAIN index' => index'[c.to].size = c.size
    BY <1>4, <1>7, <2>1, <2>2, <2>3 DEF IndexFacts
  <2>5. IndexFacts(t)'
    BY <1>2, <1>5, <2>1, <2>4 DEF IndexFacts
  <2>6. NotedFacts(t)'
    BY <1>5, <2>1 DEF NotedFacts
  <2>7. ~sampling => AllFacts(t)'
    <3>1. ASSUME ~sampling, c.from \in DOMAIN index PROVE p = "put" /\ c.to \in due
      BY <1>4, <2>1, <3>1 DEF AllFacts
    <3>2. ASSUME ~sampling, c.from \notin DOMAIN index
          PROVE  /\ p \in {"enqueue", "note"}
                 /\ c.to \in DOMAIN index' <=> c.to \in due
      <4>1. c.hook # "second" => c.to \notin due /\ c.to \notin DOMAIN index'
        BY <1>4, <2>1, <2>4, <3>2 DEF AllFacts
      <4>2. c.hook = "second" => (c.to \in DOMAIN index <=> c.to \in due)
        BY <1>4, <2>1, <3>2 DEF AllFacts
      <4>3. c.to \in DOMAIN index' <=> c.to \in DOMAIN index /\ c.to # c.from
        BY <2>2
      <4> QED
        BY <2>1, <3>2, <4>1, <4>2, <4>3
    <3>3. call'[t].to = c.to /\ call'[t].from = c.from /\ call'[t].op = "realloc"
      BY <1>2, <2>1
    <3> QED
      BY <1>2, <2>1, <3>1, <3>2, <3>3 DEF AllFacts
  <2> QED
    BY <1>2, <1>11, <2>5, <2>6, <2>7 DEF Facts
<1>16. ASSUME Passing(t, p) PROVE Facts(t)'
  <2>1. /\ UNCHANGED <<index, allocations>>
        /\ \/ pc[t] = "lookup" /\ p = "frames" /\ c.op = "realloc" /\ ~Ends(t)
           \/ pc[t] = "enqueue" /\ p = "enqueue"
           \/ pc[t] = "enqueue" /\ p = (IF Ends(t) THEN "release" ELSE "note")
    BY <1>16 DEF Passing, Ends
  <2>2. IndexFacts(t)'
    BY <1>2, <1>4, <1>5, <2>1 DEF IndexFacts
  <2>3. NotedFacts(t)'
    BY <1>2, <1>4, <1>5, <2>1 DEF NotedFacts
  <2>4. ~sampling => AllFacts(t)'
    BY <1>2, <1>4, <1>5, <2>1 DEF AllFacts
  <2> QED
    BY <1>2, <1>11, <2>2, <2>3, <2>4 DEF Facts
<1>17. ASSUME NEW a \in Addresses, \A u \in Threads : ~Uses(u, a)' PROVE Matched(a)'
  <2>1. \A u \in Threads : ~Uses(u, a)
    BY <1>2, <1>17 DEF Uses
  <2>2. a \notin A
    BY <1>2, <2>1 DEF Uses
  <2> QED
    BY <1>10, <2>1, <2>2 DEF Agreed
<1>18. \A a \in due' : heap'[a] # "free"
  BY <1>2 DEF Agreed
<1> QED
  BY <1>10, <1>12, <1>13, <1>14, <1>15, <1>16, <1>17, <1>18 DEF Agreed

\* The hook of one domain returns to that of the other: what is known of the
\* blocks is what the other one relies on.
LEMMA FaithfulAgain ==
  ASSUME Settled, Base', Agreed, disturbed' = {}, NEW t \in Threads, Again(t)
  PROVE  Agreed'
<1> DEFINE c == call[t]
           A == {c.from, c.to}
<1>1. /\ Base /\ HeldBusy /\ pc \in [Threads -> ThreadPC] /\ call \in [Threads -> Calls]
      /\ heap \in [Addresses -> {"free", "busy", "live", "large"}]
      /\ due \subseteq Addresses /\ Nowhere \notin Addresses
  BY SettledParts
<1>2. /\ UNCHANGED <<sampling, index, due, disturbed>> /\ pc[t] # "idle"
      /\ pc[t] = IF Ends(t) THEN "release" ELSE "note"
      /\ allocations' = IF Ends(t) THEN allocations ELSE Noted(c)
      /\ c.hook = "first"
  BY DEF Again
<1>3. /\ Given(c) /\ c.op \in {"malloc", "free", "realloc", "grow", "freed", "kept"}
  BY <1>1, <1>2, GivenCall
<1>4. /\ pc'[t] = IF Ends(t) THEN "forget" ELSE IF c.op = "malloc" THEN "frames" ELSE "lookup"
      /\ call'[t].op = (IF c.op = "grow" THEN "realloc" ELSE c.op)
      /\ call'[t].from = c.from /\ call'[t].to = c.to /\ call'[t].size = c.size
      /\ call'[t].hook = "second"
      /\ \A u \in Threads : u # t => pc'[u] = pc[u] /\ call'[u] = call[u]
  BY <1>1 DEF Again
<1>5. ~Ends(t) =>
        /\ DOMAIN allocations' \ A = DOMAIN allocations \ A
        /\ \A a \in DOMAIN allocations : a \notin A => allocations'[a] = allocations[a]
  BY <1>2, NotedMap
<1>6. \A a \in Addresses \ A : Same(a)
  BY <1>2, <1>5 DEF Same
<1>7. /\ \A u \in Threads \ {t} : Facts(u)'
      /\ \A a \in Addresses \ A : Matched(a) => Matched(a)'
  <2>1. \A u \in Threads \ {t} : \A a \in A \cap Addresses : ~Uses(u, a)
    BY <1>2, OwnBlocks
  <2> HIDE DEF A, c
  <2> QED
    BY <1>1, <1>2, <1>4, <1>6, <2>1, Elsewhere
<1>8. /\ DueFacts(t) /\ IndexFacts(t)
      /\ ~sampling => AllFacts(t)
  BY <1>2 DEF Agreed, Facts
<1>9. Ends(t)' <=> Ends(t)
  BY <1>3, <1>4 DEF Ends
<1>10. Facts(t)'
  <2>1. DueFacts(t)'
    BY <1>2, <1>3, <1>4, <1>8, <1>9 DEF DueFacts
  <2>2. IndexFacts(t)'
    BY <1>2, <1>3, <1>4, <1>8, <1>9 DEF IndexFacts, Ends
  <2>3. NotedFacts(t)'
    BY <1>2, <1>4, <1>9 DEF NotedFacts
  <2>4. ASSUME ~sampling PROVE AllFacts(t)'
    <3>1. CASE Ends(t)
      BY <1>2, <1>3, <1>4, <1>9, <3>1 DEF AllFacts, Ends
    <3>2. CASE ~Ends(t)
      <4>1. c.to \in DOMAIN index <=> c.to \in due
        BY <1>2, <1>8, <2>4, <3>2 DEF AllFacts
      <4>2. c.op \in {"realloc", "grow"} => (c.from \in DOMAIN index => c.to \in due)
        <5>1. CASE c.op = "grow"
          BY <1>8, <5>1 DEF DueFacts
        <5>2. CASE c.op = "realloc" /\ c.from # c.to
          BY <1>2, <1>8, <3>2, <5>2 DEF IndexFacts
        <5>3. CASE c.from = c.to
          BY <4>1, <5>3
        <5> QED
          BY <5>1, <5>2, <5>3
      <4> QED
        BY <1>2, <1>3, <1>4, <1>9, <3>2, <4>1, <4>2 DEF AllFacts
    <3> QED
      BY <3>1, <3>2
  <2> QED
    BY <1>2, <2>1, <2>2, <2>3, <2>4 DEF Facts
<1>11. ASSUME NEW a \in Addresses, \A u \in Threads : ~Uses(u, a)' PROVE Matched(a)'
  <2>1. a \notin A /\ \A u \in Threads : ~Uses(u, a)
    <3>1. pc'[t] # "idle"
      BY <1>4
    <3> QED
      BY <1>4, <1>11, <3>1 DEF Uses
  <2> QED
    BY <1>7, <2>1 DEF Agreed
<1>12. ASSUME NEW a \in due' PROVE heap'[a] # "free"
  <2>1. a \in due /\ heap[a] # "free" /\ a \in Addresses
    BY <1>1, <1>2, <1>12 DEF Agreed
  <2>2. c.op = "grow" => a # c.from
    BY <1>3, <1>8, <2>1 DEF DueFacts, Given
  <2> QED
    BY <1>1, <2>1, <2>2 DEF Again
<1> QED
  BY <1>7, <1>10, <1>11, <1>12 DEF Agreed

LEMMA FaithfulStep == Faithful /\ [Next]_vars => Faithful'
<1> SUFFICES ASSUME Faithful, [Next]_vars, disturbed' = {} PROVE Agreed'
  BY SettledStep DEF Faithful
<1>1. Settled /\ Base /\ Base' /\ (disturbed = {} => Agreed)
  BY SettledParts, BaseStep DEF Faithful
<1>2. ASSUME NEW t \in Threads, NEW p \in ThreadPC, NEW c \in Calls, Called(t, p, c)
      PROVE  Agreed'
  BY <1>1, <1>2, FaithfulCalled DEF Called
<1>3. ASSUME NEW t \in Threads, NEW a \in Addresses, Unheard(t, a) PROVE Agreed'
  BY <1>1, <1>3, FaithfulUnheard DEF Unheard
<1>4. ASSUME NEW t \in Threads, Finished(t) PROVE Agreed'
  BY <1>1, <1>4, FaithfulFinished DEF Finished
<1>5. ASSUME NEW t \in Threads, NEW p \in ThreadPC \ {"idle"}, Went(t, p),
             \/ Adding(t, p) \/ Forgetting(t, p) \/ Removing(t, p)
             \/ Moving(t, p) \/ Passing(t, p)
      PROVE  Agreed'
  BY <1>1, <1>5, FaithfulWent DEF Went
<1>6. CASE ResetStats \/ ResetIndex \/ ClearAllocations
  <2>1. /\ UNCHANGED <<sampling, heap, pc, call>> /\ disturbed = {}
        /\ \A t \in Threads : pc[t] = "idle"
    BY <1>6 DEF ResetStats, ResetIndex, ClearAllocations, ResetAt, Disturb, threadVars
  <2>2. \A a \in Addresses : Matched(a)
    BY <1>1, <2>1 DEF Agreed, Uses
  <2>3. \/ UNCHANGED <<index, allocations, due>>
        \/ DOMAIN index' = {} /\ due' = {}
        \/ UNCHANGED <<index, due>> /\ DOMAIN allocations' = {}
    BY <1>6 DEF ResetStats, ResetIndex, ClearAllocations
  <2>4. \A a \in Addresses : Matched(a)'
    BY <2>1, <2>2, <2>3 DEF Matched
  <2>5. \A a \in due' : heap'[a] # "free"
    BY <1>1, <2>1, <2>3 DEF Agreed
  <2>6. \A t \in Threads : Facts(t)'
    BY <2>1 DEF Facts
  <2> QED
    BY <2>4, <2>5, <2>6 DEF Agreed
<1>7. CASE Aside
  <2>1. UNCHANGED <<sampling, heap, pc, call, index, allocations, due, disturbed>>
    BY <1>7 DEF Aside
  <2>2. \A t \in Threads, a \in Addresses : Uses(t, a)' <=> Uses(t, a)
    BY <2>1 DEF Uses
  <2>3. Agreed
    BY <1>1, <2>1
  <2>4. \A t \in Threads : Facts(t)'
    BY <2>1, <2>3, FactsKept DEF Agreed
  <2>5. \A a \in Addresses : Matched(a) => Matched(a)'
    BY <2>1 DEF Matched
  <2> QED
    BY <2>1, <2>2, <2>3, <2>4, <2>5 DEF Agreed
<1>8. ASSUME NEW t \in Threads, Again(t) PROVE Agreed'
  BY <1>1, <1>8, FaithfulAgain DEF Again
<1> QED
  BY <1>1, <1>2, <1>3, <1>4, <1>5, <1>6, <1>7, <1>8, AllSteps DEF Steps

\* Without sampling and with nothing to disturb the tracer, the index lists
\* exactly the blocks that the hooks were told of, whenever no call is under
\* way: no order of the hooks' steps adds a block twice or forgets one.
THEOREM TrackingIsComplete == Spec => []TrackingComplete
<1>1. Faithful => TrackingComplete
  <2> SUFFICES ASSUME Faithful, Quiet, ~sampling, disturbed = {} PROVE DOMAIN index = due
    BY DEF TrackingComplete
  <2>1. Agreed /\ DOMAIN index \subseteq Addresses /\ due \subseteq Addresses
    BY SettledParts DEF Faithful
  <2>2. \A a \in Addresses : Matched(a)
    BY <2>1 DEF Agreed, Uses, Quiet
  <2> QED
    BY <2>1, <2>2 DEF Matched
<1> QED
  BY <1>1, InitFaithful, FaithfulStep, PTL DEF Spec

\* The shim's sizes, which no lock ties to the tracer's index, are those of the
\* index for every block both know, whenever no call is under way.
THEOREM TrackingSizesAgree == Spec => []SizesAgree
<1>1. Faithful => SizesAgree
  <2> SUFFICES ASSUME Faithful, Quiet, disturbed = {},
                      NEW a \in DOMAIN index \cap DOMAIN allocations
               PROVE  allocations[a] = index[a].size
    BY DEF SizesAgree
  <2>1. Agreed /\ a \in Addresses
    BY SettledParts DEF Faithful
  <2>2. Matched(a)
    BY <2>1 DEF Agreed, Uses, Quiet
  <2> QED
    BY <2>2 DEF Matched
<1> QED
  BY <1>1, InitFaithful, FaithfulStep, PTL DEF Spec

-----------------------------------------------------------------------------
(* What an event says of a block, and what is still to be said.             *)

\* What an event is worth as dropped events.
Worth(e) == IF e.kind = "dropped" THEN e.count ELSE 0

\* What the events of a call do, which are two at most, to the bytes of a stack,
\* and are worth.
EffectOf(o, s) ==
  (IF Len(o) > 0 THEN Effect(o[1], s) ELSE 0) + (IF Len(o) > 1 THEN Effect(o[2], s) ELSE 0)

WorthOf(o) ==
  (IF Len(o) > 0 THEN Worth(o[1]) ELSE 0) + (IF Len(o) > 1 THEN Worth(o[2]) ELSE 0)

Outgoing ==
  \A t \in Threads :
    /\ Len(out[t]) <= 2
    /\ pc[t] = "put" => Len(out[t]) = 1
    /\ pc[t] \notin {"put", "enqueue"} => out[t] = <<>>

\* The size that the shim has for the old block is that of the index, before
\* it is looked up and after.
OldSize(t) ==
  LET c == call[t] IN
  c.from \in DOMAIN index =>
    /\ pc[t] \in {"lookup", "forget"} =>
         SizeOf(c.from) \in {0, index[c.from].size}
    /\ pc[t] = "drop" \/ (pc[t] = "frames" /\ c.op = "realloc") =>
         c.old \in {0, index[c.from].size}

\* Since the last clear() nothing has happened that maps or statistics cannot
\* survive.
Exact == disturbed = {} /\ skewed = {}

Singly == \A t \in Threads : pc[t] # "idle" => call[t].hook = "only"

Emptied == resetPC = "stats" => \A t \in Threads : held[t] = Nothing

Careful ==
  /\ Outgoing
  /\ disturbed = {} => Emptied
  /\ Exact => Singly /\ \A t \in Threads : OldSize(t)

\* The bytes that a thread has still to give to the worker.
Behind(t, s) == held[t].bytes[s] + EffectOf(out[t], s)

PendingBytes(s) == SumFunctionOnSet([t \in Threads |-> Behind(t, s)], Threads)

\* The index is what the statistics will say once all events have arrived.
Balanced ==
  Exact /\ resetPC # "stats" =>
    \A s \in Stacks :
      current[s] + batch.bytes[s] + PendingBytes(s)
        = IF resetPC = "index" THEN 0 ELSE IndexedBytes(s)

\* The dropped events that a call will still make, and all that it will send.
Later(t) ==
  (IF pc[t] \in {"forget", "drop"} /\ call[t].from \notin DOMAIN index THEN 1 ELSE 0)
    + (IF pc[t] \in {"lookup", "frames"} /\ call[t].op = "realloc"
            /\ call[t].from \notin DOMAIN index THEN 2 ELSE 0)

Sent(t) == held[t].dropped + WorthOf(out[t])

Owed(t) == Sent(t) + Later(t)

OwedInAll == SumFunctionOnSet([t \in Threads |-> Owed(t)], Threads)

Reckoned ==
  Exact /\ resetPC # "stats" =>
    IF sampling THEN droppedEvents = 0 /\ batch.dropped = 0 /\ \A t \in Threads : Sent(t) = 0
    ELSE /\ strangers - OwedInAll - batch.dropped \in Nat
         /\ droppedEvents = Saturated(strangers - OwedInAll - batch.dropped)

LEMMA EventEffects ==
  ASSUME NEW e \in Event
  PROVE  /\ Worth(e) \in Nat /\ \A s : Effect(e, s) \in Int
         /\ TallyOf(e).dropped = Worth(e)
         /\ \A s \in Stacks : TallyOf(e).bytes[s] = Effect(e, s)
<1>1. \A n \in Sizes : n \in Int /\ 0 - n \in Int
  BY TrackingAssumption
<1>2. CASE e \in [kind : {"dropped"}, count : {1, 2}]
  BY <1>2 DEF Effect, Worth, TallyOf
<1>3. CASE e \in [kind : {"allocation", "deallocation"}, size : Sizes, stack : Stacks]
  <2>1. e.kind \in {"allocation", "deallocation"} /\ e.size \in Sizes
    BY <1>3
  <2> QED
    BY <1>1, <2>1 DEF Effect, Worth, TallyOf
<1> QED
  BY <1>2, <1>3 DEF Event

LEMMA OutNumbers ==
  ASSUME NEW o \in Seq(Event)
  PROVE  WorthOf(o) \in Nat /\ \A s : EffectOf(o, s) \in Int
<1>1. \A i \in 1 .. Len(o) : Worth(o[i]) \in Nat /\ \A s : Effect(o[i], s) \in Int
  BY EventEffects
<1>2. /\ Len(o) > 0 => 1 \in 1 .. Len(o)
      /\ Len(o) > 1 => 2 \in 1 .. Len(o)
  OBVIOUS
<1>3. WorthOf(o) \in Nat
  BY ONLY <1>1, <1>2 DEF WorthOf
<1>4. ASSUME NEW s PROVE EffectOf(o, s) \in Int
  <2>1. Len(o) > 0 => Effect(o[1], s) \in Int
    BY <1>1, <1>2
  <2>2. Len(o) > 1 => Effect(o[2], s) \in Int
    BY <1>1, <1>2
  <2> QED
    BY ONLY <2>1, <2>2 DEF EffectOf
<1> QED
  BY <1>3, <1>4

\* No events, or one.
LEMMA OutNone == /\ WorthOf(<<>>) = 0 /\ Len(<<>>) = 0
                 /\ \A s : EffectOf(<<>>, s) = 0
BY DEF WorthOf, EffectOf

LEMMA OutOne ==
  ASSUME NEW e \in Event
  PROVE  /\ <<e>> \in Seq(Event) /\ Len(<<e>>) = 1 /\ <<e>> # <<>>
         /\ WorthOf(<<e>>) = Worth(e) /\ \A s : EffectOf(<<e>>, s) = Effect(e, s)
<1>1. <<e>> \in Seq(Event) /\ Len(<<e>>) = 1 /\ <<e>>[1] = e /\ <<e>> # <<>>
  OBVIOUS
<1>2. Worth(e) \in Nat /\ \A s : Effect(e, s) \in Int
  BY EventEffects
<1> QED
  BY <1>1, <1>2 DEF WorthOf, EffectOf

\* The first of the events is sent, and one more is made.
LEMMA OutTail ==
  ASSUME NEW o \in Seq(Event), o # <<>>, Len(o) <= 2
  PROVE  /\ Tail(o) \in Seq(Event) /\ Len(Tail(o)) <= 2 /\ Head(o) \in Event
         /\ WorthOf(o) = Worth(Head(o)) + WorthOf(Tail(o))
         /\ \A s : EffectOf(o, s) = Effect(Head(o), s) + EffectOf(Tail(o), s)
<1>1. /\ Tail(o) \in Seq(Event) /\ Len(Tail(o)) = Len(o) - 1 /\ Len(o) \in 1 .. 2
      /\ Head(o) = o[1] /\ Head(o) \in Event
      /\ Len(o) > 1 => Tail(o)[1] = o[2] /\ o[2] \in Event
  <2>1. Len(o) \in Nat /\ Len(o) # 0
    BY EmptySeq
  <2>2. /\ Tail(o) \in Seq(Event) /\ Len(Tail(o)) = Len(o) - 1 /\ Head(o) = o[1]
        /\ \A i \in 1 .. Len(Tail(o)) : Tail(o)[i] = o[i + 1]
    BY HeadTailProperties
  <2>3. o[1] \in Event /\ (Len(o) > 1 => o[2] \in Event)
    BY <2>1, ElementOfSeq
  <2> QED
    BY <2>1, <2>2, <2>3
<1>2. \A e \in Event : Worth(e) \in Nat /\ \A s : Effect(e, s) \in Int
  BY EventEffects
<1>3. WorthOf(o) = Worth(Head(o)) + WorthOf(Tail(o))
  BY <1>1, <1>2 DEF WorthOf
<1>4. ASSUME NEW s PROVE EffectOf(o, s) = Effect(Head(o), s) + EffectOf(Tail(o), s)
  BY <1>1, <1>2 DEF EffectOf
<1> QED
  BY <1>1, <1>3, <1>4

LEMMA AppendFacts ==
  ASSUME NEW S, NEW s \in Seq(S), NEW x \in S
  PROVE  /\ Append(s, x) \in Seq(S)
         /\ Len(Append(s, x)) = Len(s) + 1
         /\ \A i \in 1..Len(s) : Append(s, x)[i] = s[i]
         /\ Append(s, x)[Len(s) + 1] = x
<1>1. Append(s, x) \in Seq(S)
  OBVIOUS
<1>2. /\ Len(Append(s, x)) = Len(s) + 1
      /\ \A i \in 1..Len(s) : Append(s, x)[i] = s[i]
      /\ Append(s, x)[Len(s) + 1] = x
  OBVIOUS
<1> QED
  BY <1>1, <1>2

LEMMA OutAppend ==
  ASSUME NEW o \in Seq(Event), Len(o) = 1, NEW e \in Event
  PROVE  /\ Append(o, e) \in Seq(Event) /\ Len(Append(o, e)) = 2
         /\ WorthOf(Append(o, e)) = WorthOf(o) + Worth(e)
         /\ \A s : EffectOf(Append(o, e), s) = EffectOf(o, s) + Effect(e, s)
<1>1. /\ Append(o, e) \in Seq(Event) /\ Len(Append(o, e)) = 2
      /\ Append(o, e)[1] = o[1] /\ Append(o, e)[2] = e /\ o[1] \in Event
  <2>1. /\ Append(o, e) \in Seq(Event)
        /\ Len(Append(o, e)) = Len(o) + 1
        /\ \A i \in 1..Len(o) : Append(o, e)[i] = o[i]
        /\ Append(o, e)[Len(o) + 1] = e
    BY AppendFacts, Zenon
  <2>3. o[1] \in Event
    BY ElementOfSeq
  <2> QED
    BY <2>1, <2>3
<1>2. \A f \in Event : Worth(f) \in Nat /\ \A s : Effect(f, s) \in Int
  BY EventEffects
<1>3. WorthOf(Append(o, e)) = WorthOf(o) + Worth(e)
  BY <1>1, <1>2 DEF WorthOf
<1>4. ASSUME NEW s PROVE EffectOf(Append(o, e), s) = EffectOf(o, s) + Effect(e, s)
  BY <1>1, <1>2 DEF EffectOf
<1> QED
  BY <1>1, <1>3, <1>4

-----------------------------------------------------------------------------
(* Steps, and what they leave alone.                                        *)

\* A call changes neither the maps nor the statistics, and sends nothing yet.
LEMMA CallSilent ==
  ASSUME Base, NEW t \in Threads, NEW a \in Addresses, IsCalled(t, a)
  PROVE  /\ UNCHANGED <<index, allocations, current, droppedEvents, held, batch, out, resetPC,
                        sampling>>
         /\ skewed \subseteq skewed' /\ disturbed \subseteq disturbed'
         /\ \/ \E p \in ThreadPC, c \in Calls : Called(t, p, c)
            \/ UNCHANGED <<pc, call>> /\ Unheard(t, a)
<1>1. UNCHANGED <<index, allocations, current, droppedEvents, held, batch, out, resetPC, sampling>>
  BY DEF IsCalled, Malloc, Free, ReallocFrees, Realloc, Grow, ReallocKeeps, MallocUntracked,
         FreeUntracked, Begin, statVars, threadVars
<1>2. (\E p \in ThreadPC, c \in Calls : Called(t, p, c)) \/ Unheard(t, a)
  BY CallShapes
<1> QED
  BY <1>1, <1>2 DEF Called, Unheard, threadVars

\* A hook that is the only one of its call goes on.
GoesSingly(t) ==
  \/ \E s \in Stacks, sampled \in BOOLEAN :
       \/ Track(t, s, sampled) /\ call[t].op = "malloc"
       \/ Put(t, s, sampled)
  \/ Forget(t) \/ Untrack(t) \/ Lookup(t) \/ Retrack(t)
  \/ \E accepted \in BOOLEAN : Enqueue(t, accepted)
  \/ Note(t) \/ Return(t)

LEMMA GoesOnSingly ==
  ASSUME Base, NEW t \in Threads, GoesOn(t), call[t].hook = "only"
  PROVE  GoesSingly(t) /\ pc[t] # "idle"
<1>1. pc[t] # "idle"
  BY DEF GoesOn, Track, Put, Forget, Untrack, Lookup, Retrack, Enqueue, Note, NoteInner,
         Return, ReturnInner, At, Finish
<1>2. call[t].op # "grow"
  BY <1>1, GivenCall DEF Given
<1> QED
  BY <1>1, <1>2 DEF GoesOn, GoesSingly, Track, NoteInner, ReturnInner

\* What both maps say of a block.
Kept(a) ==
  /\ a \in DOMAIN index' <=> a \in DOMAIN index
  /\ a \in DOMAIN index => index'[a] = index[a]
  /\ SizeOf(a)' = SizeOf(a)

\* It leaves other calls, and their blocks, alone.
LEMMA HookAlone ==
  ASSUME Settled, disturbed = {}, NEW t \in Threads, GoesSingly(t)
  PROVE  /\ pc[t] # "idle" /\ disturbed' = {} /\ UNCHANGED <<sampling, resetPC, batch>>
         /\ UNCHANGED <<current, droppedEvents>>
         /\ strangers' = strangers /\ skewed \subseteq skewed'
         /\ \A u \in Threads : u # t =>
              /\ pc'[u] = pc[u] /\ call'[u] = call[u] /\ out'[u] = out[u]
              /\ held'[u] = held[u]
              /\ pc[u] # "idle" => Kept(call[u].from)
         /\ \A a \in Addresses : a \notin {call[t].from, call[t].to} => Kept(a)
<1> USE DEF history, statVars
<1>1. /\ Base /\ pc \in [Threads -> ThreadPC] /\ call \in [Threads -> Calls]
      /\ out \in [Threads -> Seq(Event)] /\ held \in [Threads -> Tally]
  BY SettledParts DEF Base, ThreadTypeOK, StatTypeOK
<1>2. /\ pc[t] # "idle" /\ skewed \subseteq skewed'
      /\ UNCHANGED <<sampling, resetPC, batch, current, droppedEvents, disturbed, strangers>>
  BY DEF GoesSingly, Track, Put, Forget, Untrack, Lookup, Retrack, Enqueue, Note, Return,
         At, Finish, Skew
<1>3. \A u \in Threads : u # t =>
        pc'[u] = pc[u] /\ call'[u] = call[u] /\ out'[u] = out[u] /\ held'[u] = held[u]
  BY <1>1 DEF GoesSingly, Track, Put, Forget, Untrack, Lookup, Retrack, Enqueue, Note, Return,
         At, Finish, Emit
<1>4. ASSUME NEW a, a \notin {call[t].from, call[t].to} PROVE Kept(a)
  <2>1. \/ index' = index \/ index' = Forgotten(index, call[t].from)
        \/ \E r : index' = Inserted(index, call[t].to, r)
    BY DEF GoesSingly, Track, Put, Forget, Untrack, Lookup, Retrack, Enqueue, Note, Return
  <2>2. \/ allocations' = allocations
        \/ allocations' = Forgotten(allocations, call[t].from)
        \/ allocations' = Noted(call[t])
    BY DEF GoesSingly, Track, Put, Forget, Untrack, Lookup, Retrack, Enqueue, Note, Return
  <2>3. /\ a \in DOMAIN index' <=> a \in DOMAIN index
        /\ a \in DOMAIN index => index'[a] = index[a]
    BY <1>4, <2>1 DEF Forgotten, Inserted, Restrict
  <2>4. /\ a \in DOMAIN allocations' <=> a \in DOMAIN allocations
        /\ a \in DOMAIN allocations => allocations'[a] = allocations[a]
    <3>1. CASE allocations' = Noted(call[t])
      <4>1. PICK c : c = call[t]
        OBVIOUS
      <4>2. /\ DOMAIN Noted(c) \ {c.from, c.to} = DOMAIN allocations \ {c.from, c.to}
            /\ \A b \in DOMAIN allocations : b \notin {c.from, c.to} => Noted(c)[b] = allocations[b]
        BY NotedMap, Zenon
      <4> QED
        BY <1>4, <3>1, <4>1, <4>2
    <3>2. CASE allocations' # Noted(call[t])
      BY <1>4, <2>2, <3>2 DEF Forgotten, Restrict
    <3> QED
      BY <3>1, <3>2
  <2> QED
    BY <2>3, <2>4 DEF Kept, SizeOf
<1>5. ASSUME NEW u \in Threads, u # t, pc[u] # "idle" PROVE Kept(call[u].from)
  <2>1. call[u].from \in Addresses /\ Uses(u, call[u].from)
    BY <1>1, <1>5, GivenCall DEF Uses, Given
  <2>2. call[u].from \notin {call[t].from, call[t].to}
    BY <1>2, <1>5, <2>1, OwnBlocks
  <2> QED
    BY <1>4, <2>2
<1> QED
  BY <1>2, <1>3, <1>4, <1>5

\* The worker, and clear() without the statistics, touch no call.
LEMMA WorkFrame ==
  ASSUME Worked \/ ResetDrain \/ ResetStats \/ ResetIndex \/ ClearAllocations \/ UNCHANGED vars
  PROVE  UNCHANGED <<sampling, pc, call, out>>
BY DEF Worked, Ingest, Drain, Exit, ResetDrain, ResetStats, ResetIndex, ClearAllocations,
       vars, threadVars

-----------------------------------------------------------------------------
(* A call has two events at most, and knows the size of the block it ends.  *)

\* What a call is left with when its events are known.
LEMMA EmitOut ==
  ASSUME Base, NEW t \in Threads, NEW events \in Seq(Event), Len(events) <= 2,
         Emit(t, events)
  PROVE  /\ out'[t] = events /\ Len(out'[t]) <= 2
         /\ pc'[t] \in {"enqueue", "note", "release"}
         /\ pc'[t] # "enqueue" => out'[t] = <<>>
BY DEF Base, ThreadTypeOK, Emit, AfterEvents

OutgoingOf(t) ==
  /\ Len(out[t]) <= 2
  /\ pc[t] = "put" => Len(out[t]) = 1
  /\ pc[t] \notin {"put", "enqueue"} => out[t] = <<>>

LEMMA MissingLength ==
  ASSUME NEW n \in {1, 2}
  PROVE  /\ Missing(n) \in Seq(Event) /\ Len(Missing(n)) <= 2
         /\ WorthOf(Missing(n)) = IF sampling THEN 0 ELSE n
         /\ \A s : EffectOf(Missing(n), s) = 0
<1> DEFINE e == [kind |-> "dropped", count |-> n]
<1>1. e \in Event /\ e.kind = "dropped" /\ e.count = n
  BY DEF Event
<1>2. Worth(e) = n /\ \A s : Effect(e, s) = 0
  BY <1>1 DEF Worth, Effect
<1>3. Missing(n) = IF sampling THEN <<>> ELSE <<e>>
  BY DEF Missing
<1> HIDE DEF e
<1>4. CASE sampling
  BY <1>3, <1>4, OutNone, EmptySeq
<1>5. CASE ~sampling
  BY <1>1, <1>2, <1>3, <1>5, OutOne
<1> QED
  BY <1>4, <1>5

LEMMA OutgoingHook ==
  ASSUME Base, Outgoing, NEW t \in Threads, GoesOn(t)
  PROVE  OutgoingOf(t)'
<1>1. /\ pc \in [Threads -> ThreadPC] /\ call \in [Threads -> Calls]
      /\ out \in [Threads -> Seq(Event)] /\ out[t] \in Seq(Event) /\ call[t] \in Calls
      /\ Where(t) /\ \A a \in DOMAIN index : index[a] \in Record
  BY DEF Base, ThreadTypeOK, MapTypeOK, MapOf, Range
<1>2. OutgoingOf(t)
  BY DEF Outgoing, OutgoingOf
<1>3. ASSUME NEW events \in Seq(Event), Len(events) <= 2, Emit(t, events)
      PROVE  OutgoingOf(t)'
  BY <1>3, EmitOut DEF OutgoingOf
<1>4. <<>> \in Seq(Event) /\ Len(<<>>) <= 2
  BY EmptySeq
<1>5. \A e \in Event : <<e>> \in Seq(Event) /\ Len(<<e>>) = 1
  BY OutOne
<1>13. ASSUME NEW e \in Event, Emit(t, <<e>>) PROVE OutgoingOf(t)'
  <2>1. <<e>> \in Seq(Event) /\ Len(<<e>>) <= 2
    BY <1>5
  <2> QED
    BY <1>3, <1>13, <2>1, Zenon
<1>6. pc[t] \in {"put", "frames", "lookup", "forget", "drop", "note"} =>
        call[t].size \in Sizes \cup {0} /\ call[t].old \in Sizes \cup {0} /\ Given(call[t])
  BY <1>1 DEF Calls, Where, Fits
<1>7. ASSUME NEW s \in Stacks, NEW sampled, Track(t, s, sampled) PROVE OutgoingOf(t)'
  <2>1. Allocation(call[t].size, s) \in Event
    BY <1>6, <1>7, EventTypes DEF Track, Given
  <2> QED
    <3>1. Emit(t, <<>>) \/ Emit(t, <<Allocation(call[t].size, s)>>)
      BY <1>7 DEF Track
    <3> QED
      BY <1>3, <1>4, <1>13, <2>1, <3>1
<1>8. ASSUME NEW s \in Stacks, NEW sampled, Put(t, s, sampled) PROVE OutgoingOf(t)'
  <2>1. pc[t] = "put" /\ pc' = [pc EXCEPT ![t] = "enqueue"] /\ call[t].op = "realloc"
    BY <1>1, <1>8 DEF Put, At, Where, Fits
  <2>2. Allocation(call[t].size, s) \in Event /\ Len(out[t]) = 1
    BY <1>2, <1>6, <2>1, EventTypes DEF Given, OutgoingOf
  <2>3. out'[t] = out[t] \/ out'[t] = Append(out[t], Allocation(call[t].size, s))
    BY <1>1, <1>8 DEF Put
  <2>4. Len(out'[t]) <= 2
    BY <2>2, <2>3, <1>1, OutAppend
  <2>5. pc'[t] = "enqueue"
    BY <1>1, <2>1
  <2> QED
    BY <2>4, <2>5 DEF OutgoingOf
<1>9. CASE Untrack(t)
  <2>1. call[t].from \in DOMAIN index => Deallocation(call[t].old, index[call[t].from]) \in Event
    BY <1>1, <1>6, <1>9, EventTypes DEF Untrack
  <2> QED
    <3>1. \/ /\ call[t].from \in DOMAIN index
             /\ Emit(t, <<Deallocation(call[t].old, index[call[t].from])>>)
          \/ Emit(t, Missing(1))
      BY <1>9 DEF Untrack
    <3> QED
      BY <1>3, <1>13, <2>1, <3>1, MissingLength
<1>10. CASE Retrack(t)
  <2>1. call[t].from \in DOMAIN index => Deallocation(call[t].old, index[call[t].from]) \in Event
    BY <1>1, <1>6, <1>10, EventTypes DEF Retrack
  <2>2. CASE call[t].from \in DOMAIN index
    <3>1. out'[t] = <<Deallocation(call[t].old, index[call[t].from])>> /\ pc'[t] = "put"
      BY <1>1, <1>10, <2>2 DEF Retrack
    <3> QED
      BY <1>5, <2>1, <2>2, <3>1 DEF OutgoingOf
  <2>3. CASE call[t].from \notin DOMAIN index
    BY <1>3, <1>10, <2>3, MissingLength DEF Retrack
  <2> QED
    BY <2>2, <2>3
<1>11. ASSUME NEW accepted, Enqueue(t, accepted) PROVE OutgoingOf(t)'
  <2>1. out[t] # <<>> /\ Emit(t, Tail(out[t]))
    BY <1>1, <1>11 DEF Enqueue, Where, Fits
  <2>2. Tail(out[t]) \in Seq(Event) /\ Len(Tail(out[t])) <= 2
    BY <1>1, <1>2, <2>1, OutTail DEF OutgoingOf
  <2> QED
    BY <1>3, <2>1, <2>2
<1>12. CASE Forget(t) \/ Lookup(t) \/ Note(t) \/ NoteInner(t) \/ Return(t) \/ ReturnInner(t)
  <2>1. /\ pc[t] \in {"forget", "lookup", "note", "release"} /\ out' = out
        /\ pc'[t] \in {"drop", "frames", "idle", "lookup", "forget"}
    BY <1>1, <1>12 DEF Forget, Lookup, Note, NoteInner, Return, ReturnInner, At, Finish, statVars
  <2> QED
    BY <1>2, <2>1 DEF OutgoingOf
<1> QED
  BY <1>7, <1>8, <1>9, <1>10, <1>11, <1>12 DEF GoesOn

\* A step of one call leaves the others alone.
LEMMA HookOthers ==
  ASSUME Base, NEW t \in Threads, GoesOn(t), NEW u \in Threads, u # t
  PROVE  pc'[u] = pc[u] /\ call'[u] = call[u] /\ out'[u] = out[u]
BY DEF Base, ThreadTypeOK, GoesOn, Track, Put, Forget, Untrack, Lookup, Retrack, Enqueue,
       Note, NoteInner, Return, ReturnInner, At, Finish, Emit

LEMMA OutgoingStep == Base /\ Outgoing /\ [Next]_vars => Outgoing'
<1> SUFFICES ASSUME Base, Outgoing, [Next]_vars, NEW u \in Threads PROVE OutgoingOf(u)'
  BY DEF Outgoing, OutgoingOf
<1>1. pc \in [Threads -> ThreadPC] /\ out \in [Threads -> Seq(Event)]
  BY DEF Base, ThreadTypeOK
<1>2. OutgoingOf(u)
  BY DEF Outgoing, OutgoingOf
<1>3. ASSUME NEW t \in Threads, NEW a \in Addresses, IsCalled(t, a) PROVE OutgoingOf(u)'
  <2>1. out' = out
    BY <1>3, CallSilent
  <2>2. pc'[u] = pc[u] \/ (pc[u] = "idle" /\ pc'[u] \in {"frames", "lookup", "forget"})
    BY <1>1, <1>3, CallSilent DEF Called
  <2> QED
    BY <1>2, <2>1, <2>2 DEF OutgoingOf
<1>4. ASSUME NEW t \in Threads, GoesOn(t) PROVE OutgoingOf(u)'
  <2>1. CASE u = t
    BY <1>4, <2>1, OutgoingHook
  <2>2. CASE u # t
    BY <1>2, <1>4, <2>2, HookOthers DEF OutgoingOf
  <2> QED
    BY <2>1, <2>2
<1>5. CASE Worked \/ ResetDrain \/ ResetStats \/ ResetIndex \/ ClearAllocations \/ UNCHANGED vars
  BY <1>2, <1>5, WorkFrame DEF OutgoingOf
<1> QED
  BY <1>3, <1>4, <1>5, StepCases

LEMMA OldSizeHook ==
  ASSUME Faithful, Careful, Exact, NEW t \in Threads, GoesSingly(t)
  PROVE  \A u \in Threads : OldSize(u)'
<1> SUFFICES ASSUME NEW u \in Threads PROVE OldSize(u)'
  OBVIOUS
<1>1. /\ pc \in [Threads -> ThreadPC] /\ call \in [Threads -> Calls] /\ call[t] \in Calls
      /\ Where(t) /\ Settled /\ Base /\ disturbed = {}
  BY SettledParts DEF Faithful, Base, Exact
<1>2. OldSize(u)
  BY DEF Careful
<1>3. CASE u # t
  <2>1. pc'[u] = pc[u] /\ call'[u] = call[u] /\ (pc[u] # "idle" => Kept(call[u].from))
    BY <1>1, <1>3, HookAlone
  <2> QED
    BY <1>2, <2>1 DEF OldSize, Kept
<1>4. CASE u = t
  <2>1. CASE Forget(t) \/ Lookup(t)
    <3>1. /\ pc[t] \in {"forget", "lookup"} /\ index' = index
          /\ call' = [call EXCEPT ![t].old = SizeOf(call[t].from)]
          /\ pc'[t] \in {"drop", "frames"}
      BY <1>1, <2>1 DEF Forget, Lookup, At
    <3>2. call'[t].old = SizeOf(call[t].from) /\ call'[t].from = call[t].from
      BY <1>1, <3>1 DEF Calls
    <3> QED
      BY <1>2, <1>4, <3>1, <3>2 DEF OldSize
  <2>2. ASSUME NEW events, Emit(t, events) PROVE pc'[t] \in {"enqueue", "note", "release"}
    BY <1>1, <2>2 DEF Emit, AfterEvents
  <2>3. CASE ~(Forget(t) \/ Lookup(t))
    <3>1. pc'[t] \in {"enqueue", "note", "release", "put", "idle"}
      BY <1>1, <2>2, <2>3
      DEF GoesSingly, Track, Put, Untrack, Retrack, Enqueue, Note, Return, At, Finish
    <3> QED
      BY <1>4, <3>1 DEF OldSize
  <2> QED
    BY <2>1, <2>3
<1> QED
  BY <1>3, <1>4

\* What a hook does to the history.
LEMMA HookHistory ==
  ASSUME Base, NEW t \in Threads, GoesOn(t)
  PROVE  /\ disturbed' = disturbed /\ skewed \subseteq skewed' /\ resetPC' = resetPC
         /\ pc[t] # "idle" /\ (Exact' => Exact)
BY DEF GoesOn, Track, Put, Forget, Untrack, Lookup, Retrack, Enqueue, Note, NoteInner, Return,
       ReturnInner, At, Finish, Skew, history, Exact

\* At a clear() all is quiet, or something has been disturbed.
LEMMA ClearFrame ==
  ASSUME ResetStats \/ ResetIndex \/ ClearAllocations, disturbed' = {}
  PROVE  /\ disturbed = {} /\ UNCHANGED <<sampling, held, batch, pc, call, out>>
         /\ \A t \in Threads : pc[t] = "idle"
         /\ (~ResetStats => (Exact' => Exact))
BY DEF ResetStats, ResetIndex, ClearAllocations, ResetAt, Disturb, threadVars, statVars, Exact

LEMMA EmptiedStep == Faithful /\ Careful /\ [Next]_vars /\ disturbed' = {} => Emptied'
<1> SUFFICES ASSUME Faithful, Careful, [Next]_vars, disturbed' = {}, resetPC' = "stats"
             PROVE  \A t \in Threads : held'[t] = Nothing
  BY DEF Emptied
<1>1. /\ Settled /\ Base /\ (disturbed = {} => Emptied /\ ResetAlone)
      /\ held \in [Threads -> Tally]
  BY SettledParts DEF Faithful, Careful, Settled, Apart, Base, StatTypeOK
<1>2. ASSUME NEW t \in Threads, NEW a \in Addresses, IsCalled(t, a)
      PROVE  \A u \in Threads : held'[u] = Nothing
  <2>1. held' = held /\ resetPC' = resetPC /\ disturbed \subseteq disturbed'
    BY <1>1, <1>2, CallSilent
  <2> QED
    BY <1>1, <2>1 DEF Emptied
<1>3. ASSUME NEW t \in Threads, GoesOn(t) PROVE FALSE
  BY <1>1, <1>3, HookHistory DEF ResetAlone
<1>4. CASE Worked
  <2>1. UNCHANGED <<disturbed, resetPC>> /\ \A u \in Threads : held'[u] \in {held[u], Nothing}
    BY <1>1, <1>4 DEF Worked, Ingest, Drain, Exit, history
  <2> QED
    BY <1>1, <2>1 DEF Emptied
<1>5. CASE ResetDrain
  BY <1>5 DEF ResetDrain
<1>6. CASE ResetStats \/ ResetIndex \/ ClearAllocations
  BY <1>6 DEF ResetStats, ResetIndex, ClearAllocations, ResetAt
<1>7. CASE UNCHANGED vars
  BY <1>1, <1>7 DEF vars, statVars, history, Emptied
<1> QED
  BY <1>2, <1>3, <1>4, <1>5, <1>6, <1>7, StepCases

LEMMA CarefulStep == Faithful /\ Careful /\ [Next]_vars => Careful'
<1> SUFFICES ASSUME Faithful, Careful, [Next]_vars PROVE Careful'
  OBVIOUS
<1>1. /\ Settled /\ Base /\ pc \in [Threads -> ThreadPC] /\ call \in [Threads -> Calls]
  BY SettledParts DEF Faithful
<1>2. Outgoing'
  BY <1>1, OutgoingStep DEF Careful
<1>3. ASSUME Exact', NEW u \in Threads
      PROVE  OldSize(u)' /\ (pc'[u] # "idle" => call'[u].hook = "only")
  <2> DEFINE Goal == OldSize(u)' /\ (pc'[u] # "idle" => call'[u].hook = "only")
  <2>1. ASSUME NEW t \in Threads, NEW a \in Addresses, IsCalled(t, a) PROVE Goal
    <3>1. UNCHANGED <<index, allocations>> /\ Exact /\ disturbed' = {} /\ skewed' = {}
      BY <1>1, <1>3, <2>1, CallSilent DEF Exact
    <3>2. OldSize(u) /\ (pc[u] # "idle" => call[u].hook = "only")
      BY <3>1 DEF Careful, Singly
    <3>3. ASSUME NEW p \in ThreadPC, NEW c \in Calls, Called(t, p, c) PROVE Goal
      <4>1. disturbed = {} /\ c.from \in Addresses /\ \A v \in Threads : ~Uses(v, c.from)
        BY <1>1, <3>1, <3>3, CalledUnused DEF Called, Given
      <4>2. Matched(c.from)
        BY <4>1 DEF Faithful, Agreed
      <4>3. c.from \in DOMAIN index => SizeOf(c.from) \in {0, index[c.from].size}
        BY <4>2 DEF Matched, SizeOf
      <4>4. /\ u # t => pc'[u] = pc[u] /\ call'[u] = call[u]
            /\ u = t => pc'[u] = p /\ call'[u] = c
        BY <1>1, <3>3 DEF Called
      <4>5. /\ p = CASE c.op \in {"malloc", "grow"} -> "frames" [] c.op = "realloc" -> "lookup"
                     [] OTHER -> "forget"
            /\ c.hook = "only"
        BY <3>1, <3>3 DEF Called
      <4>6. CASE u = t
        BY <3>1, <4>3, <4>4, <4>5, <4>6 DEF OldSize, SizeOf
      <4>7. CASE u # t
        BY <3>1, <3>2, <4>4, <4>7 DEF OldSize, SizeOf
      <4> QED
        BY <4>6, <4>7
    <3>4. ASSUME UNCHANGED <<pc, call>> PROVE Goal
      BY <3>1, <3>2, <3>4 DEF OldSize, SizeOf
    <3> QED
      BY <1>1, <2>1, <3>3, <3>4, CallSilent
  <2>2. ASSUME NEW t \in Threads, GoesOn(t) PROVE Goal
    <3>1. Exact /\ Singly /\ pc[t] # "idle"
      BY <1>1, <1>3, <2>2, HookHistory DEF Careful
    <3>2. GoesSingly(t)
      BY <1>1, <2>2, <3>1, GoesOnSingly DEF Singly
    <3>3. OldSize(u)'
      BY <3>1, <3>2, OldSizeHook
    <3>4. pc'[u] # "idle" => call'[u].hook = "only"
      <4>1. CASE u # t
        BY <1>1, <2>2, <3>1, <4>1, HookOthers DEF Singly
      <4>2. CASE u = t
        <5>1. pc'[t] = "idle" \/ call'[t].hook = call[t].hook
          BY <1>1, <3>2 DEF GoesSingly, Track, Put, Forget, Untrack, Lookup, Retrack, Enqueue,
                            Note, Return, At, Finish, Calls
        <5> QED
          BY <3>1, <4>2, <5>1 DEF Singly
      <4> QED
        BY <4>1, <4>2
    <3> QED
      BY <3>3, <3>4
  <2>3. CASE Worked \/ ResetDrain \/ UNCHANGED vars
    <3>1. UNCHANGED <<index, allocations, pc, call>> /\ (Exact' => Exact)
      BY <2>3 DEF Worked, Ingest, Drain, Exit, Skew, ResetDrain, ResetAt, Disturb, vars,
                  threadVars, history, Exact
    <3>2. OldSize(u) /\ (pc[u] # "idle" => call[u].hook = "only")
      BY <1>3, <3>1 DEF Careful, Singly
    <3> QED
      BY <3>1, <3>2 DEF OldSize, SizeOf
  <2>4. CASE ResetStats \/ ResetIndex \/ ClearAllocations
    <3>1. pc' = pc /\ pc[u] = "idle"
      BY <1>3, <2>4, ClearFrame DEF Exact
    <3> QED
      BY <3>1 DEF OldSize
  <2> QED
    BY <2>1, <2>2, <2>3, <2>4, StepCases
<1>4. Exact' => Singly' /\ \A t \in Threads : OldSize(t)'
  BY <1>3 DEF Singly
<1> QED
  BY <1>2, <1>4, EmptiedStep DEF Careful

-----------------------------------------------------------------------------
(* The bytes of a stack: in the statistics, on their way, and in the index. *)

LEMMA RecordSizes ==
  ASSUME NEW i, MapOf(i, Addresses, Record)
  PROVE  \A a \in DOMAIN i : i[a].size \in Int
<1> SUFFICES ASSUME NEW a \in DOMAIN i PROVE i[a].size \in Int
  OBVIOUS
<1>1. i[a] \in Record
  BY DEF MapOf, Range
<1>2. i[a].size \in Sizes
  BY <1>1 DEF Record
<1>3. Sizes \subseteq Int
  BY TrackingAssumption
<1> QED
  BY <1>2, <1>3

LEMMA EffectOfBlock ==
  ASSUME Base
  PROVE  /\ \A n \in Sizes, r \in Stacks, s \in Stacks :
              Effect(Allocation(n, r), s) = IF r = s THEN n ELSE 0
         /\ \A a \in DOMAIN index, s \in Stacks : \A n \in {0, index[a].size} :
              Effect(Deallocation(n, index[a]), s) = 0 - BytesAt(a, s)
<1>1. \A a \in DOMAIN index : index[a].size \in Int
  BY RecordSizes DEF Base, MapTypeOK
<1>2. ASSUME NEW n, NEW r, NEW s PROVE Effect(Allocation(n, r), s) = IF r = s THEN n ELSE 0
  BY DEF Effect, Allocation
<1>3. ASSUME NEW a \in DOMAIN index, NEW s \in Stacks, NEW n \in {0, index[a].size}
      PROVE  Effect(Deallocation(n, index[a]), s) = 0 - BytesAt(a, s)
  <2>1. /\ Deallocation(n, index[a]).kind = "deallocation"
        /\ Deallocation(n, index[a]).size = index[a].size
        /\ Deallocation(n, index[a]).stack = index[a].stack
    BY DEF Deallocation
  <2>2. Effect(Deallocation(n, index[a]), s)
          = IF index[a].stack = s THEN 0 - index[a].size ELSE 0
    BY <2>1 DEF Effect
  <2>3. BytesAt(a, s) = IF index[a].stack = s THEN index[a].size ELSE 0
    BY DEF BytesAt
  <2> QED
    BY <1>1, <2>2, <2>3
<1> QED
  BY <1>2, <1>3

LEMMA BytesNumber == Base => \A a \in Addresses, s \in Stacks : BytesAt(a, s) \in Int
<1> SUFFICES ASSUME Base, NEW a \in Addresses, NEW s \in Stacks PROVE BytesAt(a, s) \in Int
  OBVIOUS
<1>1. a \in DOMAIN index => index[a].size \in Int
  BY RecordSizes DEF Base, MapTypeOK
<1> QED
  BY <1>1 DEF BytesAt

LEMMA IndexedNumber == Base => \A s \in Stacks : IndexedBytes(s) \in Int
<1> SUFFICES ASSUME Base, NEW s \in Stacks PROVE IndexedBytes(s) \in Int
  OBVIOUS
<1> DEFINE f == [a \in Addresses |-> BytesAt(a, s)]
<1>1. \A a \in Addresses : f[a] \in Int
  BY BytesNumber
<1> HIDE DEF f
<1>2. SumFunctionOnSet(f, Addresses) \in Int
  BY <1>1, TrackingAssumption, SumInt
<1> QED
  BY <1>2 DEF IndexedBytes, f

LEMMA BehindNumber ==
  ASSUME Base, NEW t \in Threads, NEW s \in Stacks
  PROVE  /\ held[t].bytes[s] \in Int /\ EffectOf(out[t], s) \in Int
         /\ Behind(t, s) \in Int
<1>1. held[t] \in Tally /\ out[t] \in Seq(Event)
  BY DEF Base, StatTypeOK, ThreadTypeOK
<1>2. held[t].bytes[s] \in Int /\ EffectOf(out[t], s) \in Int
  BY <1>1, OutNumbers DEF Tally
<1> QED
  BY <1>2 DEF Behind

LEMMA PendingNumber == Base => \A s \in Stacks : PendingBytes(s) \in Int
<1> SUFFICES ASSUME Base, NEW s \in Stacks PROVE PendingBytes(s) \in Int
  OBVIOUS
<1> DEFINE f == [t \in Threads |-> Behind(t, s)]
<1>1. \A t \in Threads : f[t] \in Int
  BY BehindNumber
<1> HIDE DEF f
<1>2. SumFunctionOnSet(f, Threads) \in Int
  BY <1>1, TrackingAssumption, SumInt
<1> QED
  BY <1>2 DEF PendingBytes, f

\* One block of the index changes.
LEMMA IndexedChanged ==
  ASSUME Base, Base', NEW a \in Addresses, NEW s \in Stacks,
         \A b \in Addresses \ {a} :
           /\ b \in DOMAIN index' <=> b \in DOMAIN index
           /\ b \in DOMAIN index => index'[b] = index[b]
  PROVE  IndexedBytes(s)' = IndexedBytes(s) - BytesAt(a, s) + BytesAt(a, s)'
<1>1. PICK f, g : /\ f = [b \in Addresses |-> BytesAt(b, s)]
                  /\ g = [b \in Addresses |-> BytesAt(b, s)']
  OBVIOUS
<1>2. \A b \in Addresses \ {a} : BytesAt(b, s)' = BytesAt(b, s)
  BY DEF BytesAt
<1>3. /\ \A b \in Addresses : BytesAt(b, s) \in Int
      /\ \A b \in Addresses : BytesAt(b, s)' \in Int
  <2>1. MapOf(index, Addresses, Record) /\ MapOf(index', Addresses, Record)
    BY DEF Base, MapTypeOK
  <2>2. /\ \A b \in DOMAIN index : index[b].size \in Int
        /\ \A b \in DOMAIN index' : index'[b].size \in Int
    BY <2>1, RecordSizes
  <2> QED
    BY <2>2 DEF BytesAt
<1>4. /\ \A b \in Addresses : f[b] \in Int
      /\ \A b \in Addresses : b # a => g[b] = f[b]
      /\ g[a] \in Int
  BY <1>1, <1>2, <1>3
<1>5. SumFunctionOnSet(g, Addresses) = SumFunctionOnSet(f, Addresses) - f[a] + g[a]
  BY <1>4, TrackingAssumption, SumChanged
<1>6. f[a] = BytesAt(a, s) /\ g[a] = BytesAt(a, s)'
  BY <1>1
<1> QED
  BY <1>1, <1>5, <1>6 DEF IndexedBytes

\* A new block adds its bytes, one that goes takes them with it.
LEMMA IndexedInsert ==
  ASSUME Base, Base', NEW a \in Addresses, NEW n \in Sizes, NEW r \in Stacks,
         a \notin DOMAIN index, index' = Inserted(index, a, [size |-> n, stack |-> r]),
         NEW s \in Stacks
  PROVE  IndexedBytes(s)' = IndexedBytes(s) + Effect(Allocation(n, r), s)
<1>1. /\ a \in DOMAIN index' /\ index'[a] = [size |-> n, stack |-> r]
      /\ \A b \in Addresses \ {a} :
           /\ b \in DOMAIN index' <=> b \in DOMAIN index
           /\ b \in DOMAIN index => index'[b] = index[b]
  <2> DEFINE q == [size |-> n, stack |-> r]
             i == Inserted(index, a, q)
  <2>1. /\ DOMAIN i = DOMAIN index \cup {a} /\ i[a] = q
        /\ \A b \in DOMAIN index : b # a => i[b] = index[b]
    BY DEF Inserted
  <2>2. index' = i
    OBVIOUS
  <2> HIDE DEF i
  <2> QED
    BY <2>1, <2>2
<1>2. BytesAt(a, s) = 0 /\ BytesAt(a, s)' = IF r = s THEN n ELSE 0
  BY <1>1 DEF BytesAt
<1>3. IndexedBytes(s)' = IndexedBytes(s) - BytesAt(a, s) + BytesAt(a, s)'
  BY <1>1, IndexedChanged
<1>4. Effect(Allocation(n, r), s) = IF r = s THEN n ELSE 0
  BY EffectOfBlock
<1>5. IndexedBytes(s) \in Int /\ n \in Int
  BY IndexedNumber, TrackingAssumption
<1> QED
  BY <1>2, <1>3, <1>4, <1>5

LEMMA IndexedForget ==
  ASSUME Base, Base', NEW a \in Addresses, index' = Forgotten(index, a), NEW s \in Stacks
  PROVE  IndexedBytes(s)' = IndexedBytes(s) - BytesAt(a, s)
<1>1. /\ a \notin DOMAIN index'
      /\ \A b \in Addresses \ {a} :
           /\ b \in DOMAIN index' <=> b \in DOMAIN index
           /\ b \in DOMAIN index => index'[b] = index[b]
  BY ForgottenFacts
<1>2. BytesAt(a, s)' = 0
  BY <1>1 DEF BytesAt
<1>3. IndexedBytes(s)' = IndexedBytes(s) - BytesAt(a, s) + BytesAt(a, s)'
  BY <1>1, IndexedChanged
<1>4. IndexedBytes(s) \in Int /\ BytesAt(a, s) \in Int
  BY IndexedNumber, BytesNumber
<1> QED
  BY <1>2, <1>3, <1>4

LEMMA IndexedSame ==
  ASSUME index' = index
  PROVE  \A s \in Stacks : IndexedBytes(s)' = IndexedBytes(s)
BY DEF IndexedBytes, BytesAt

\* What one thread has to give changes.
LEMMA PendingChanged ==
  ASSUME Base, Base', NEW t \in Threads, NEW s \in Stacks,
         \A u \in Threads : u # t => out'[u] = out[u] /\ held'[u] = held[u]
  PROVE  PendingBytes(s)' = PendingBytes(s) - Behind(t, s) + Behind(t, s)'
<1>1. PICK f, g : /\ f = [u \in Threads |-> Behind(u, s)]
                  /\ g = [u \in Threads |-> Behind(u, s)']
  OBVIOUS
<1>2. \A u \in Threads : Behind(u, s) \in Int
  BY BehindNumber
<1>3. Behind(t, s)' \in Int
  <2>1. held'[t] \in Tally /\ out'[t] \in Seq(Event)
    BY DEF Base, StatTypeOK, ThreadTypeOK
  <2>2. held'[t].bytes[s] \in Int /\ EffectOf(out'[t], s) \in Int
    BY <2>1, OutNumbers DEF Tally
  <2> QED
    BY <2>2 DEF Behind
<1>4. \A u \in Threads : u # t => Behind(u, s)' = Behind(u, s)
  BY DEF Behind
<1>5. /\ \A u \in Threads : f[u] \in Int
      /\ \A u \in Threads : u # t => g[u] = f[u]
      /\ g[t] \in Int
  BY <1>1, <1>2, <1>3, <1>4
<1>6. SumFunctionOnSet(g, Threads) = SumFunctionOnSet(f, Threads) - f[t] + g[t]
  BY <1>5, TrackingAssumption, SumChanged
<1>7. f[t] = Behind(t, s) /\ g[t] = Behind(t, s)'
  BY <1>1
<1> QED
  BY <1>1, <1>6, <1>7 DEF PendingBytes

LEMMA PendingSame ==
  ASSUME out' = out, held' = held
  PROVE  \A s \in Stacks : PendingBytes(s)' = PendingBytes(s)
BY DEF PendingBytes, Behind

\* What a step of a call adds to the bytes that are on their way, it adds to
\* those of the index.
LEMMA HookBytes ==
  ASSUME Faithful, Careful, Base', Exact, skewed' = {},
         NEW t \in Threads, GoesSingly(t), NEW s \in Stacks
  PROVE  \E d \in Int :
           /\ Behind(t, s)' = Behind(t, s) + d
           /\ IndexedBytes(s)' = IndexedBytes(s) + d
<1> DEFINE c == call[t]
           Goal == \E d \in Int :
             /\ Behind(t, s)' = Behind(t, s) + d
             /\ IndexedBytes(s)' = IndexedBytes(s) + d
<1>1. /\ Settled /\ Base /\ Where(t) /\ Facts(t) /\ OldSize(t) /\ c.op # "grow"
      /\ out \in [Threads -> Seq(Event)] /\ out[t] \in Seq(Event)
      /\ c \in Calls /\ c.hook = "only" /\ held \in [Threads -> Tally]
      /\ \A a \in DOMAIN index : index[a] \in Record
  <2>1. Settled /\ Base /\ disturbed = {} /\ pc[t] # "idle"
    BY SettledParts, HookAlone DEF Faithful, Exact
  <2>2. c.hook = "only" /\ OldSize(t) /\ Facts(t) /\ Given(c)
    BY <2>1, GivenCall DEF Faithful, Agreed, Careful, Singly
  <2> QED
    BY <2>1, <2>2
    DEF Base, ThreadTypeOK, StatTypeOK, MapTypeOK, MapOf, Range, Given
<1>2. /\ Len(out[t]) <= 2 /\ (pc[t] = "put" => Len(out[t]) = 1)
      /\ pc[t] \notin {"put", "enqueue"} => out[t] = <<>>
  BY DEF Careful, Outgoing
<1>3. /\ EffectOf(out[t], s) \in Int /\ IndexedBytes(s) \in Int /\ EffectOf(<<>>, s) = 0
      /\ held[t].bytes[s] \in Int
  BY <1>1, BehindNumber, IndexedNumber, OutNone
<1>4. ASSUME NEW n \in Sizes, NEW r \in Stacks
      PROVE  /\ Allocation(n, r) \in Event /\ Effect(Allocation(n, r), s) \in Int
             /\ EffectOf(<<Allocation(n, r)>>, s) = Effect(Allocation(n, r), s)
  BY EventTypes, OutOne, EventEffects
<1>5. ASSUME index' = index,
             held'[t].bytes[s] + EffectOf(out'[t], s) = held[t].bytes[s] + EffectOf(out[t], s)
      PROVE  Goal
  <2>1. IndexedBytes(s)' = IndexedBytes(s) + 0
    BY <1>3, <1>5, IndexedSame
  <2>2. Behind(t, s)' = Behind(t, s) + 0
    BY <1>3, <1>5 DEF Behind
  <2> QED
    BY <2>1, <2>2
\* What is added to the events of the call.
<1>20. ASSUME NEW d \in Int, held'[t] = held[t],
              EffectOf(out'[t], s) = EffectOf(out[t], s) + d
       PROVE  Behind(t, s)' = Behind(t, s) + d
  BY <1>3, <1>20 DEF Behind
<1>6. pc[t] # "idle" =>
        /\ Given(c) /\ c.from \in Addresses /\ IndexFacts(t)
        /\ c.old \in Sizes \cup {0}
  BY <1>1, GivenCall DEF Given, Facts, Calls
<1>7. ASSUME NEW r \in Stacks, NEW sampled, Track(t, r, sampled) PROVE Goal
  <2>1. /\ pc[t] = "frames" /\ c.op = "malloc" /\ held' = held
        /\ \/ index' = index /\ out'[t] = <<>>
           \/ /\ index' = Inserted(index, c.to, [size |-> c.size, stack |-> r])
              /\ out'[t] = <<Allocation(c.size, r)>>
    BY <1>1, <1>7 DEF Track, Emit, statVars
  <2>2. c.size \in Sizes /\ c.to \in Addresses /\ c.to \notin DOMAIN index /\ out[t] = <<>>
    BY <1>1, <1>2, <1>6, <2>1 DEF Given, IndexFacts
  <2>3. CASE index' = index /\ out'[t] = <<>>
    BY <1>5, <2>1, <2>2, <2>3
  <2>4. CASE /\ index' = Inserted(index, c.to, [size |-> c.size, stack |-> r])
             /\ out'[t] = <<Allocation(c.size, r)>>
    <3>1. IndexedBytes(s)' = IndexedBytes(s) + Effect(Allocation(c.size, r), s)
      BY <1>1, <2>2, <2>4, IndexedInsert
    <3>2. EffectOf(out'[t], s) = EffectOf(out[t], s) + Effect(Allocation(c.size, r), s)
      BY <1>3, <1>4, <2>2, <2>4
    <3>3. Effect(Allocation(c.size, r), s) \in Int
      BY <1>4, <2>2
    <3> QED
      BY <1>20, <2>1, <3>1, <3>2, <3>3
  <2> QED
    BY <2>1, <2>3, <2>4
<1>8. ASSUME NEW r \in Stacks, NEW sampled, Put(t, r, sampled) PROVE Goal
  <2>1. /\ pc[t] = "put" /\ held' = held /\ c.op = "realloc"
        /\ \/ index' = index /\ out' = out
           \/ /\ index' = Inserted(index, c.to, [size |-> c.size, stack |-> r])
              /\ out'[t] = Append(out[t], Allocation(c.size, r))
    BY <1>1, <1>8 DEF Put, At, statVars, Where, Fits
  <2>2. c.size \in Sizes /\ c.to \in Addresses /\ c.to \notin DOMAIN index /\ Len(out[t]) = 1
    BY <1>1, <1>2, <1>6, <2>1 DEF Given, IndexFacts
  <2>3. CASE index' = index /\ out' = out
    BY <1>5, <2>1, <2>3
  <2>4. CASE /\ index' = Inserted(index, c.to, [size |-> c.size, stack |-> r])
             /\ out'[t] = Append(out[t], Allocation(c.size, r))
    <3>1. IndexedBytes(s)' = IndexedBytes(s) + Effect(Allocation(c.size, r), s)
      BY <1>1, <2>2, <2>4, IndexedInsert
    <3>2. EffectOf(out'[t], s) = EffectOf(out[t], s) + Effect(Allocation(c.size, r), s)
      <4>1. Allocation(c.size, r) \in Event
        BY <1>4, <2>2
      <4>2. EffectOf(Append(out[t], Allocation(c.size, r)), s)
              = EffectOf(out[t], s) + Effect(Allocation(c.size, r), s)
        BY <1>1, <2>2, <4>1, OutAppend
      <4> QED
        BY <2>4, <4>2
    <3>3. Effect(Allocation(c.size, r), s) \in Int
      BY <1>4, <2>2
    <3> QED
      BY <1>20, <2>1, <3>1, <3>2, <3>3
  <2> QED
    BY <2>1, <2>3, <2>4
<1>9. ASSUME out[t] = <<>>, held' = held, index' = Forgotten(index, c.from),
             c.from \in Addresses, c.old \in Sizes \cup {0},
             \/ /\ c.from \in DOMAIN index /\ c.old \in {0, index[c.from].size}
                /\ out'[t] = <<Deallocation(c.old, index[c.from])>>
             \/ /\ c.from \notin DOMAIN index
                /\ \E n \in {1, 2} : out'[t] = Missing(n)
      PROVE  Goal
  <2>1. IndexedBytes(s)' = IndexedBytes(s) - BytesAt(c.from, s) /\ BytesAt(c.from, s) \in Int
    BY <1>1, <1>9, IndexedForget, BytesNumber
  <2>2. EffectOf(out'[t], s) = 0 - BytesAt(c.from, s)
    <3>1. CASE c.from \in DOMAIN index
      <4>1. out'[t] = <<Deallocation(c.old, index[c.from])>>
            /\ c.old \in {0, index[c.from].size}
        BY <1>9, <3>1
      <4>2. Deallocation(c.old, index[c.from]) \in Event
        BY <1>1, <1>9, <3>1, EventTypes
      <4>3. EffectOf(out'[t], s) = Effect(Deallocation(c.old, index[c.from]), s)
        BY <4>1, <4>2, OutOne
      <4> QED
        BY <1>1, <3>1, <4>1, <4>3, EffectOfBlock
    <3>2. CASE c.from \notin DOMAIN index
      <4>1. EffectOf(out'[t], s) = 0
        BY <1>9, <3>2, MissingLength
      <4>2. BytesAt(c.from, s) = 0
        BY <3>2 DEF BytesAt
      <4> QED
        BY <4>1, <4>2
    <3> QED
      BY <3>1, <3>2
  <2> PICK d \in Int : d = 0 - BytesAt(c.from, s)
    BY <2>1
  <2>4. EffectOf(out'[t], s) = EffectOf(out[t], s) + d
    BY <1>3, <1>9, <2>2
  <2>5. IndexedBytes(s)' = IndexedBytes(s) + d
    BY <1>3, <2>1
  <2>6. Behind(t, s)' = Behind(t, s) + d
    BY <1>9, <1>20, <2>4
  <2> HIDE DEF c
  <2> QED
    BY <2>5, <2>6
<1>10. CASE Untrack(t)
  <2>1. /\ pc[t] = "drop" /\ held' = held /\ index' = Forgotten(index, c.from)
        /\ out'[t] = IF c.from \in DOMAIN index THEN <<Deallocation(c.old, index[c.from])>>
                     ELSE Missing(1)
    BY <1>1, <1>10 DEF Untrack, Emit, statVars
  <2>2. c.from \in DOMAIN index => c.old \in {0, index[c.from].size}
    BY <1>1, <2>1 DEF OldSize
  <2> QED
    BY <1>2, <1>6, <1>9, <2>1, <2>2
<1>11. CASE Retrack(t)
  <2>1. /\ pc[t] = "frames" /\ c.op = "realloc" /\ held' = held
        /\ index' = Forgotten(index, c.from)
        /\ out'[t] = IF c.from \in DOMAIN index THEN <<Deallocation(c.old, index[c.from])>>
                     ELSE Missing(2)
    BY <1>1, <1>11 DEF Retrack, Emit, statVars
  <2>2. c.from \in DOMAIN index => c.old \in {0, index[c.from].size}
    BY <1>1, <2>1 DEF OldSize
  <2> QED
    BY <1>2, <1>6, <1>9, <2>1, <2>2
<1>12. ASSUME NEW accepted \in BOOLEAN, Enqueue(t, accepted) PROVE Goal
  <2>1. /\ pc[t] = "enqueue" /\ index' = index /\ out'[t] = Tail(out[t])
        /\ out[t] # <<>> /\ accepted
        /\ held' = [held EXCEPT ![t] = Plus(held[t], TallyOf(Head(out[t])))]
    BY <1>1, <1>12 DEF Enqueue, Emit, Where, Fits, Skew
  <2>2. /\ Head(out[t]) \in Event /\ Tail(out[t]) \in Seq(Event)
        /\ EffectOf(out[t], s) = Effect(Head(out[t]), s) + EffectOf(Tail(out[t]), s)
    BY <1>1, <1>2, <2>1, OutTail
  <2>3. Effect(Head(out[t]), s) \in Int /\ EffectOf(Tail(out[t]), s) \in Int
        /\ TallyOf(Head(out[t])).bytes[s] = Effect(Head(out[t]), s)
    BY <2>2, EventEffects, OutNumbers
  <2>4. held'[t].bytes[s] = held[t].bytes[s] + Effect(Head(out[t]), s)
    BY <1>1, <2>1, <2>3 DEF Plus
  <2>5. held'[t].bytes[s] + EffectOf(out'[t], s) = held[t].bytes[s] + EffectOf(out[t], s)
    BY <1>3, <2>1, <2>2, <2>3, <2>4
  <2> QED
    BY <1>5, <2>1, <2>5
<1>13. CASE Forget(t) \/ Lookup(t) \/ Note(t) \/ Return(t)
  <2>1. UNCHANGED <<index, held, out>>
    BY <1>13 DEF Forget, Lookup, Note, Return, statVars
  <2> QED
    BY <1>5, <2>1
<1> QED
  BY <1>7, <1>8, <1>10, <1>11, <1>12, <1>13 DEF GoesSingly

\* No call is under way, so that only the events of the buffers are on their way.
LEMMA NothingOutgoing ==
  ASSUME Base, Outgoing, \A t \in Threads : pc[t] = "idle"
  PROVE  /\ \A t \in Threads, s \in Stacks : Behind(t, s) = held[t].bytes[s]
         /\ \A t \in Threads : WorthOf(out[t]) = 0
<1>1. \A t \in Threads, s \in Stacks : EffectOf(out[t], s) = 0 /\ WorthOf(out[t]) = 0
  BY OutNone DEF Outgoing
<1> QED
  BY <1>1, BehindNumber, OutNone DEF Behind, Outgoing

LEMMA HookQuiet ==
  ASSUME Faithful, Careful, Exact', NEW t \in Threads, GoesOn(t)
  PROVE  /\ Exact /\ disturbed = {} /\ skewed' = {} /\ resetPC = "idle" /\ resetPC' = "idle"
         /\ GoesSingly(t)
<1>1. Settled /\ Base
  BY SettledParts DEF Faithful
<1>2. Exact /\ disturbed = {} /\ skewed' = {} /\ pc[t] # "idle" /\ resetPC' = resetPC
  BY <1>1, HookHistory DEF Exact
<1>3. ResetAlone /\ Singly
  BY <1>1, <1>2 DEF Settled, Apart, Careful
<1> QED
  BY <1>1, <1>2, <1>3, GoesOnSingly DEF ResetAlone, Singly

\* The steps of the worker and of clear(), as far as the statistics go.
LEMMA WorkerShapes ==
  ASSUME Base, Worked, Exact'
  PROVE  /\ Exact /\ UNCHANGED <<index, resetPC, strangers>>
         /\ \/ /\ \A s \in Stacks : current'[s] = current[s] + batch.bytes[s]
               /\ droppedEvents' = Saturated(droppedEvents + batch.dropped)
               /\ batch' = Nothing /\ held' = held
            \/ \E t \in Threads :
                 /\ UNCHANGED <<current, droppedEvents>>
                 /\ batch' = Plus(batch, held[t])
                 /\ held'[t] = Nothing /\ \A u \in Threads : u # t => held'[u] = held[u]
<1>1. held \in [Threads -> Tally]
  BY DEF Base, StatTypeOK
<1>2. CASE Ingest
  BY <1>2 DEF Ingest, Exact, history
<1>3. ASSUME NEW t \in Threads, Drain(t)
      PROVE  /\ Exact /\ UNCHANGED <<index, resetPC, strangers>>
             /\ UNCHANGED <<current, droppedEvents>> /\ batch' = Plus(batch, held[t])
             /\ held'[t] = Nothing /\ \A u \in Threads : u # t => held'[u] = held[u]
  BY <1>1, <1>3 DEF Drain, Exact, history
<1>4. ASSUME NEW t \in Threads, Exit(t) PROVE FALSE
  BY <1>4 DEF Exit, Exact, Skew
<1> QED
  BY <1>2, <1>3, <1>4 DEF Worked

LEMMA NothingTally ==
  /\ Nothing.dropped = 0
  /\ \A s \in Stacks : Nothing.bytes[s] = 0
BY DEF Nothing

\* What clear() leaves behind when it clears the statistics.
LEMMA StatsCleared ==
  ASSUME Faithful, Careful, Base', Exact', ResetStats
  PROVE  /\ resetPC' = "index" /\ strangers' = 0 /\ droppedEvents' = 0
         /\ \A s \in Stacks : current'[s] = 0
         /\ batch' = Nothing /\ out' = out /\ pc' = pc
         /\ \A t \in Threads : held'[t] = Nothing /\ out[t] = <<>> /\ pc[t] = "idle"
<1>1. /\ resetPC = "stats" /\ resetPC' = "index" /\ strangers' = 0 /\ droppedEvents' = 0
      /\ UNCHANGED <<held, batch, out, pc>>
      /\ \A s \in Stacks : current'[s] = 0
      /\ skewed' = IF batch = Nothing THEN {} ELSE {"batch"}
  BY DEF ResetStats, ResetAt, threadVars
<1>2. disturbed = {} /\ batch = Nothing /\ \A t \in Threads : pc[t] = "idle"
  BY <1>1, ClearFrame DEF Exact
<1>3. Emptied /\ Outgoing
  BY <1>2 DEF Careful
<1> QED
  BY <1>1, <1>2, <1>3 DEF Emptied, Outgoing

LEMMA BalancedStep == Faithful /\ Careful /\ Balanced /\ [Next]_vars => Balanced'
<1> SUFFICES ASSUME Faithful, Careful, Balanced, [Next]_vars,
                    Exact', resetPC' # "stats", NEW s \in Stacks
             PROVE  current'[s] + batch'.bytes[s] + PendingBytes(s)'
                      = IF resetPC' = "index" THEN 0 ELSE IndexedBytes(s)'
  BY DEF Balanced
<1> DEFINE Goal == current'[s] + batch'.bytes[s] + PendingBytes(s)'
                     = IF resetPC' = "index" THEN 0 ELSE IndexedBytes(s)'
<1>1. /\ Settled /\ Base /\ Base' /\ Outgoing
      /\ current[s] \in Int /\ current'[s] \in Int
      /\ batch.bytes[s] \in Int /\ batch'.bytes[s] \in Int
      /\ held \in [Threads -> Tally]
  BY SettledParts, BaseStep DEF Faithful, Careful, Base, StatTypeOK, Tally
<1>2. Exact /\ resetPC # "stats" =>
        current[s] + batch.bytes[s] + PendingBytes(s)
          = IF resetPC = "index" THEN 0 ELSE IndexedBytes(s)
  BY DEF Balanced
<1>3. PendingBytes(s) \in Int /\ IndexedBytes(s) \in Int
  BY <1>1, PendingNumber, IndexedNumber
<1>5. index' = index => IndexedBytes(s)' = IndexedBytes(s)
  BY IndexedSame
<1>6. ASSUME UNCHANGED <<current, batch, held, out, index>>, Exact,
             resetPC' = resetPC \/ (resetPC = "allocations" /\ resetPC' = "idle")
      PROVE Goal
  <2>1. PendingBytes(s)' = PendingBytes(s)
    BY <1>6, PendingSame
  <2> QED
    BY <1>2, <1>5, <1>6, <2>1
<1>7. ASSUME NEW t \in Threads, NEW a \in Addresses, IsCalled(t, a) PROVE Goal
  <2>1. UNCHANGED <<current, batch, held, out, index, resetPC>> /\ Exact
    BY <1>1, <1>7, CallSilent DEF Exact
  <2> QED
    BY <1>6, <2>1
<1>8. ASSUME NEW t \in Threads, GoesOn(t) PROVE Goal
  <2>1. /\ Exact /\ disturbed = {} /\ skewed' = {} /\ resetPC = "idle" /\ resetPC' = "idle"
        /\ GoesSingly(t)
    BY <1>8, HookQuiet
  <2>2. /\ \A u \in Threads : u # t => out'[u] = out[u] /\ held'[u] = held[u]
        /\ UNCHANGED <<current, batch>>
    BY <1>1, <2>1, HookAlone
  <2>3. PendingBytes(s)' = PendingBytes(s) - Behind(t, s) + Behind(t, s)'
    BY <1>1, <2>2, PendingChanged
  <2>4. PICK d \in Int :
          /\ Behind(t, s)' = Behind(t, s) + d
          /\ IndexedBytes(s)' = IndexedBytes(s) + d
    BY <1>1, <2>1, HookBytes
  <2>5. Behind(t, s) \in Int
    BY <1>1, BehindNumber
  <2>6. PendingBytes(s)' = PendingBytes(s) + d
    BY <1>3, <2>3, <2>4, <2>5
  <2>7. current[s] + batch.bytes[s] + PendingBytes(s) = IndexedBytes(s)
    BY <1>2, <2>1
  <2>8. current'[s] + batch'.bytes[s] + PendingBytes(s)' = IndexedBytes(s)'
    BY <1>1, <1>3, <2>2, <2>4, <2>6, <2>7
  <2> QED
    BY <2>1, <2>8
<1>9. CASE Worked
  <2>1. Exact /\ UNCHANGED <<index, resetPC, out>>
    BY <1>1, <1>9, WorkerShapes, WorkFrame
  <2>2. current[s] + batch.bytes[s] + PendingBytes(s)
          = IF resetPC = "index" THEN 0 ELSE IndexedBytes(s)
    BY <1>2, <2>1
  <2>3. CASE /\ \A r \in Stacks : current'[r] = current[r] + batch.bytes[r]
             /\ batch' = Nothing /\ held' = held
    <3>1. PendingBytes(s)' = PendingBytes(s)
      BY <2>1, <2>3, PendingSame
    <3>2. current'[s] = current[s] + batch.bytes[s] /\ batch'.bytes[s] = 0
      BY <2>3, NothingTally
    <3> QED
      BY <1>1, <1>3, <1>5, <2>1, <2>2, <3>1, <3>2
  <2>4. ASSUME NEW t \in Threads, current' = current, batch' = Plus(batch, held[t]),
               held'[t] = Nothing, \A u \in Threads : u # t => held'[u] = held[u]
        PROVE  Goal
    <3>1. PendingBytes(s)' = PendingBytes(s) - Behind(t, s) + Behind(t, s)'
      BY <1>1, <2>1, <2>4, PendingChanged
    <3>2. held[t].bytes[s] \in Int /\ EffectOf(out[t], s) \in Int
      BY <1>1, BehindNumber
    <3>3. Behind(t, s) = held[t].bytes[s] + EffectOf(out[t], s)
      BY DEF Behind
    <3>4. Behind(t, s)' = EffectOf(out[t], s)
      BY <2>1, <2>4, <3>2, NothingTally DEF Behind
    <3>5. batch'.bytes[s] = batch.bytes[s] + held[t].bytes[s]
      BY <2>4 DEF Plus
    <3> QED
      BY <1>1, <1>3, <1>5, <2>1, <2>2, <2>4, <3>1, <3>2, <3>3, <3>4, <3>5
  <2> QED
    BY <1>1, <1>9, <2>3, <2>4, WorkerShapes
<1>10. CASE ResetDrain
  BY <1>10 DEF ResetDrain, ResetAt
<1>11. CASE ResetStats
  <2>1. /\ resetPC' = "index" /\ current'[s] = 0 /\ batch' = Nothing /\ out' = out
        /\ \A t \in Threads : held'[t] = Nothing /\ out[t] = <<>>
    BY <1>1, <1>11, StatsCleared
  <2>2. PendingBytes(s)' = 0
    <3>1. PICK f : f = [t \in Threads |-> Behind(t, s)']
      OBVIOUS
    <3>2. \A t \in Threads : f[t] = 0
      BY <2>1, <3>1, OutNone, NothingTally DEF Behind
    <3>3. SumFunctionOnSet(f, Threads) = 0
      BY <3>2, TrackingAssumption, SumZero
    <3> QED
      BY <3>1, <3>3 DEF PendingBytes
  <2> QED
    BY <2>1, <2>2, NothingTally
<1>12. CASE ResetIndex
  <2>1. Exact /\ UNCHANGED <<current, batch, held, out>>
        /\ resetPC = "index" /\ resetPC' = "allocations" /\ index' = <<>>
    BY <1>12, ClearFrame DEF ResetIndex, ResetAt, statVars, Exact, ResetStats
  <2>2. current[s] + batch.bytes[s] + PendingBytes(s) = 0
    BY <1>2, <2>1
  <2>3. IndexedBytes(s)' = 0
    <3>1. PICK f : f = [a \in Addresses |-> BytesAt(a, s)']
      OBVIOUS
    <3>2. \A a \in Addresses : f[a] = 0
      BY <2>1, <3>1 DEF BytesAt
    <3>3. SumFunctionOnSet(f, Addresses) = 0
      BY <3>2, TrackingAssumption, SumZero
    <3> QED
      BY <3>1, <3>3 DEF IndexedBytes
  <2>4. PendingBytes(s)' = PendingBytes(s)
    BY <2>1, PendingSame
  <2> QED
    BY <2>1, <2>2, <2>3, <2>4
<1>13. CASE ClearAllocations
  <2>1. Exact /\ UNCHANGED <<current, batch, held, out, index>>
        /\ resetPC = "allocations" /\ resetPC' = "idle"
    BY <1>13, ClearFrame DEF ClearAllocations, ResetAt, statVars, Exact, ResetStats
  <2> QED
    BY <1>6, <2>1
<1>14. CASE UNCHANGED vars
  <2>1. UNCHANGED <<current, batch, held, out, index, resetPC>> /\ Exact
    BY <1>14 DEF vars, statVars, threadVars, history, Exact
  <2> QED
    BY <1>6, <2>1
<1> QED
  BY <1>7, <1>8, <1>9, <1>10, <1>11, <1>12, <1>13, <1>14, StepCases

LEMMA InitBalanced == Init => Careful /\ Balanced
<1> SUFFICES ASSUME Init PROVE Careful /\ Balanced
  OBVIOUS
<1>1. /\ Base /\ index = <<>> /\ resetPC = "idle" /\ batch = Nothing
      /\ \A t \in Threads : pc[t] = "idle" /\ out[t] = <<>> /\ held[t] = Nothing
      /\ \A s \in Stacks : current[s] = 0
  BY InitBase DEF Init
<1>2. Careful
  BY <1>1, OutNone DEF Careful, Outgoing, OldSize, Emptied, Singly
<1>3. ASSUME NEW s \in Stacks PROVE PendingBytes(s) = 0
  <2> DEFINE f == [t \in Threads |-> Behind(t, s)]
  <2>1. \A t \in Threads : f[t] = 0
    BY <1>1, OutNone, NothingTally DEF Behind
  <2> HIDE DEF f
  <2>2. SumFunctionOnSet(f, Threads) = 0
    BY <2>1, TrackingAssumption, SumZero
  <2> QED
    BY <2>2 DEF PendingBytes, f
<1>4. ASSUME NEW s \in Stacks PROVE IndexedBytes(s) = 0
  <2> DEFINE f == [a \in Addresses |-> BytesAt(a, s)]
  <2>1. \A a \in Addresses : f[a] = 0
    BY <1>1 DEF BytesAt
  <2> HIDE DEF f
  <2>2. SumFunctionOnSet(f, Addresses) = 0
    BY <2>1, TrackingAssumption, SumZero
  <2> QED
    BY <2>2 DEF IndexedBytes, f
<1>5. \A s \in Stacks : current[s] + batch.bytes[s] + PendingBytes(s) = IndexedBytes(s)
  BY <1>1, <1>3, <1>4, NothingTally
<1> QED
  BY <1>1, <1>2, <1>5 DEF Balanced

\* The bytes that the statistics give a stack, with those that wait in buffers
\* and in the worker's batch, are those of its blocks in the index whenever no
\* call is under way, unless the maps have been disturbed or, since the last
\* clear(), an event was refused or ended with its thread, a large block was
\* reported twice or the worker held a batch at that clear().  Until then the
\* difference is in the events that the calls have still to enqueue, and a block
\* leaves with the size it came with though the shim's map, from which the size
\* is read, has no lock in common with the index.
THEOREM TrackingBytesExact == Spec => []BytesExact
<1>1. Faithful /\ Careful /\ Balanced => BytesExact
  <2> SUFFICES ASSUME Faithful, Careful, Balanced, Quiet, Exact, NEW s \in Stacks
               PROVE  current[s] + BytesUnderway(s) = IndexedBytes(s)
    BY DEF BytesExact, Exact
  <2>1. Base /\ current[s] \in Int /\ batch.bytes[s] \in Int
    BY SettledParts DEF Faithful, Base, StatTypeOK, Tally
  <2>2. \A t \in Threads : Behind(t, s) = held[t].bytes[s]
    BY <2>1, NothingOutgoing DEF Quiet, Careful
  <2>3. [t \in Threads |-> Behind(t, s)] = [t \in Threads |-> held[t].bytes[s]]
    BY <2>2
  <2>4. PendingBytes(s) = SumFunction([t \in Threads |-> held[t].bytes[s]])
    BY <2>3 DEF PendingBytes, SumFunction
  <2>5. PendingBytes(s) \in Int /\ BytesUnderway(s) = batch.bytes[s] + PendingBytes(s)
    BY <2>1, <2>4, PendingNumber DEF BytesUnderway
  <2>6. current[s] + batch.bytes[s] + PendingBytes(s) = IndexedBytes(s)
    BY DEF Quiet, Balanced
  <2> QED
    BY <2>1, <2>5, <2>6
<1> QED
  BY <1>1, InitFaithful, InitBalanced, FaithfulStep, CarefulStep, BalancedStep, PTL DEF Spec

-----------------------------------------------------------------------------
(* Dropped events: counted, on their way, or still owed by a call.          *)

LEMMA SaturatedSum ==
  ASSUME NEW m \in Nat, NEW n \in Nat
  PROVE  /\ Saturated(m + n) = Saturated(Saturated(m) + n)
         /\ Saturated(m) \in Nat
         /\ m <= MaxDropped => Saturated(m) = m
BY TrackingAssumption DEF Saturated

LEMMA LaterValues ==
  ASSUME NEW t \in Threads
  PROVE  /\ Later(t) \in Nat
         /\ pc[t] \in {"forget", "drop"} =>
              Later(t) = IF call[t].from \in DOMAIN index THEN 0 ELSE 1
         /\ pc[t] \in {"lookup", "frames"} /\ call[t].op = "realloc" =>
              Later(t) = IF call[t].from \in DOMAIN index THEN 0 ELSE 2
         /\ pc[t] \in {"idle", "put", "enqueue", "note", "release"} => Later(t) = 0
         /\ pc[t] \notin {"forget", "drop"} /\ call[t].op # "realloc" => Later(t) = 0
BY DEF Later

LEMMA LaterNext ==
  ASSUME NEW t \in Threads
  PROVE  /\ pc'[t] \in {"forget", "drop"} =>
              Later(t)' = IF call'[t].from \in DOMAIN index' THEN 0 ELSE 1
         /\ pc'[t] \in {"lookup", "frames"} /\ call'[t].op = "realloc" =>
              Later(t)' = IF call'[t].from \in DOMAIN index' THEN 0 ELSE 2
         /\ pc'[t] \in {"idle", "put", "enqueue", "note", "release"} => Later(t)' = 0
         /\ pc'[t] \notin {"forget", "drop"} /\ call'[t].op # "realloc" => Later(t)' = 0
BY DEF Later

LEMMA OwedNumber ==
  ASSUME Base, NEW t \in Threads
  PROVE  /\ WorthOf(out[t]) \in Nat /\ held[t].dropped \in Nat
         /\ Later(t) \in Nat /\ Sent(t) \in Nat /\ Owed(t) \in Nat
<1>1. held[t] \in Tally /\ out[t] \in Seq(Event)
  BY DEF Base, StatTypeOK, ThreadTypeOK
<1>2. WorthOf(out[t]) \in Nat /\ held[t].dropped \in Nat /\ Later(t) \in Nat
  BY <1>1, OutNumbers, LaterValues DEF Tally
<1> QED
  BY <1>2 DEF Sent, Owed

LEMMA OwedNext ==
  ASSUME Base', NEW t \in Threads
  PROVE  Owed(t)' \in Nat
<1>1. held'[t] \in Tally /\ out'[t] \in Seq(Event)
  BY DEF Base, StatTypeOK, ThreadTypeOK
<1>2. WorthOf(out'[t]) \in Nat /\ held'[t].dropped \in Nat
  BY <1>1, OutNumbers DEF Tally
<1>3. Later(t)' \in Nat
  BY DEF Later
<1> QED
  BY <1>2, <1>3 DEF Sent, Owed

LEMMA OwedInAllNumber == Base => OwedInAll \in Nat
<1> SUFFICES ASSUME Base PROVE OwedInAll \in Nat
  OBVIOUS
<1> DEFINE f == [t \in Threads |-> Owed(t)]
<1>1. \A t \in Threads : f[t] \in Nat
  BY OwedNumber
<1> HIDE DEF f
<1>2. SumFunctionOnSet(f, Threads) \in Nat
  BY <1>1, TrackingAssumption, SumNat
<1> QED
  BY <1>2 DEF OwedInAll, f

\* One thread's debt changes.
LEMMA OwedChanged ==
  ASSUME Base, Base', NEW t \in Threads,
         \A u \in Threads : u # t => Owed(u)' = Owed(u)
  PROVE  OwedInAll' = OwedInAll - Owed(t) + Owed(t)'
<1>1. PICK f, g : /\ f = [u \in Threads |-> Owed(u)]
                  /\ g = [u \in Threads |-> Owed(u)']
  OBVIOUS
<1>2. \A u \in Threads : Owed(u) \in Nat
  BY OwedNumber
<1>3. Owed(t)' \in Nat
  BY OwedNext
<1>4. /\ \A u \in Threads : f[u] \in Int
      /\ \A u \in Threads : u # t => g[u] = f[u]
      /\ g[t] \in Int
  BY <1>1, <1>2, <1>3
<1>5. SumFunctionOnSet(g, Threads) = SumFunctionOnSet(f, Threads) - f[t] + g[t]
  BY <1>4, TrackingAssumption, SumChanged
<1>6. f[t] = Owed(t) /\ g[t] = Owed(t)'
  BY <1>1
<1> QED
  BY <1>1, <1>5, <1>6 DEF OwedInAll

LEMMA OwedSame ==
  ASSUME \A t \in Threads : Owed(t)' = Owed(t)
  PROVE  OwedInAll' = OwedInAll
<1>1. [t \in Threads |-> Owed(t)'] = [t \in Threads |-> Owed(t)]
  OBVIOUS
<1> QED
  BY <1>1 DEF OwedInAll

\* A step of a call makes m of the dropped events that it owes, and loses none.
LEMMA HookWorth ==
  ASSUME Faithful, Careful, Base', Exact, skewed' = {}, NEW t \in Threads, GoesSingly(t)
  PROVE  \E m \in Nat :
           /\ Sent(t)' = Sent(t) + m
           /\ IF sampling THEN m = 0 ELSE Later(t) = Later(t)' + m
<1> DEFINE c == call[t]
           Goal(m) ==
             /\ Sent(t)' = Sent(t) + m
             /\ IF sampling THEN m = 0 ELSE Later(t) = Later(t)' + m
<1>1. /\ Base /\ Where(t) /\ call \in [Threads -> Calls] /\ c \in Calls
      /\ pc \in [Threads -> ThreadPC] /\ c.op # "grow"
      /\ out \in [Threads -> Seq(Event)] /\ out[t] \in Seq(Event)
      /\ held \in [Threads -> Tally] /\ held[t].dropped \in Nat
      /\ WorthOf(out[t]) \in Nat /\ Later(t) \in Nat
      /\ \A a \in DOMAIN index : index[a] \in Record
  <2>1. Settled /\ Base /\ disturbed = {} /\ pc[t] # "idle"
    BY SettledParts, HookAlone DEF Faithful, Exact
  <2>2. c.hook = "only" /\ Given(c)
    BY <2>1, GivenCall DEF Careful, Singly
  <2> QED
    BY <2>1, <2>2, OwedNumber DEF Base, ThreadTypeOK, StatTypeOK, MapTypeOK, MapOf, Range, Given
<1>2. /\ Len(out[t]) <= 2 /\ (pc[t] = "put" => Len(out[t]) = 1)
      /\ pc[t] \notin {"put", "enqueue"} => out[t] = <<>>
      /\ WorthOf(<<>>) = 0
  BY OutNone DEF Careful, Outgoing
<1>3. ASSUME held'[t] = held[t], NEW m \in Nat,
             WorthOf(out'[t]) = WorthOf(out[t]) + m,
             IF sampling THEN m = 0 ELSE Later(t) = Later(t)' + m
      PROVE  Goal(m)
  BY <1>1, <1>3 DEF Sent
<1>4. pc[t] # "idle" =>
        Given(c) /\ c.from \in Addresses /\ c.old \in Sizes \cup {0}
  BY <1>1, GivenCall DEF Given, Calls
<1>5. ASSUME NEW e \in Event, e.kind # "dropped" PROVE Worth(e) = 0 /\ WorthOf(<<e>>) = 0
  BY <1>5, OutOne DEF Worth
<1>6. /\ \A n, r : Allocation(n, r).kind = "allocation"
      /\ \A n, r : Deallocation(n, r).kind = "deallocation"
  BY DEF Allocation, Deallocation
<1>7. ASSUME NEW r \in Stacks, NEW sampled, Track(t, r, sampled) PROVE Goal(0)
  <2>1. /\ pc[t] = "frames" /\ c.op = "malloc" /\ held' = held
        /\ out'[t] = <<>> \/ out'[t] = <<Allocation(c.size, r)>>
        /\ call' = call
        /\ pc'[t] \in {"enqueue", "note", "release"}
    BY <1>1, <1>7 DEF Track, Emit, AfterEvents, statVars
  <2>2. Allocation(c.size, r) \in Event /\ out[t] = <<>>
    BY <1>2, <1>4, <2>1, EventTypes DEF Given
  <2>3. WorthOf(out'[t]) = 0
    BY <1>2, <1>5, <1>6, <2>1, <2>2
  <2>4. Later(t) = 0 /\ Later(t)' = 0
    BY <2>1, LaterValues, LaterNext
  <2> QED
    BY <1>2, <1>3, <2>1, <2>2, <2>3, <2>4
<1>8. ASSUME NEW r \in Stacks, NEW sampled, Put(t, r, sampled) PROVE Goal(0)
  <2>1. /\ pc[t] = "put" /\ held' = held /\ c.op = "realloc"
        /\ out' = out \/ out'[t] = Append(out[t], Allocation(c.size, r))
        /\ pc'[t] = "enqueue"
    BY <1>1, <1>8 DEF Put, At, statVars, Where, Fits
  <2>2. Allocation(c.size, r) \in Event /\ Len(out[t]) = 1
    BY <1>2, <1>4, <2>1, EventTypes DEF Given
  <2>3. WorthOf(Append(out[t], Allocation(c.size, r)))
          = WorthOf(out[t]) + Worth(Allocation(c.size, r))
    BY <1>1, <2>2, OutAppend
  <2>4. WorthOf(out'[t]) = WorthOf(out[t]) + 0
    <3>1. Worth(Allocation(c.size, r)) = 0
      BY <1>5, <1>6, <2>2
    <3>2. out'[t] = out[t] \/ out'[t] = Append(out[t], Allocation(c.size, r))
      BY <2>1
    <3>3. WorthOf(out'[t]) = WorthOf(out[t]) \/ WorthOf(out'[t]) = WorthOf(out[t]) + 0
      BY <2>3, <3>1, <3>2
    <3> QED
      BY <1>1, <3>3
  <2>5. Later(t) = 0 /\ Later(t)' = 0
    BY <2>1, LaterValues, LaterNext
  <2> QED
    BY <1>3, <2>1, <2>4, <2>5
<1>9. ASSUME NEW k \in {1, 2}, Later(t) = IF c.from \in DOMAIN index THEN 0 ELSE k,
             Later(t)' = 0, held' = held, out[t] = <<>>,
             c.old \in Sizes \cup {0},
             out'[t] = IF c.from \in DOMAIN index
                         THEN <<Deallocation(c.old, index[c.from])>> ELSE Missing(k)
      PROVE  \E m \in Nat : Goal(m)
  <2>1. CASE c.from \in DOMAIN index
    <3>1. Deallocation(c.old, index[c.from]) \in Event
      BY <1>1, <1>9, <2>1, EventTypes
    <3>2. WorthOf(out'[t]) = WorthOf(out[t]) + 0
      BY <1>2, <1>5, <1>6, <1>9, <2>1, <3>1
    <3>3. Goal(0)
      BY <1>3, <1>9, <2>1, <3>2
    <3> QED
      BY <3>3
  <2>2. CASE c.from \notin DOMAIN index
    <3>1. WorthOf(out'[t]) = IF sampling THEN 0 ELSE k
      BY <1>9, <2>2, MissingLength
    <3>2. CASE sampling
      <4>1. Goal(0)
        BY <1>2, <1>3, <1>9, <3>1, <3>2
      <4> QED
        BY <4>1
    <3>3. CASE ~sampling
      <4>1. Goal(k)
        BY <1>2, <1>3, <1>9, <2>2, <3>1, <3>3
      <4> QED
        BY <4>1
    <3> QED
      BY <3>2, <3>3
  <2> QED
    BY <2>1, <2>2
<1>10. CASE Untrack(t)
  <2>1. /\ pc[t] = "drop" /\ held' = held
        /\ out'[t] = IF c.from \in DOMAIN index THEN <<Deallocation(c.old, index[c.from])>>
                     ELSE Missing(1)
        /\ pc'[t] \in {"enqueue", "note", "release"}
    BY <1>1, <1>10 DEF Untrack, Emit, AfterEvents, statVars
  <2>2. /\ Later(t) = IF c.from \in DOMAIN index THEN 0 ELSE 1
        /\ Later(t)' = 0
    BY <2>1, LaterValues, LaterNext
  <2>3. \E m \in Nat : Goal(m)
    BY <1>2, <1>4, <1>9, <2>1, <2>2
  <2> QED
    BY <2>3
<1>11. CASE Retrack(t)
  <2>1. /\ pc[t] = "frames" /\ c.op = "realloc" /\ held' = held
        /\ out'[t] = IF c.from \in DOMAIN index THEN <<Deallocation(c.old, index[c.from])>>
                     ELSE Missing(2)
        /\ pc'[t] \in {"put", "enqueue", "note", "release"}
    BY <1>1, <1>11 DEF Retrack, Emit, AfterEvents, statVars
  <2>2. /\ Later(t) = IF c.from \in DOMAIN index THEN 0 ELSE 2
        /\ Later(t)' = 0
    BY <2>1, LaterValues, LaterNext
  <2>3. \E m \in Nat : Goal(m)
    BY <1>2, <1>4, <1>9, <2>1, <2>2
  <2> QED
    BY <2>3
<1>12. ASSUME NEW accepted \in BOOLEAN, Enqueue(t, accepted) PROVE Goal(0)
  <2>1. /\ pc[t] = "enqueue" /\ out'[t] = Tail(out[t])
        /\ out[t] # <<>> /\ accepted
        /\ held' = [held EXCEPT ![t] = Plus(held[t], TallyOf(Head(out[t])))]
        /\ pc'[t] \in {"enqueue", "note", "release"}
    BY <1>1, <1>12 DEF Enqueue, Emit, AfterEvents, Where, Fits, Skew
  <2>2. /\ Head(out[t]) \in Event /\ Tail(out[t]) \in Seq(Event)
        /\ WorthOf(out[t]) = Worth(Head(out[t])) + WorthOf(Tail(out[t]))
    BY <1>1, <1>2, <2>1, OutTail
  <2>3. Worth(Head(out[t])) \in Nat /\ WorthOf(Tail(out[t])) \in Nat
        /\ TallyOf(Head(out[t])).dropped = Worth(Head(out[t]))
    BY <2>2, EventEffects, OutNumbers
  <2>4. held'[t].dropped = held[t].dropped + Worth(Head(out[t]))
    BY <1>1, <2>1, <2>3 DEF Plus
  <2>5. Later(t) = 0 /\ Later(t)' = 0
    BY <2>1, LaterValues, LaterNext
  <2>6. Sent(t)' = Sent(t) + 0
    BY <1>1, <2>1, <2>2, <2>3, <2>4 DEF Sent
  <2> QED
    BY <2>5, <2>6
<1>13. CASE Forget(t) \/ Lookup(t) \/ Note(t) \/ Return(t)
  <2>1. UNCHANGED <<index, out, held>>
    BY <1>13 DEF Forget, Lookup, Note, Return, statVars
  <2>2. Sent(t)' = Sent(t) + 0
    BY <1>1, <2>1 DEF Sent
  <2>3. ASSUME Forget(t) \/ Lookup(t) PROVE Goal(0)
    <3>1. /\ call'[t].from = c.from /\ call'[t].op = c.op
          /\ \/ pc[t] = "forget" /\ pc'[t] = "drop"
             \/ pc[t] = "lookup" /\ pc'[t] = "frames" /\ c.op = "realloc"
      BY <1>1, <2>3 DEF Forget, Lookup, At, Calls, Where, Fits
    <3>2. Later(t)' = Later(t)
      BY <2>1, <3>1, LaterValues, LaterNext
    <3> QED
      BY <1>1, <2>2, <3>2
  <2>4. ASSUME Note(t) \/ Return(t) PROVE Goal(0)
    <3>1. pc[t] \in {"note", "release"} /\ pc'[t] = "idle"
      BY <1>1, <2>4 DEF Note, Return, Finish, At
    <3>2. Later(t) = 0 /\ Later(t)' = 0
      BY <3>1, LaterValues, LaterNext
    <3> QED
      BY <2>2, <3>2
  <2>5. Goal(0)
    BY <1>13, <2>3, <2>4
  <2> QED
    BY <2>5
<1> QED
  <2>1. \E m \in Nat : Goal(m)
    BY <1>7, <1>8, <1>10, <1>11, <1>12, <1>13 DEF GoesSingly
  <2> QED
    BY <2>1

\* The block that a call ends is in the index, without sampling, just if it was
\* due: no other call concerns it.
LEMMA CallMatched ==
  ASSUME Faithful, disturbed' = {}, NEW t \in Threads, NEW a \in Addresses,
         IsCalled(t, a), pc'[t] # pc[t]
  PROVE  Matched(call'[t].from) /\ disturbed = {}
<1>1. Settled /\ Base /\ call \in [Threads -> Calls]
  BY SettledParts DEF Faithful
<1>2. PICK p \in ThreadPC, c \in Calls : Called(t, p, c)
  BY <1>1, CallSilent
<1>3. disturbed = {} /\ c.from \in Addresses /\ \A u \in Threads : ~Uses(u, c.from)
  BY <1>1, <1>2, CalledUnused DEF Called, Given
<1>4. call'[t] = c
  BY <1>1, <1>2 DEF Called
<1> QED
  BY <1>3, <1>4 DEF Faithful, Agreed

\* What a call owes for the end of a block that the hooks were not told of is
\* what its beginning has been expected to cost.
LEMMA CallPrice ==
  ASSUME Faithful, Outgoing, disturbed' = {}, NEW t \in Threads, NEW a \in Addresses,
         IsCalled(t, a), ~sampling
  PROVE  \E k \in Nat : /\ strangers' = strangers + k
                        /\ Later(t)' = Later(t) + k
<1> DEFINE Goal(k) == strangers' = strangers + k /\ Later(t)' = Later(t) + k
<1>1. /\ Base /\ pc \in [Threads -> ThreadPC] /\ call \in [Threads -> Calls]
      /\ strangers \in Nat /\ Later(t) \in Nat
      /\ UNCHANGED <<index, out, sampling>>
  BY SettledParts, CallSilent, LaterValues DEF Faithful, Base, StatTypeOK
<1>2. ASSUME NEW k \in {1, 2}, pc[t] = "idle", Expect(a, k),
             call'[t].from = a,
             IF k = 1 THEN pc'[t] = "forget"
             ELSE pc'[t] = "lookup" /\ call'[t].op = "realloc"
      PROVE  \E n \in Nat : Goal(n)
  <2>1. Matched(a)
    BY <1>2, CallMatched
  <2>2. a \in DOMAIN index' <=> a \in due
    BY <1>1, <2>1 DEF Matched
  <2>3. Later(t) = 0 /\ Later(t)' = IF a \in DOMAIN index' THEN 0 ELSE k
    BY <1>2, LaterValues, LaterNext
  <2>4. strangers' = IF a \in due THEN strangers ELSE strangers + k
    BY <1>2 DEF Expect
  <2>5. CASE a \in due
    <3>1. Goal(0)
      BY <1>1, <2>2, <2>3, <2>4, <2>5
    <3> QED
      BY <3>1
  <2>6. CASE a \notin due
    <3>1. Goal(k)
      BY <1>1, <2>2, <2>3, <2>4, <2>6
    <3> QED
      BY <3>1
  <2> QED
    BY <2>5, <2>6
<1>4. ASSUME NEW n \in Sizes, NEW kind \in Live, Malloc(t, a, n, kind) PROVE Goal(0)
  <2>1. /\ strangers' = strangers /\ pc[t] = "idle" /\ pc'[t] = "frames"
        /\ call'[t].op = "malloc"
    BY <1>1, <1>4 DEF Malloc, Begin, At, Ask
  <2>2. Later(t) = 0 /\ Later(t)' = 0
    BY <2>1, LaterValues, LaterNext
  <2> QED
    BY <1>1, <2>1, <2>2
<1>5. ASSUME Free(t, a) \/ ReallocFrees(t, a) \/ \E b \in Addresses : ReallocKeeps(t, a, b)
      PROVE  \E n \in Nat : Goal(n)
  <2>1. /\ pc[t] = "idle" /\ pc'[t] = "forget" /\ call'[t].from = a /\ Expect(a, 1)
    <3>1. CASE Free(t, a)
      BY <1>1, <3>1 DEF Free, Begin, At, Ask
    <3>2. CASE ReallocFrees(t, a)
      BY <1>1, <3>2 DEF ReallocFrees, Begin, At, Ask
    <3>3. ASSUME NEW b \in Addresses, ReallocKeeps(t, a, b)
          PROVE  pc[t] = "idle" /\ pc'[t] = "forget" /\ call'[t].from = a /\ Expect(a, 1)
      BY <1>1, <3>3 DEF ReallocKeeps, Begin, At, Ask
    <3> QED
      BY <1>5, <3>1, <3>2, <3>3
  <2> QED
    BY <1>2, <2>1
<1>6. ASSUME NEW b \in Addresses, NEW n \in Sizes, Realloc(t, a, b, n)
      PROVE  \E k \in Nat : Goal(k)
  <2>1. /\ pc[t] = "idle" /\ pc'[t] = "lookup" /\ call'[t].from = a /\ Expect(a, 2)
        /\ call'[t].op = "realloc"
    BY <1>1, <1>6 DEF Realloc, Begin, At, Ask
  <2> QED
    BY <1>2, <2>1
<1>9. ASSUME NEW b \in Addresses, NEW n \in Sizes, Grow(t, a, b, n) PROVE Goal(0)
  <2>1. /\ strangers' = strangers /\ pc[t] = "idle" /\ pc'[t] = "frames"
        /\ call'[t].op = "grow"
    BY <1>1, <1>9 DEF Grow, Begin, At, Ask
  <2>2. Later(t) = 0 /\ Later(t)' = 0
    BY <2>1, LaterValues, LaterNext
  <2> QED
    BY <1>1, <2>1, <2>2
<1>7. ASSUME FreeUntracked(t, a) \/ \E kind \in Live : MallocUntracked(t, a, kind) PROVE Goal(0)
  <2>1. UNCHANGED <<strangers, pc, call, index>>
    BY <1>7 DEF MallocUntracked, FreeUntracked, threadVars
  <2>2. Later(t)' = Later(t)
    BY <2>1 DEF Later
  <2> QED
    BY <1>1, <2>1, <2>2
<1>8. \E k \in Nat : Goal(k)
  BY <1>4, <1>5, <1>6, <1>7, <1>9 DEF IsCalled
<1> QED
  BY <1>8

\* No call is under way: what is owed is what waits in the buffers.
LEMMA IdleOwes ==
  ASSUME Base, Outgoing, \A t \in Threads : pc[t] = "idle"
  PROVE  \A t \in Threads : Owed(t) = held[t].dropped /\ Sent(t) = held[t].dropped
<1> SUFFICES ASSUME NEW t \in Threads
             PROVE  Owed(t) = held[t].dropped /\ Sent(t) = held[t].dropped
  OBVIOUS
<1>1. WorthOf(out[t]) = 0 /\ Later(t) = 0 /\ held[t].dropped \in Nat
  BY NothingOutgoing, LaterValues, OwedNumber
<1> QED
  BY <1>1 DEF Owed, Sent

LEMMA SamplingSame == Base /\ [Next]_vars => sampling' = sampling
<1> SUFFICES ASSUME Base, [Next]_vars PROVE sampling' = sampling
  OBVIOUS
<1>1. ASSUME NEW t \in Threads, NEW a \in Addresses, IsCalled(t, a) PROVE sampling' = sampling
  BY <1>1, CallSilent
<1>2. ASSUME NEW t \in Threads, GoesOn(t) PROVE sampling' = sampling
  BY <1>2 DEF GoesOn, Track, Put, Forget, Untrack, Lookup, Retrack, Enqueue, Note, NoteInner,
              Return, ReturnInner
<1>3. CASE Worked \/ ResetDrain \/ ResetStats \/ ResetIndex \/ ClearAllocations \/ UNCHANGED vars
  BY <1>3, WorkFrame
<1> QED
  BY <1>1, <1>2, <1>3, StepCases

\* The dropped events still to come, and those that have arrived.
ReckonedSampled ==
  droppedEvents = 0 /\ batch.dropped = 0 /\ \A t \in Threads : Sent(t) = 0

ReckonedExact ==
  /\ strangers - OwedInAll - batch.dropped \in Nat
  /\ droppedEvents = Saturated(strangers - OwedInAll - batch.dropped)

\* A step that moves k dropped events from one place to another, or makes new
\* ones of what is expected.
LEMMA ReckonedMoves ==
  ASSUME NEW x \in Nat, NEW o \in Nat, NEW b \in Nat, NEW k \in Nat,
         x - o - b \in Nat
  PROVE  /\ (x + k) - (o + k) - b = x - o - b
         /\ x - (o - k) - (b + k) = x - o - b
         /\ x - o - 0 = (x - o - b) + b
OBVIOUS

LEMMA ReckonedStep == Faithful /\ Careful /\ Reckoned /\ [Next]_vars => Reckoned'
<1> SUFFICES ASSUME Faithful, Careful, Reckoned, [Next]_vars, Exact', resetPC' # "stats"
             PROVE  IF sampling THEN ReckonedSampled' ELSE ReckonedExact'
  BY SamplingSame, SettledParts DEF Reckoned, ReckonedSampled, ReckonedExact, Faithful
<1>1. /\ Settled /\ Base /\ Base' /\ Outgoing /\ sampling' = sampling
      /\ strangers \in Nat /\ droppedEvents \in Nat /\ droppedEvents <= MaxDropped
      /\ OwedInAll \in Nat /\ batch.dropped \in Nat
      /\ disturbed' = {} /\ skewed' = {}
  <2>1. Base
    BY SettledParts DEF Faithful
  <2>2. droppedEvents \in Nat /\ droppedEvents <= MaxDropped
    BY <2>1, TrackingAssumption DEF Base, StatTypeOK
  <2> QED
    BY <2>1, <2>2, BaseStep, SamplingSame, OwedInAllNumber
    DEF Faithful, Careful, Base, StatTypeOK, Tally, Exact
<1>2. Exact /\ resetPC # "stats" => IF sampling THEN ReckonedSampled ELSE ReckonedExact
  BY DEF Reckoned, ReckonedSampled, ReckonedExact
<1>3. \A t \in Threads :
        /\ WorthOf(out[t]) \in Nat /\ held[t].dropped \in Nat /\ Later(t) \in Nat
        /\ Sent(t) \in Nat /\ Owed(t) \in Nat
  BY <1>1, OwedNumber
<1> DEFINE Goal == IF sampling THEN ReckonedSampled' ELSE ReckonedExact'
\* Nothing has moved.
<1>5. ASSUME Exact, resetPC # "stats", UNCHANGED <<droppedEvents, batch, strangers>>,
             \A t \in Threads : Sent(t)' = Sent(t) /\ Owed(t)' = Owed(t)
      PROVE  Goal
  <2>1. OwedInAll' = OwedInAll
    BY <1>5, OwedSame
  <2> QED
    BY <1>2, <1>5, <2>1 DEF ReckonedSampled, ReckonedExact
<1>6. ASSUME NEW t \in Threads, NEW a \in Addresses, IsCalled(t, a) PROVE Goal
  <2>1. /\ UNCHANGED <<droppedEvents, batch, held, out, index, resetPC>> /\ Exact
        /\ \A u \in Threads : u # t => pc'[u] = pc[u] /\ call'[u] = call[u]
    BY <1>1, <1>6, CallSilent DEF Called, Unheard, Base, ThreadTypeOK, Exact
  <2>2. \A u \in Threads : Sent(u)' = Sent(u)
    BY <2>1 DEF Sent
  <2>3. CASE sampling
    BY <1>2, <2>1, <2>2, <2>3 DEF ReckonedSampled
  <2>4. CASE ~sampling
    <3>1. PICK k \in Nat : strangers' = strangers + k /\ Later(t)' = Later(t) + k
      BY <1>1, <1>6, <2>4, CallPrice
    <3>2. \A u \in Threads : u # t => Owed(u)' = Owed(u)
      BY <2>1, <2>2 DEF Owed, Later
    <3>3. Owed(t)' = Owed(t) + k
      BY <1>3, <2>2, <3>1 DEF Owed
    <3>4. OwedInAll' = OwedInAll - Owed(t) + Owed(t)'
      BY <1>1, <3>2, OwedChanged
    <3>5. OwedInAll' = OwedInAll + k
      BY <1>1, <1>3, <3>3, <3>4
    <3>6. strangers - OwedInAll - batch.dropped \in Nat
          /\ droppedEvents = Saturated(strangers - OwedInAll - batch.dropped)
      BY <1>2, <2>1, <2>4 DEF ReckonedExact
    <3>7. strangers' - OwedInAll' - batch'.dropped = strangers - OwedInAll - batch.dropped
      BY <1>1, <2>1, <3>1, <3>5, <3>6, ReckonedMoves
    <3>8. ReckonedExact'
      BY <2>1, <3>6, <3>7 DEF ReckonedExact
    <3> QED
      BY <2>4, <3>8
  <2> QED
    BY <2>3, <2>4
<1>7. ASSUME NEW t \in Threads, GoesOn(t) PROVE Goal
  <2>1. Exact /\ disturbed = {} /\ resetPC = "idle" /\ GoesSingly(t)
    BY <1>7, HookQuiet
  <2>2. /\ UNCHANGED <<strangers, droppedEvents, batch>>
        /\ \A u \in Threads : u # t =>
             /\ pc'[u] = pc[u] /\ call'[u] = call[u] /\ out'[u] = out[u] /\ held'[u] = held[u]
             /\ pc[u] # "idle" => Kept(call[u].from)
    BY <1>1, <2>1, HookAlone
  <2>3. PICK m \in Nat :
          /\ Sent(t)' = Sent(t) + m
          /\ IF sampling THEN m = 0 ELSE Later(t) = Later(t)' + m
    BY <1>1, <2>1, HookWorth
  <2>4. \A u \in Threads : u # t => Sent(u)' = Sent(u) /\ Owed(u)' = Owed(u)
    <3>1. ASSUME NEW u \in Threads, u # t PROVE Later(u)' = Later(u)
      BY <2>2, <3>1 DEF Later, Kept
    <3> QED
      BY <2>2, <3>1 DEF Owed, Sent
  <2>5. CASE sampling
    <3>1. \A u \in Threads : Sent(u)' = Sent(u)
      BY <1>3, <2>3, <2>4, <2>5
    <3> QED
      BY <1>2, <2>1, <2>2, <2>5, <3>1 DEF ReckonedSampled
  <2>6. CASE ~sampling
    <3>1. Owed(t)' = Owed(t)
      <4>1. Later(t)' \in Nat
        BY DEF Later
      <4> QED
        BY <1>3, <2>3, <2>6, <4>1 DEF Owed
    <3>2. OwedInAll' = OwedInAll
      BY <2>4, <3>1, OwedSame
    <3> QED
      BY <1>2, <2>1, <2>2, <2>6, <3>2 DEF ReckonedExact
  <2> QED
    BY <2>5, <2>6
<1>8. CASE Worked
  <2>1. Exact /\ UNCHANGED <<index, resetPC, strangers, pc, call, out>>
    BY <1>1, <1>8, WorkerShapes, WorkFrame
  <2>2. IF sampling THEN ReckonedSampled ELSE ReckonedExact
    BY <1>2, <2>1
  <2>3. CASE /\ droppedEvents' = Saturated(droppedEvents + batch.dropped)
             /\ batch' = Nothing /\ held' = held
    <3>1. \A t \in Threads : Sent(t)' = Sent(t) /\ Owed(t)' = Owed(t)
      BY <2>1, <2>3 DEF Sent, Owed, Later
    <3>2. OwedInAll' = OwedInAll
      BY <3>1, OwedSame
    <3>3. batch'.dropped = 0
      BY <2>3, NothingTally
    <3>4. CASE sampling
      <4>1. ReckonedSampled /\ Saturated(0) = 0 /\ 0 + 0 = 0
        BY <2>2, <3>4, SaturatedSum, TrackingAssumption
      <4> QED
        BY <2>3, <3>1, <3>3, <3>4, <4>1 DEF ReckonedSampled
    <3>5. CASE ~sampling
      <4>1. /\ strangers - OwedInAll - batch.dropped \in Nat
            /\ droppedEvents = Saturated(strangers - OwedInAll - batch.dropped)
        BY <2>2, <3>5 DEF ReckonedExact
      <4>2. strangers' - OwedInAll' - batch'.dropped
              = (strangers - OwedInAll - batch.dropped) + batch.dropped
        BY <1>1, <2>1, <3>2, <3>3, <4>1, ReckonedMoves
      <4>3. droppedEvents' = Saturated((strangers - OwedInAll - batch.dropped) + batch.dropped)
        BY <1>1, <2>3, <4>1, SaturatedSum
      <4>4. (strangers - OwedInAll - batch.dropped) + batch.dropped \in Nat
        BY <1>1, <4>1
      <4>5. ReckonedExact'
        BY <4>2, <4>3, <4>4 DEF ReckonedExact
      <4> QED
        BY <3>5, <4>5
    <3> QED
      BY <3>4, <3>5
  <2>4. ASSUME NEW t \in Threads, droppedEvents' = droppedEvents,
               batch' = Plus(batch, held[t]),
               held'[t] = Nothing, \A u \in Threads : u # t => held'[u] = held[u]
        PROVE  Goal
    <3>1. batch'.dropped = batch.dropped + held[t].dropped
      BY <2>4 DEF Plus
    <3>2. \A u \in Threads : u # t => Sent(u)' = Sent(u) /\ Owed(u)' = Owed(u)
      BY <2>1, <2>4 DEF Sent, Owed, Later
    <3>3. /\ Sent(t) = held[t].dropped + WorthOf(out[t]) /\ Owed(t) = Sent(t) + Later(t)
          /\ Sent(t)' = WorthOf(out[t]) /\ Owed(t)' = Sent(t)' + Later(t)
      <4>1. Later(t)' = Later(t)
        BY <2>1 DEF Later
      <4>2. Sent(t)' = 0 + WorthOf(out[t])
        BY <2>1, <2>4, NothingTally DEF Sent
      <4> QED
        BY <1>3, <4>1, <4>2 DEF Sent, Owed
    <3>4. CASE sampling
      <4>1. ReckonedSampled /\ Sent(t) = 0
        BY <2>2, <3>4 DEF ReckonedSampled
      <4>2. held[t].dropped = 0 /\ Sent(t)' = 0
        BY <1>3, <3>3, <4>1
      <4>3. batch'.dropped = 0 /\ \A u \in Threads : Sent(u)' = 0
        BY <3>1, <3>2, <4>1, <4>2 DEF ReckonedSampled
      <4> QED
        BY <2>4, <3>4, <4>1, <4>3 DEF ReckonedSampled
    <3>5. CASE ~sampling
      <4>1. OwedInAll' = OwedInAll - Owed(t) + Owed(t)'
        BY <1>1, <3>2, OwedChanged
      <4>2. OwedInAll' = OwedInAll - held[t].dropped
        BY <1>1, <1>3, <3>3, <4>1
      <4>3. /\ strangers - OwedInAll - batch.dropped \in Nat
            /\ droppedEvents = Saturated(strangers - OwedInAll - batch.dropped)
        BY <2>2, <3>5 DEF ReckonedExact
      <4>4. strangers' - OwedInAll' - batch'.dropped = strangers - OwedInAll - batch.dropped
        BY <1>1, <1>3, <2>1, <3>1, <4>2, <4>3, ReckonedMoves
      <4>5. ReckonedExact'
        BY <2>4, <4>3, <4>4 DEF ReckonedExact
      <4> QED
        BY <3>5, <4>5
    <3> QED
      BY <3>4, <3>5
  <2> QED
    BY <1>1, <1>8, <2>3, <2>4, WorkerShapes
<1>9. CASE ResetDrain
  BY <1>9 DEF ResetDrain, ResetAt
<1>10. CASE ResetStats
  <2>1. /\ strangers' = 0 /\ droppedEvents' = 0 /\ batch' = Nothing /\ out' = out /\ pc' = pc
        /\ \A t \in Threads : held'[t] = Nothing /\ out[t] = <<>> /\ pc[t] = "idle"
    BY <1>1, <1>10, StatsCleared
  <2>2. \A t \in Threads : Later(t)' = 0
    BY <2>1, LaterNext
  <2>3. \A t \in Threads : Sent(t)' = 0 /\ Owed(t)' = 0
    BY <2>1, <2>2, OutNone, NothingTally DEF Sent, Owed
  <2>4. OwedInAll' = 0
    <3>1. PICK f : f = [t \in Threads |-> Owed(t)']
      OBVIOUS
    <3>2. \A t \in Threads : f[t] = 0
      BY <2>3, <3>1
    <3>3. SumFunctionOnSet(f, Threads) = 0
      BY <3>2, TrackingAssumption, SumZero
    <3> QED
      BY <3>1, <3>3 DEF OwedInAll
  <2>5. Saturated(0) = 0 /\ batch'.dropped = 0
    BY <2>1, SaturatedSum, TrackingAssumption, NothingTally
  <2>6. strangers' - OwedInAll' - batch'.dropped = 0
    BY <2>1, <2>4, <2>5
  <2> QED
    BY <2>1, <2>3, <2>5, <2>6 DEF ReckonedSampled, ReckonedExact
<1>11. CASE ResetIndex \/ ClearAllocations
  <2>1. /\ Exact /\ resetPC # "stats" /\ UNCHANGED <<droppedEvents, batch, held, strangers>>
        /\ UNCHANGED <<pc, call, out>> /\ \A t \in Threads : pc[t] = "idle"
    BY <1>1, <1>11, ClearFrame
    DEF ResetIndex, ClearAllocations, ResetAt, statVars, Exact, ResetStats
  <2>2. \A t \in Threads : Later(t) = 0 /\ Later(t)' = 0
    BY <2>1, LaterValues, LaterNext
  <2>3. \A t \in Threads : Sent(t)' = Sent(t) /\ Owed(t)' = Owed(t)
    BY <2>1, <2>2 DEF Sent, Owed
  <2> QED
    BY <1>5, <2>1, <2>3
<1>12. CASE UNCHANGED vars
  <2>1. /\ UNCHANGED <<pc, call, out, index, strangers, droppedEvents, batch, held, resetPC>>
        /\ Exact
    BY <1>12 DEF vars, statVars, threadVars, history, Exact
  <2>2. \A t \in Threads : Sent(t)' = Sent(t) /\ Owed(t)' = Owed(t)
    BY <2>1 DEF Sent, Owed, Later
  <2> QED
    BY <1>5, <2>1, <2>2
<1> QED
  BY <1>6, <1>7, <1>8, <1>9, <1>10, <1>11, <1>12, StepCases

LEMMA InitReckoned == Init => Reckoned
<1> SUFFICES ASSUME Init PROVE Reckoned
  OBVIOUS
<1>1. /\ Base /\ Outgoing /\ (\A t \in Threads : pc[t] = "idle" /\ held[t] = Nothing)
      /\ droppedEvents = 0 /\ strangers = 0 /\ batch = Nothing
  BY InitBase, InitBalanced DEF Init, Careful
<1>2. \A t \in Threads : Owed(t) = 0 /\ Sent(t) = 0
  BY <1>1, IdleOwes, NothingTally
<1>3. OwedInAll = 0
  <2> DEFINE f == [t \in Threads |-> Owed(t)]
  <2>1. \A t \in Threads : f[t] = 0
    BY <1>2
  <2> HIDE DEF f
  <2>2. SumFunctionOnSet(f, Threads) = 0
    BY <2>1, TrackingAssumption, SumZero
  <2> QED
    BY <2>2 DEF OwedInAll, f
<1>4. Saturated(0) = 0 /\ batch.dropped = 0
  BY <1>1, SaturatedSum, TrackingAssumption, NothingTally
<1>5. strangers - OwedInAll - batch.dropped = 0
  BY <1>1, <1>3, <1>4
<1> QED
  BY <1>1, <1>2, <1>4, <1>5 DEF Reckoned

\* Under the same conditions dropped_events, with those that wait in buffers and
\* in the worker's batch, is the number of ends the tracer is told of without a
\* beginning, a reallocation counted twice, up to where the counter saturates;
\* with sampling it is 0.  While calls are under way the difference is what they
\* have found missing or will find, which no other call can change.
THEOREM TrackingDropsAreStrangers == Spec => []DropsAreStrangers
<1>1. Faithful /\ Careful /\ Reckoned => DropsAreStrangers
  <2> SUFFICES ASSUME Faithful, Careful, Reckoned, Quiet, Exact
               PROVE  Saturated(droppedEvents + DropsUnderway)
                        = IF sampling THEN 0 ELSE Saturated(strangers)
    BY DEF DropsAreStrangers, Exact
  <2> DEFINE g == [t \in Threads |-> held[t].dropped]
  <2>1. Base /\ strangers \in Nat /\ batch.dropped \in Nat /\ resetPC # "stats"
    BY SettledParts DEF Faithful, Base, StatTypeOK, Tally, Quiet
  <2>2. \A t \in Threads : Owed(t) = held[t].dropped /\ Sent(t) = held[t].dropped
    BY <2>1, IdleOwes DEF Quiet, Careful
  <2>3. [t \in Threads |-> Owed(t)] = g
    BY <2>2
  <2>4. DropsUnderway = batch.dropped + OwedInAll
    BY <2>3 DEF DropsUnderway, OwedInAll, SumFunction
  <2>5. OwedInAll \in Nat
    BY <2>1, OwedInAllNumber
  <2>6. CASE sampling
    <3>1. droppedEvents = 0 /\ batch.dropped = 0 /\ \A t \in Threads : g[t] = 0
      BY <2>1, <2>2, <2>6 DEF Reckoned
    <3> HIDE DEF g
    <3>2. SumFunctionOnSet(g, Threads) = 0
      BY <3>1, TrackingAssumption, SumZero
    <3>3. OwedInAll = 0
      BY <2>3, <3>2 DEF OwedInAll
    <3>4. droppedEvents + DropsUnderway = 0
      BY <2>4, <3>1, <3>3
    <3> QED
      BY <2>6, <3>4, SaturatedSum, TrackingAssumption
  <2>7. CASE ~sampling
    <3>1. PICK x, o, b, d : x = strangers /\ o = OwedInAll /\ b = batch.dropped /\ d = droppedEvents
      OBVIOUS
    <3>2. /\ x \in Nat /\ o \in Nat /\ b \in Nat
          /\ x - o - b \in Nat /\ d = Saturated(x - o - b)
      BY <2>1, <2>5, <2>7, <3>1 DEF Reckoned
    <3>3. Saturated((x - o - b) + (b + o)) = Saturated(Saturated(x - o - b) + (b + o))
      <4>1. b + o \in Nat
        BY <3>2
      <4> QED
        BY <3>2, <4>1, SaturatedSum
    <3>4. (x - o - b) + (b + o) = x
      BY <3>2
    <3> QED
      BY <2>4, <2>7, <3>1, <3>2, <3>3, <3>4
  <2> QED
    BY <2>6, <2>7
<1> QED
  BY <1>1, InitFaithful, InitBalanced, InitReckoned, FaithfulStep, CarefulStep, ReckonedStep,
     PTL DEF Spec
=============================================================================
