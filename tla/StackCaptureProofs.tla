-------------------------- MODULE StackCaptureProofs --------------------------
(****************************************************************************)
(* Proofs about StackCapture.                                               *)
(*                                                                          *)
(* Attribution, StableId and DeliveredIfFresh speak of what has been        *)
(* returned; the invariant that carries them speaks of every copy of an id  *)
(* on its way there: the table, the caches, and the calls under way.        *)
(****************************************************************************)
EXTENDS StackCapture, TLAPS

\* Id i is right for stack f in tracer r, or excused.
Good(r, f, i) == i \in rebound[r] \cup {MaxId} \/ byId[r][i] = f

\* Id i is the table's own for stack f in tracer r, or excused.
Settled(r, f, i) == f \in moved[r] \/ byFrames[r][f] = i

\* A thread inside a call works for a tracer that exists.
CallInv ==
  \A t \in Threads :
    /\ pc[t] # "idle" => call[t].tracer \in alive
    /\ pc[t] \in {"intern", "remember"} => call[t].frames \in Stacks
    /\ pc[t] = "remember" => call[t].id \in Ids

\* A tracer made where none had been is the only one that was ever there.
PlaceInv ==
  /\ alive \subseteq {r \in Tracers : home[r] # None}
  /\ \A r \in alive \ reborn, q \in Tracers : q # r => home[q] # home[r]

\* Nothing is remembered of a place where no tracer has been.
UnusedInv ==
  \A p \in Places :
    (\A r \in Tracers : home[r] # p) =>
      \A t \in Threads :
        local[t][p] = None /\ \A f \in Stacks : cache[t][p][f] = 0

\* The two maps agree, and ids in use lie below next_id.
TableInv ==
  \A r \in Tracers :
    /\ \A f \in Stacks : byFrames[r][f] # 0 => Good(r, f, byFrames[r][f])
    /\ \A i \in Ids : byId[r][i] # None => i < nextId[r] \/ i = MaxId

\* What is remembered of a tracer made where none had been is its own.
CacheInv ==
  \A r \in alive \ reborn, t \in Threads :
    /\ local[t][home[r]] \in {None, r}
    /\ \A f \in Stacks :
         cache[t][home[r]][f] # 0 =>
           Good(r, f, cache[t][home[r]][f]) /\ Settled(r, f, cache[t][home[r]][f])

\* An id on its way from the table to the cache is right.
TransitInv ==
  \A t \in Threads :
    pc[t] = "remember" =>
      /\ Good(call[t].tracer, call[t].frames, call[t].id)
      /\ Settled(call[t].tracer, call[t].frames, call[t].id)

\* So is every id that has been returned.
ReturnedInv ==
  \A c \in captured :
    c.tracer \notin reborn =>
      Good(c.tracer, c.frames, c.id) /\ Settled(c.tracer, c.frames, c.id)

IInv ==
  /\ TypeOK
  /\ CallInv
  /\ PlaceInv
  /\ UnusedInv
  /\ TableInv
  /\ CacheInv
  /\ TransitInv
  /\ ReturnedInv
  /\ DeliveredIfFresh

USE CaptureAssumption DEF Ids

-----------------------------------------------------------------------------
(* Facts about the operators.                                               *)

\* The next id is an id.
LEMMA SaturatedRange == ASSUME NEW n \in Nat \ {0} PROVE Saturated(n) \in Ids
  BY DEF Saturated

\* Making room only ever forgets.
LEMMA RoomForgets ==
  ASSUME NEW ids \in [Stacks -> 0..MaxId]
  PROVE  /\ Room(ids) \in [Stacks -> 0..MaxId]
         /\ \A f \in Stacks : Room(ids)[f] \in {0, ids[f]}
  BY DEF Room

\* A program starts with empty tables and memories.
LEMMA InitIInv == ASSUME Init PROVE IInv
  BY DEF Init, IInv, TypeOK, CallInv, PlaceInv, UnusedInv, TableInv, CacheInv,
     TransitInv, ReturnedInv, DeliveredIfFresh, Resting, Only, Calls, ThreadPC,
     Good, Settled

-----------------------------------------------------------------------------
(* Every action preserves the invariant.                                    *)

\* A new tracer finds nothing remembered at a place that is new, too.
LEMMA CreateStep ==
  ASSUME IInv, NEW r \in Tracers, NEW p \in Places, Create(r, p)
  PROVE  IInv'
<1> USE DEF IInv, Create, history, table
<1>1. TypeOK'
  BY DEF TypeOK, ThreadPC, Calls
<1>2. CallInv'
  BY DEF TypeOK, CallInv, Calls
<1>3. PlaceInv'
  BY DEF TypeOK, PlaceInv
<1>a. home' = [home EXCEPT ![r] = p] /\ home[r] = None
  OBVIOUS
<1>4. UnusedInv'
  <2> SUFFICES ASSUME NEW o \in Places, \A q \in Tracers : home'[q] # o
               PROVE  \A t \in Threads :
                        local[t][o] = None /\ \A f \in Stacks : cache[t][o][f] = 0
    BY DEF UnusedInv
  <2>1. \A q \in Tracers : home[q] # o
    BY <1>a DEF TypeOK
  <2> QED
    BY <2>1 DEF UnusedInv
<1>5. TableInv'
  BY DEF TypeOK, TableInv, Good
<1>6. CacheInv'
  <2> SUFFICES ASSUME NEW q \in (alive \ reborn)', NEW t \in Threads
               PROVE  /\ local[t][home'[q]] \in {None, q}
                      /\ \A f \in Stacks :
                           cache[t][home'[q]][f] # 0 =>
                             /\ Good(q, f, cache[t][home'[q]][f])
                             /\ Settled(q, f, cache[t][home'[q]][f])
    BY DEF CacheInv, Good, Settled
  <2>1. CASE q = r
    <3>1. \A o \in Tracers : home[o] # p
      BY <2>1
    <3>2. local[t][p] = None /\ \A f \in Stacks : cache[t][p][f] = 0
      BY <3>1 DEF UnusedInv
    <3> QED
      BY <2>1, <3>2 DEF TypeOK
  <2>2. CASE q # r
    <3>1. q \in alive \ reborn /\ home'[q] = home[q]
      BY <2>2 DEF TypeOK
    <3> QED
      BY <3>1 DEF CacheInv
  <2> QED
    BY <2>1, <2>2
<1>7. TransitInv'
  BY DEF TypeOK, TransitInv, Good, Settled
<1>8. ReturnedInv'
  BY DEF TypeOK, ReturnedInv, Good, Settled
<1>9. DeliveredIfFresh'
  BY DEF TypeOK, DeliveredIfFresh
<1> QED
  BY <1>1, <1>2, <1>3, <1>4, <1>5, <1>6, <1>7, <1>8, <1>9 DEF IInv

\* The table that goes was of no other tracer.
LEMMA FreeStep ==
  ASSUME IInv, NEW r \in Tracers, Free(r)
  PROVE  IInv'
<1> USE DEF IInv, Free, At, Only, Resting, history, table
<1>1. TypeOK'
  BY DEF TypeOK, ThreadPC, Calls, Captured
<1>2. CallInv'
  BY DEF TypeOK, CallInv, Calls
<1>3. PlaceInv'
  BY DEF TypeOK, PlaceInv
<1>4. UnusedInv'
  BY DEF UnusedInv
<1>5. TableInv'
  BY DEF TypeOK, TableInv, Good, CallInv
<1>6. CacheInv'
  BY DEF TypeOK, CacheInv, Good, Settled, CallInv, PlaceInv, UnusedInv, TableInv, TransitInv
<1>7. TransitInv'
  BY DEF TypeOK, TransitInv, Good, Settled, CallInv, TableInv
<1>8. ReturnedInv'
  BY DEF TypeOK, ReturnedInv, Good, Settled, TableInv, CacheInv, TransitInv, Captured
<1>9. DeliveredIfFresh'
  BY DEF TypeOK, DeliveredIfFresh, CacheInv, CallInv, PlaceInv
<1> QED
  BY <1>1, <1>2, <1>3, <1>4, <1>5, <1>6, <1>7, <1>8, <1>9 DEF IInv

\* An id given by hand takes nothing from others but what rebound and moved say.
LEMMA InsertWithIdStep ==
  ASSUME IInv, NEW r \in Tracers, NEW i \in Ids, NEW f \in Stacks, InsertWithId(r, i, f)
  PROVE  IInv'
<1> USE DEF IInv, InsertWithId, history, table
<1>a. \A q \in Tracers, g \in Stacks :
        byFrames'[q][g] = IF q = r /\ g = f THEN i ELSE byFrames[q][g]
  BY DEF TypeOK
<1>b. \A q \in Tracers, j \in Ids :
        byId'[q][j] = IF q = r /\ j = i THEN f ELSE byId[q][j]
  BY DEF TypeOK
<1>c. /\ nextId' \in [Tracers -> Ids]
      /\ \A q \in Tracers : nextId[q] <= nextId'[q]
      /\ i < nextId'[r] \/ i = MaxId
  BY DEF TypeOK, Saturated
<1>d. /\ rebound' \in [Tracers -> SUBSET Ids]
      /\ \A q \in Tracers : rebound[q] \subseteq rebound'[q]
      /\ byId[r][i] \notin {None, f} => i \in rebound'[r]
  BY DEF TypeOK
<1>e. /\ moved' \in [Tracers -> SUBSET Stacks]
      /\ \A q \in Tracers : moved[q] \subseteq moved'[q]
      /\ byFrames[r][f] \notin {0, i} => f \in moved'[r]
  BY DEF TypeOK
<1>f. \A q \in Tracers, g \in Stacks, j \in Ids : Good(q, g, j) => Good(q, g, j)'
  BY <1>b, <1>d DEF Good
<1>g. \A q \in Tracers, g \in Stacks, j \in Ids : Settled(q, g, j) => Settled(q, g, j)'
  BY <1>a, <1>e DEF Settled
<1>1. TypeOK'
  <2>1. byFrames' \in [Tracers -> [Stacks -> 0..MaxId]]
    BY DEF TypeOK
  <2>2. byId' \in [Tracers -> [Ids -> Stacks \cup {None}]]
    BY DEF TypeOK
  <2> QED
    BY <2>1, <2>2, <1>c, <1>d, <1>e DEF TypeOK
<1>2. CallInv'
  BY DEF CallInv
<1>3. PlaceInv'
  BY DEF PlaceInv
<1>4. UnusedInv'
  BY DEF UnusedInv
<1>5. TableInv'
  <2> SUFFICES ASSUME NEW q \in Tracers
               PROVE  /\ \A g \in Stacks :
                           byFrames'[q][g] # 0 => Good(q, g, byFrames[q][g])'
                      /\ \A j \in Ids :
                           byId'[q][j] # None => j < nextId'[q] \/ j = MaxId
    BY DEF TableInv
  <2>1. ASSUME NEW g \in Stacks, byFrames'[q][g] # 0
        PROVE  Good(q, g, byFrames[q][g])'
    <3>1. CASE q = r /\ g = f
      BY <1>a, <1>b, <3>1 DEF Good
    <3>2. CASE ~(q = r /\ g = f)
      <4>1. byFrames'[q][g] = byFrames[q][g] /\ byFrames[q][g] \in Ids
        BY <1>a, <2>1, <3>2 DEF TypeOK
      <4>2. Good(q, g, byFrames[q][g])
        BY <2>1, <4>1 DEF TableInv
      <4> QED
        BY <1>b, <1>d, <4>1, <4>2 DEF Good
    <3> QED
      BY <3>1, <3>2
  <2>2. ASSUME NEW j \in Ids, byId'[q][j] # None
        PROVE  j < nextId'[q] \/ j = MaxId
    <3>1. CASE q = r /\ j = i
      BY <1>c, <3>1
    <3>2. CASE ~(q = r /\ j = i)
      <4>1. j < nextId[q] \/ j = MaxId
        BY <1>b, <2>2, <3>2 DEF TableInv
      <4> QED
        BY <1>c, <4>1 DEF TypeOK
    <3> QED
      BY <3>1, <3>2
  <2> QED
    BY <2>1, <2>2
<1>6. CacheInv'
  <2> SUFFICES ASSUME NEW q \in alive \ reborn, NEW t \in Threads
               PROVE  /\ local[t][home[q]] \in {None, q}
                      /\ \A g \in Stacks :
                           cache[t][home[q]][g] # 0 =>
                             /\ Good(q, g, cache[t][home[q]][g])'
                             /\ Settled(q, g, cache[t][home[q]][g])'
    BY DEF CacheInv
  <2>1. local[t][home[q]] \in {None, q}
    BY DEF CacheInv
  <2>2. ASSUME NEW g \in Stacks, cache[t][home[q]][g] # 0
        PROVE  /\ Good(q, g, cache[t][home[q]][g])'
               /\ Settled(q, g, cache[t][home[q]][g])'
    <3>1. cache[t][home[q]][g] \in Ids /\ q \in Tracers
      BY <2>2 DEF TypeOK, PlaceInv
    <3>2. Good(q, g, cache[t][home[q]][g]) /\ Settled(q, g, cache[t][home[q]][g])
      BY <2>2 DEF CacheInv
    <3> QED
      BY <1>b, <1>d, <1>a, <1>e, <3>1, <3>2 DEF Good, Settled
  <2> QED
    BY <2>1, <2>2
<1>7. TransitInv'
  <2> SUFFICES ASSUME NEW t \in Threads, pc[t] = "remember"
               PROVE  /\ Good(call[t].tracer, call[t].frames, call[t].id)'
                      /\ Settled(call[t].tracer, call[t].frames, call[t].id)'
    BY DEF TransitInv
  <2>1. call[t].tracer \in Tracers /\ call[t].frames \in Stacks /\ call[t].id \in Ids
    BY DEF CallInv, TypeOK
  <2>2. /\ Good(call[t].tracer, call[t].frames, call[t].id)
        /\ Settled(call[t].tracer, call[t].frames, call[t].id)
    BY DEF TransitInv
  <2> QED
    BY <1>b, <1>d, <1>a, <1>e, <2>1, <2>2 DEF Good, Settled
<1>8. ReturnedInv'
  <2> SUFFICES ASSUME NEW c \in captured, c.tracer \notin reborn
               PROVE  /\ Good(c.tracer, c.frames, c.id)'
                      /\ Settled(c.tracer, c.frames, c.id)'
    BY DEF ReturnedInv
  <2>1. c.tracer \in Tracers /\ c.frames \in Stacks /\ c.id \in Ids
    BY DEF TypeOK
  <2>2. Good(c.tracer, c.frames, c.id) /\ Settled(c.tracer, c.frames, c.id)
    BY DEF ReturnedInv
  <2> QED
    BY <1>f, <1>g, <2>1, <2>2
<1>9. DeliveredIfFresh'
  BY DEF DeliveredIfFresh
<1> QED
  BY <1>1, <1>2, <1>3, <1>4, <1>5, <1>6, <1>7, <1>8, <1>9 DEF IInv

\* The cache returns what it was given.
LEMMA HitStep ==
  ASSUME IInv, NEW t \in Threads, NEW r \in Tracers, NEW f \in Stacks, Hit(t, r, f)
  PROVE  IInv'
<1> USE DEF IInv, Hit, At, Only, Resting, history, table
<1>a. cache[t][home[r]][f] \in Ids
  BY DEF TypeOK, PlaceInv
<1>1. TypeOK'
  <2>1. captured' \subseteq [tracer : Tracers, frames : Stacks, id : Ids]
    BY <1>a DEF TypeOK, Captured
  <2> QED
    BY <2>1 DEF TypeOK, ThreadPC, Calls
<1>2. CallInv'
  BY DEF TypeOK, CallInv, Calls
<1>3. PlaceInv'
  BY DEF TypeOK, PlaceInv
<1>4. UnusedInv'
  BY DEF UnusedInv
<1>5. TableInv'
  BY DEF TypeOK, TableInv, Good, CallInv
<1>6. CacheInv'
  BY DEF TypeOK, CacheInv, Good, Settled, CallInv, PlaceInv, UnusedInv, TableInv, TransitInv
<1>7. TransitInv'
  BY DEF TypeOK, TransitInv, Good, Settled, CallInv, TableInv
<1>8. ReturnedInv'
  BY DEF TypeOK, ReturnedInv, Good, Settled, TableInv, CacheInv, TransitInv, Captured
<1>9. DeliveredIfFresh'
  BY DEF TypeOK, DeliveredIfFresh, CacheInv, CallInv, PlaceInv
<1> QED
  BY <1>1, <1>2, <1>3, <1>4, <1>5, <1>6, <1>7, <1>8, <1>9 DEF IInv

\* Nothing has happened yet.
LEMMA MissStep ==
  ASSUME IInv, NEW t \in Threads, NEW r \in Tracers, NEW f \in Stacks, Miss(t, r, f)
  PROVE  IInv'
<1> USE DEF IInv, Miss, At, Only, Resting, history, table
<1>1. TypeOK'
  BY DEF TypeOK, ThreadPC, Calls, Captured
<1>2. CallInv'
  BY DEF TypeOK, CallInv, Calls
<1>3. PlaceInv'
  BY DEF TypeOK, PlaceInv
<1>4. UnusedInv'
  BY DEF UnusedInv
<1>5. TableInv'
  BY DEF TypeOK, TableInv, Good, CallInv
<1>6. CacheInv'
  BY DEF TypeOK, CacheInv, Good, Settled, CallInv, PlaceInv, UnusedInv, TableInv, TransitInv
<1>7. TransitInv'
  BY DEF TypeOK, TransitInv, Good, Settled, CallInv, TableInv
<1>8. ReturnedInv'
  BY DEF TypeOK, ReturnedInv, Good, Settled, TableInv, CacheInv, TransitInv, Captured
<1>9. DeliveredIfFresh'
  BY DEF TypeOK, DeliveredIfFresh, CacheInv, CallInv, PlaceInv
<1> QED
  BY <1>1, <1>2, <1>3, <1>4, <1>5, <1>6, <1>7, <1>8, <1>9 DEF IInv

\* Nothing has happened yet.
LEMMA RecordKnownStep ==
  ASSUME IInv, NEW t \in Threads, NEW r \in Tracers, RecordKnown(t, r)
  PROVE  IInv'
<1> USE DEF IInv, RecordKnown, At, Only, Resting, history, table
<1>1. TypeOK'
  BY DEF TypeOK, ThreadPC, Calls, Captured
<1>2. CallInv'
  BY DEF TypeOK, CallInv, Calls
<1>3. PlaceInv'
  BY DEF TypeOK, PlaceInv
<1>4. UnusedInv'
  BY DEF UnusedInv
<1>5. TableInv'
  BY DEF TypeOK, TableInv, Good, CallInv
<1>6. CacheInv'
  BY DEF TypeOK, CacheInv, Good, Settled, CallInv, PlaceInv, UnusedInv, TableInv, TransitInv
<1>7. TransitInv'
  BY DEF TypeOK, TransitInv, Good, Settled, CallInv, TableInv
<1>8. ReturnedInv'
  BY DEF TypeOK, ReturnedInv, Good, Settled, TableInv, CacheInv, TransitInv, Captured
<1>9. DeliveredIfFresh'
  BY DEF TypeOK, DeliveredIfFresh, CacheInv, CallInv, PlaceInv
<1> QED
  BY <1>1, <1>2, <1>3, <1>4, <1>5, <1>6, <1>7, <1>8, <1>9 DEF IInv

\* A new id is no other stack's, an old one is the table's.
LEMMA InternStep ==
  ASSUME IInv, NEW t \in Threads, Intern(t)
  PROVE  IInv'
<1> USE DEF IInv
<1>u. UNCHANGED <<alive, home, cache, local, reborn, captured, strayed, rebound, moved>>
  BY DEF Intern, history
<1>p. PICK r \in Tracers, f \in Stacks : r = call[t].tracer /\ f = call[t].frames
  BY DEF Intern, At, CallInv, TypeOK
<1>o. r \in alive /\ pc[t] = "intern"
  BY <1>p DEF Intern, At, CallInv
<1>n. PICK n \in Ids : n = IF byFrames[r][f] # 0 THEN byFrames[r][f] ELSE nextId[r]
  BY DEF TypeOK
<1>c. /\ pc' = [pc EXCEPT ![t] = "remember"]
      /\ call' = [call EXCEPT ![t].id = n]
  BY <1>n, <1>p DEF Intern, At, table
<1>d. \A q \in Tracers, g \in Stacks :
        byFrames'[q][g] = IF q = r /\ g = f THEN n ELSE byFrames[q][g]
  BY <1>n, <1>p DEF TypeOK, Intern, table
<1>e. /\ byId' \in [Tracers -> [Ids -> Stacks \cup {None}]]
      /\ \A q \in Tracers, j \in Ids :
           byId'[q][j] =
             IF q = r /\ j = n /\ byFrames[r][f] = 0 THEN f ELSE byId[q][j]
  <2>1. CASE byFrames[r][f] = 0
    <3>1. byId' = [byId EXCEPT ![r][n] = f]
      BY <1>n, <1>p, <2>1 DEF Intern
    <3> QED
      BY <2>1, <3>1 DEF TypeOK
  <2>2. CASE byFrames[r][f] # 0
    <3>1. byId' = byId
      BY <1>p, <2>2 DEF Intern, table
    <3> QED
      BY <2>2, <3>1 DEF TypeOK
  <2> QED
    BY <2>1, <2>2
<1>f. /\ nextId' \in [Tracers -> Ids]
      /\ \A q \in Tracers : nextId[q] <= nextId'[q]
      /\ byFrames[r][f] = 0 => n < nextId'[r] \/ n = MaxId
  <2>1. CASE byFrames[r][f] = 0
    <3>1. nextId' = [nextId EXCEPT ![r] = Saturated(@ + 1)] /\ n = nextId[r]
      BY <1>n, <1>p, <2>1 DEF Intern
    <3> QED
      BY <2>1, <3>1 DEF TypeOK, Saturated
  <2>2. CASE byFrames[r][f] # 0
    <3>1. nextId' = nextId
      BY <1>p, <2>2 DEF Intern, table
    <3> QED
      BY <2>2, <3>1 DEF TypeOK
  <2> QED
    BY <2>1, <2>2
<1>g. ASSUME NEW q \in Tracers, NEW g \in Stacks, NEW j \in Ids, Good(q, g, j)
      PROVE  Good(q, g, j)'
  <2>1. CASE q = r /\ j = n /\ byFrames[r][f] = 0
    <3>1. n = nextId[r] /\ nextId[r] \in Nat
      BY <1>n, <2>1 DEF TypeOK
    <3>2. byId[r][n] = None \/ n = MaxId
      BY <3>1 DEF TableInv
    <3> QED
      BY <1>g, <1>u, <2>1, <3>2 DEF Good
  <2>2. CASE ~(q = r /\ j = n /\ byFrames[r][f] = 0)
    BY <1>e, <1>g, <1>u, <2>2 DEF Good
  <2> QED
    BY <2>1, <2>2
<1>h. ASSUME NEW q \in Tracers, NEW g \in Stacks, NEW j \in Ids, Settled(q, g, j)
      PROVE  Settled(q, g, j)'
  BY <1>d, <1>h, <1>n, <1>u DEF Settled
<1>i. Good(r, f, n)' /\ Settled(r, f, n)'
  <2>1. Settled(r, f, n)'
    BY <1>d, <1>u DEF Settled
  <2>2. Good(r, f, n)'
    <3>1. CASE byFrames[r][f] = 0
      BY <1>e, <3>1 DEF Good
    <3>2. CASE byFrames[r][f] # 0
      <4>1. n = byFrames[r][f] /\ Good(r, f, n)
        BY <1>n, <3>2 DEF TableInv
      <4> QED
        BY <1>g, <4>1
    <3> QED
      BY <3>1, <3>2
  <2> QED
    BY <2>1, <2>2
<1>1. TypeOK'
  <2>1. byFrames' \in [Tracers -> [Stacks -> 0..MaxId]]
    <3>1. CASE byFrames[r][f] = 0
      <4>1. byFrames' = [byFrames EXCEPT ![r][f] = n]
        BY <1>n, <1>p, <3>1 DEF Intern
      <4> QED
        BY <4>1 DEF TypeOK
    <3>2. CASE byFrames[r][f] # 0
      <4>1. byFrames' = byFrames
        BY <1>p, <3>2 DEF Intern, table
      <4> QED
        BY <4>1 DEF TypeOK
    <3> QED
      BY <3>1, <3>2
  <2>2. call' \in [Threads -> Calls]
    <3>1. [call[t] EXCEPT !.id = n] \in Calls
      <4>1. call[t] \in Calls /\ n \in 0..MaxId
        BY DEF TypeOK
      <4> QED
        BY <4>1 DEF Calls
    <3> QED
      BY <1>c, <3>1 DEF TypeOK
  <2> QED
    BY <1>c, <1>e, <1>f, <1>u, <2>1, <2>2 DEF TypeOK, ThreadPC
<1>2. CallInv'
  BY <1>c, <1>o, <1>p, <1>u DEF CallInv, TypeOK, Calls
<1>3. PlaceInv'
  BY <1>u DEF PlaceInv
<1>4. UnusedInv'
  BY <1>u DEF UnusedInv
<1>5. TableInv'
  <2> SUFFICES ASSUME NEW q \in Tracers
               PROVE  /\ \A g \in Stacks :
                           byFrames'[q][g] # 0 => Good(q, g, byFrames[q][g])'
                      /\ \A j \in Ids :
                           byId'[q][j] # None => j < nextId'[q] \/ j = MaxId
    BY DEF TableInv
  <2>1. ASSUME NEW g \in Stacks, byFrames'[q][g] # 0
        PROVE  Good(q, g, byFrames[q][g])'
    <3>1. CASE q = r /\ g = f
      BY <1>d, <1>i, <2>1, <3>1 DEF Good
    <3>2. CASE ~(q = r /\ g = f)
      <4>1. byFrames'[q][g] = byFrames[q][g] /\ byFrames[q][g] \in Ids
        BY <1>d, <2>1, <3>2 DEF TypeOK
      <4>2. Good(q, g, byFrames[q][g])'
        BY <1>g, <2>1, <4>1 DEF TableInv
      <4> QED
        BY <4>1, <4>2 DEF Good
    <3> QED
      BY <3>1, <3>2
  <2>2. ASSUME NEW j \in Ids, byId'[q][j] # None
        PROVE  j < nextId'[q] \/ j = MaxId
    <3>1. CASE q = r /\ j = n /\ byFrames[r][f] = 0
      BY <1>f, <3>1
    <3>2. CASE ~(q = r /\ j = n /\ byFrames[r][f] = 0)
      <4>1. j < nextId[q] \/ j = MaxId
        BY <1>e, <2>2, <3>2 DEF TableInv
      <4> QED
        BY <1>f, <4>1 DEF TypeOK
    <3> QED
      BY <3>1, <3>2
  <2> QED
    BY <2>1, <2>2
<1>6. CacheInv'
  <2> SUFFICES ASSUME NEW q \in alive \ reborn, NEW u \in Threads
               PROVE  /\ local[u][home[q]] \in {None, q}
                      /\ \A g \in Stacks :
                           cache[u][home[q]][g] # 0 =>
                             /\ Good(q, g, cache[u][home[q]][g])'
                             /\ Settled(q, g, cache[u][home[q]][g])'
    BY <1>u DEF CacheInv
  <2>1. local[u][home[q]] \in {None, q}
    BY DEF CacheInv
  <2>2. ASSUME NEW g \in Stacks, cache[u][home[q]][g] # 0
        PROVE  /\ Good(q, g, cache[u][home[q]][g])'
               /\ Settled(q, g, cache[u][home[q]][g])'
    <3> DEFINE j == cache[u][home[q]][g]
    <3>1. j \in Ids /\ q \in Tracers
      BY <2>2 DEF TypeOK, PlaceInv
    <3>2. Good(q, g, j) /\ Settled(q, g, j)
      BY <2>2 DEF CacheInv
    <3>3. j' = j
      BY <1>u
    <3> HIDE DEF j
    <3>4. Good(q, g, j)' /\ Settled(q, g, j)'
      BY <1>g, <1>h, <3>1, <3>2, <3>3 DEF Good, Settled
    <3> QED
      BY <3>4 DEF j
  <2> QED
    BY <2>1, <2>2
<1>7. TransitInv'
  <2> SUFFICES ASSUME NEW u \in Threads, pc'[u] = "remember"
               PROVE  /\ Good(call[u].tracer, call[u].frames, call[u].id)'
                      /\ Settled(call[u].tracer, call[u].frames, call[u].id)'
    BY DEF TransitInv
  <2>1. CASE u = t
    <3>1. call'[t].tracer = r /\ call'[t].frames = f /\ call'[t].id = n
      BY <1>c, <1>p DEF TypeOK, Calls
    <3> QED
      BY <1>i, <2>1, <3>1 DEF Good, Settled
  <2>2. CASE u # t
    <3>1. pc[u] = "remember" /\ call'[u] = call[u]
      BY <1>c, <2>2 DEF TypeOK
    <3>2. call[u].tracer \in Tracers /\ call[u].frames \in Stacks /\ call[u].id \in Ids
      BY <3>1 DEF CallInv, TypeOK
    <3>3. /\ Good(call[u].tracer, call[u].frames, call[u].id)
          /\ Settled(call[u].tracer, call[u].frames, call[u].id)
      BY <3>1 DEF TransitInv
    <3> QED
      BY <1>g, <1>h, <3>1, <3>2, <3>3 DEF Good, Settled
  <2> QED
    BY <2>1, <2>2
<1>8. ReturnedInv'
  <2> SUFFICES ASSUME NEW c \in captured, c.tracer \notin reborn
               PROVE  /\ Good(c.tracer, c.frames, c.id)'
                      /\ Settled(c.tracer, c.frames, c.id)'
    BY <1>u DEF ReturnedInv
  <2>1. c.tracer \in Tracers /\ c.frames \in Stacks /\ c.id \in Ids
    BY DEF TypeOK
  <2>2. Good(c.tracer, c.frames, c.id) /\ Settled(c.tracer, c.frames, c.id)
    BY DEF ReturnedInv
  <2> QED
    BY <1>g, <1>h, <2>1, <2>2
<1>9. DeliveredIfFresh'
  BY <1>u DEF DeliveredIfFresh
<1> QED
  BY <1>1, <1>2, <1>3, <1>4, <1>5, <1>6, <1>7, <1>8, <1>9 DEF IInv

\* The cache is given what the table said.
LEMMA RememberStep ==
  ASSUME IInv, NEW t \in Threads, Remember(t)
  PROVE  IInv'
<1> USE DEF IInv
<1>p. PICK r \in Tracers, f \in Stacks, n \in Ids, p \in Places :
        r = call[t].tracer /\ f = call[t].frames /\ n = call[t].id /\ p = home[r]
  BY DEF Remember, At, CallInv, PlaceInv, TypeOK
<1>a. r \in alive /\ pc[t] = "remember" /\ p = home[r]
  BY <1>p DEF Remember, At, CallInv
<1>b. /\ cache' \in [Threads -> [Places -> [Stacks -> 0..MaxId]]]
      /\ \A u \in Threads, o \in Places, g \in Stacks :
           \/ cache'[u][o][g] \in {0, cache[u][o][g]}
           \/ u = t /\ o = p /\ g = f /\ cache'[u][o][g] = n
  <2>1. cache[t][p] \in [Stacks -> 0..MaxId]
    BY DEF TypeOK
  <2>2. /\ Room(cache[t][p]) \in [Stacks -> 0..MaxId]
        /\ \A g \in Stacks : Room(cache[t][p])[g] \in {0, cache[t][p][g]}
    BY <2>1, RoomForgets
  <2>3. PICK line : line = [Room(cache[t][p]) EXCEPT ![f] = n]
    OBVIOUS
  <2>4. /\ line \in [Stacks -> 0..MaxId]
        /\ \A g \in Stacks :
             \/ line[g] \in {0, cache[t][p][g]}
             \/ g = f /\ line[g] = n
    <3>1. PICK room \in [Stacks -> 0..MaxId] : room = Room(cache[t][p])
      BY <2>2
    <3>2. \A g \in Stacks : room[g] \in {0, cache[t][p][g]}
      BY <2>2, <3>1
    <3>3. line = [room EXCEPT ![f] = n]
      BY <2>3, <3>1
    <3>4. n \in 0..MaxId
      OBVIOUS
    <3>5. line \in [Stacks -> 0..MaxId]
      BY <3>3, <3>4
    <3>6. \A g \in Stacks : line[g] = IF g = f THEN n ELSE room[g]
      BY <3>3
    <3> QED
      BY <3>2, <3>5, <3>6
  <2>5. cache' = [cache EXCEPT ![t][p] = line]
    BY <1>p, <2>3 DEF Remember
  <2>6. cache' \in [Threads -> [Places -> [Stacks -> 0..MaxId]]]
    BY <2>4, <2>5 DEF TypeOK
  <2>7. ASSUME NEW u \in Threads, NEW o \in Places
        PROVE  cache'[u][o] = IF u = t /\ o = p THEN line ELSE cache[u][o]
    BY <2>5 DEF TypeOK
  <2> QED
    BY <2>4, <2>6, <2>7
<1>c. Good(r, f, n) /\ Settled(r, f, n)
  BY <1>a, <1>p DEF TransitInv
<1>d. /\ captured' = captured \cup {[tracer |-> r, frames |-> f, id |-> n]}
      /\ pc' = [pc EXCEPT ![t] = "buffer"]
      /\ call' = [call EXCEPT ![t] = Only(r)]
      /\ UNCHANGED <<alive, home, byFrames, byId, nextId, local, reborn, strayed,
                     rebound, moved>>
  BY <1>p DEF Remember, At, Captured, table
<1>1. TypeOK'
  BY <1>b, <1>d DEF TypeOK, ThreadPC, Calls, Only
<1>2. CallInv'
  BY <1>a, <1>d DEF TypeOK, CallInv, Calls, Only
<1>3. PlaceInv'
  BY <1>d DEF PlaceInv
<1>4. UnusedInv'
  <2> SUFFICES ASSUME NEW o \in Places, \A q \in Tracers : home[q] # o, NEW u \in Threads
               PROVE  local[u][o] = None /\ \A g \in Stacks : cache'[u][o][g] = 0
    BY <1>d DEF UnusedInv
  <2>1. o # p
    BY <1>a
  <2>2. local[u][o] = None /\ \A g \in Stacks : cache[u][o][g] = 0
    BY DEF UnusedInv
  <2> QED
    <3> SUFFICES ASSUME NEW g \in Stacks PROVE cache'[u][o][g] = 0
      BY <2>2
    <3>1. cache'[u][o][g] \in {0, cache[u][o][g]}
      BY <1>b, <2>1
    <3> QED
      BY <2>2, <3>1
<1>5. TableInv'
  BY <1>d DEF TableInv, Good
<1>6. CacheInv'
  <2> SUFFICES ASSUME NEW q \in alive \ reborn, NEW u \in Threads
               PROVE  /\ local[u][home[q]] \in {None, q}
                      /\ \A g \in Stacks :
                           cache'[u][home[q]][g] # 0 =>
                             /\ Good(q, g, cache'[u][home[q]][g])
                             /\ Settled(q, g, cache'[u][home[q]][g])
    BY <1>d DEF CacheInv, Good, Settled
  <2>1. local[u][home[q]] \in {None, q}
    BY DEF CacheInv
  <2>2. ASSUME NEW g \in Stacks, cache'[u][home[q]][g] # 0
        PROVE  /\ Good(q, g, cache'[u][home[q]][g])
               /\ Settled(q, g, cache'[u][home[q]][g])
    <3>1. q \in Tracers /\ home[q] \in Places
      BY DEF TypeOK, PlaceInv
    <3>2. CASE cache'[u][home[q]][g] = cache[u][home[q]][g]
      BY <2>2, <3>2 DEF CacheInv
    <3>3. CASE u = t /\ home[q] = p /\ g = f /\ cache'[u][home[q]][g] = n
      <4>1. q = r
        BY <1>a, <3>1, <3>3 DEF PlaceInv
      <4> QED
        BY <1>c, <3>3, <4>1
    <3> QED
      <4>1. \/ cache'[u][home[q]][g] \in {0, cache[u][home[q]][g]}
            \/ u = t /\ home[q] = p /\ g = f /\ cache'[u][home[q]][g] = n
        BY <1>b, <3>1
      <4> QED
        BY <2>2, <3>2, <3>3, <4>1
  <2> QED
    BY <2>1, <2>2
<1>7. TransitInv'
  BY <1>d DEF TypeOK, TransitInv, Good, Settled
<1>8. ReturnedInv'
  <2> SUFFICES ASSUME NEW c \in captured', c.tracer \notin reborn
               PROVE  Good(c.tracer, c.frames, c.id) /\ Settled(c.tracer, c.frames, c.id)
    BY <1>d DEF ReturnedInv, Good, Settled
  <2>1. CASE c \in captured
    BY <2>1 DEF ReturnedInv
  <2>2. CASE c = [tracer |-> r, frames |-> f, id |-> n]
    BY <1>c, <2>2
  <2> QED
    BY <1>d, <2>1, <2>2
<1>9. DeliveredIfFresh'
  BY <1>d DEF DeliveredIfFresh
<1> QED
  BY <1>1, <1>2, <1>3, <1>4, <1>5, <1>6, <1>7, <1>8, <1>9 DEF IInv

\* The buffer found is the tracer's own, if it is the first at its place.
LEMMA DeliverStep ==
  ASSUME IInv, NEW t \in Threads, Deliver(t)
  PROVE  IInv'
<1> USE DEF IInv, Deliver, At, Only, Resting, history, table
<1> DEFINE r == call[t].tracer
           p == home[r]
<1>a. r \in alive /\ r \in Tracers /\ p \in Places
  BY DEF CallInv, TypeOK, PlaceInv
<1>b. local[t][p] \in Tracers \cup {None}
  BY <1>a DEF TypeOK
<1>1. TypeOK'
  <2>1. local' \in [Threads -> [Places -> Tracers \cup {None}]]
    BY <1>a, <1>b DEF TypeOK
  <2>2. strayed' \subseteq Tracers
    BY <1>a DEF TypeOK
  <2> QED
    BY <2>1, <2>2 DEF TypeOK, ThreadPC, Calls
<1>2. CallInv'
  BY DEF TypeOK, CallInv, Calls
<1>3. PlaceInv'
  BY DEF TypeOK, PlaceInv
<1>4. UnusedInv'
  <2> SUFFICES ASSUME NEW o \in Places, \A q \in Tracers : home[q] # o, NEW u \in Threads
               PROVE  local'[u][o] = None /\ \A g \in Stacks : cache[u][o][g] = 0
    BY DEF UnusedInv
  <2>1. o # p
    BY <1>a
  <2>2. local'[u][o] = local[u][o]
    BY <1>a, <2>1 DEF TypeOK
  <2> QED
    BY <2>2 DEF UnusedInv
<1>5. TableInv'
  BY DEF TypeOK, TableInv, Good, CallInv
<1>6. CacheInv'
  BY DEF TypeOK, CacheInv, Good, Settled, CallInv, PlaceInv, UnusedInv, TableInv, TransitInv
<1>7. TransitInv'
  BY DEF TypeOK, TransitInv, Good, Settled, CallInv, TableInv
<1>8. ReturnedInv'
  BY DEF TypeOK, ReturnedInv, Good, Settled, TableInv, CacheInv, TransitInv, Captured
<1>9. DeliveredIfFresh'
  BY DEF TypeOK, DeliveredIfFresh, CacheInv, CallInv, PlaceInv
<1> QED
  BY <1>1, <1>2, <1>3, <1>4, <1>5, <1>6, <1>7, <1>8, <1>9 DEF IInv

\* A thread that ends only forgets.
LEMMA ExitStep ==
  ASSUME IInv, NEW t \in Threads, Exit(t)
  PROVE  IInv'
<1> USE DEF IInv, Exit, At, Only, Resting, history, table
<1>1. TypeOK'
  BY DEF TypeOK, ThreadPC, Calls, Captured
<1>2. CallInv'
  BY DEF TypeOK, CallInv, Calls
<1>3. PlaceInv'
  BY DEF TypeOK, PlaceInv
<1>4. UnusedInv'
  <2> SUFFICES ASSUME NEW o \in Places, \A q \in Tracers : home[q] # o, NEW u \in Threads
               PROVE  local'[u][o] = None /\ \A g \in Stacks : cache'[u][o][g] = 0
    BY DEF UnusedInv
  <2> QED
    BY DEF TypeOK, UnusedInv
<1>5. TableInv'
  BY DEF TypeOK, TableInv, Good, CallInv
<1>6. CacheInv'
  BY DEF TypeOK, CacheInv, Good, Settled, CallInv, PlaceInv, UnusedInv, TableInv, TransitInv
<1>7. TransitInv'
  BY DEF TypeOK, TransitInv, Good, Settled, CallInv, TableInv
<1>8. ReturnedInv'
  BY DEF TypeOK, ReturnedInv, Good, Settled, TableInv, CacheInv, TransitInv, Captured
<1>9. DeliveredIfFresh'
  BY DEF TypeOK, DeliveredIfFresh, CacheInv, CallInv, PlaceInv
<1> QED
  BY <1>1, <1>2, <1>3, <1>4, <1>5, <1>6, <1>7, <1>8, <1>9 DEF IInv

-----------------------------------------------------------------------------
(* The theorems.                                                            *)

\* The invariant that carries the theorems below.
THEOREM CaptureInvariant == Spec => []IInv
<1>1. Init => IInv
  BY InitIInv
<1>2. IInv /\ [Next]_vars => IInv'
  <2> SUFFICES ASSUME IInv, [Next]_vars PROVE IInv'
    OBVIOUS
  <2>1. ASSUME NEW r \in Tracers, TracerStep(r) PROVE IInv'
    <3>1. Named \subseteq Ids
      OBVIOUS
    <3> QED
      BY <2>1, <3>1, CreateStep, FreeStep, InsertWithIdStep DEF TracerStep
  <2>2. ASSUME NEW t \in Threads, ThreadStep(t) PROVE IInv'
    BY <2>2, HitStep, MissStep, RecordKnownStep, InternStep, RememberStep,
       DeliverStep, ExitStep DEF ThreadStep
  <2>3. CASE UNCHANGED vars
    BY <2>3 DEF IInv, vars, table, history, TypeOK, CallInv, PlaceInv, UnusedInv,
       TableInv, CacheInv, TransitInv, ReturnedInv, DeliveredIfFresh, Good, Settled
  <2> QED
    BY <2>1, <2>2, <2>3 DEF Next
<1> QED
  BY <1>1, <1>2, PTL DEF Spec

\* Types hold, and no id above MaxId is ever handed out, for every number of
\* threads and tracers (stack.rs, the saturating next_id).
THEOREM CaptureTypeOK == Spec => []TypeOK
<1>1. IInv => TypeOK
  BY DEF IInv
<1> QED
  BY <1>1, CaptureInvariant, PTL

\* However threads, evictions and insert_with_id interleave, an id that
\* capture_and_intern returned resolves to the frames it was returned for.
THEOREM IdsAttributed == Spec => []Attribution
<1>1. IInv => Attribution
  BY DEF IInv, ReturnedInv, Attribution, Good
<1> QED
  BY <1>1, CaptureInvariant, PTL

\* However threads and evictions interleave, one stack has one id
\* (StackTable::intern: "return their stable identifier").
THEOREM IdsStable == Spec => []StableId
<1>1. IInv => StableId
  BY DEF IInv, ReturnedInv, StableId, Settled
<1> QED
  BY <1>1, CaptureInvariant, PTL

\* No event strays from a tracer that is the first at its address, for every
\* number of tracers that come and go.
THEOREM EventsDelivered == Spec => []DeliveredIfFresh
<1>1. IInv => DeliveredIfFresh
  BY DEF IInv
<1> QED
  BY <1>1, CaptureInvariant, PTL

-----------------------------------------------------------------------------
(* What `Delivered` needs.                                                  *)

\* A tracer made where another one had been shares its place with that one.
SharesPlace == \A r \in reborn : \E q \in Tracers : q # r /\ home[q] = home[r] /\ home[r] # None

\* No two tracers of a program have had the same address.
AddressesDiffer ==
  \A q, r \in Tracers : q # r /\ home[r] # None => home[q] # home[r]

LEMMA SharesPlaceStep ==
  ASSUME TypeOK, SharesPlace, [Next]_vars
  PROVE  SharesPlace'
<1>1. ASSUME NEW r \in Tracers, NEW p \in Places, Create(r, p) PROVE SharesPlace'
  <2>1. /\ home' = [home EXCEPT ![r] = p] /\ home[r] = None
        /\ reborn' = IF \E q \in Tracers : home[q] = p THEN reborn \cup {r} ELSE reborn
    BY <1>1 DEF Create
  <2>2. p # None /\ home \in [Tracers -> Places \cup {None}] /\ reborn \subseteq Tracers
    BY CaptureAssumption DEF TypeOK
  <2>3. ASSUME NEW s \in reborn
        PROVE  \E q \in Tracers : q # s /\ home'[q] = home'[s] /\ home'[s] # None
    <3>1. PICK q \in Tracers : q # s /\ home[q] = home[s] /\ home[s] # None
      BY DEF SharesPlace
    <3> QED
      BY <2>1, <2>2, <3>1
  <2>4. ASSUME NEW q \in Tracers, home[q] = p
        PROVE  q # r /\ home'[q] = home'[r] /\ home'[r] # None
    BY <2>1, <2>2, <2>4
  <2> QED
    BY <2>1, <2>3, <2>4 DEF SharesPlace
<1>2. CASE UNCHANGED <<home, reborn>>
  BY <1>2 DEF SharesPlace
<1>3. ASSUME NEW r \in Tracers, TracerStep(r), ~(\E p \in Places : Create(r, p))
      PROVE  UNCHANGED <<home, reborn>>
  BY <1>3 DEF TracerStep, Free, InsertWithId
<1>4. ASSUME NEW t \in Threads, ThreadStep(t) PROVE UNCHANGED <<home, reborn>>
  BY <1>4 DEF ThreadStep, Hit, Miss, RecordKnown, Intern, Remember, Deliver, Exit, history
<1> QED
  BY <1>1, <1>2, <1>3, <1>4 DEF Next, vars, history

\* As long as no two tracers have had the same address, every event goes into a
\* buffer its own tracer drains, as record_event's documentation has it; in
\* particular where a program makes one tracer (thread_buffer in state.rs).
THEOREM DeliveredUnlessReused == Spec => [](AddressesDiffer => Delivered)
<1>1. Init => SharesPlace
  BY DEF Init, SharesPlace
<1>2. TypeOK /\ SharesPlace /\ [Next]_vars => SharesPlace'
  BY SharesPlaceStep
<1>3. TypeOK /\ SharesPlace /\ DeliveredIfFresh => (AddressesDiffer => Delivered)
  BY DEF TypeOK, SharesPlace, DeliveredIfFresh, AddressesDiffer, Delivered
<1> QED
  BY <1>1, <1>2, <1>3, CaptureTypeOK, EventsDelivered, PTL DEF Spec
=============================================================================
