------------------------ MODULE ShimLifecycleProofs ------------------------
(****************************************************************************)
(* What ShimLifecycle keeps for every number of threads and states, with    *)
(* and without code in the arguments of start() and another tool.           *)
(****************************************************************************)
EXTENDS ShimLifecycle, TLAPS

-----------------------------------------------------------------------------
(* Types.                                                                   *)

Todos == {<<>>, <<"sizes">>, <<"frames", "sizes">>, <<"gil", "sizes">>,
          <<"sizes", "frames", "sizes">>}

LEMMA PlanTodos == \A op \in DOMAIN Plan : Plan[op] \in Todos
<1>1. DOMAIN Plan = {"malloc", "free", "realloc"}
  BY DEF Plan
<1>2. /\ Plan["malloc"] = <<"frames", "sizes">> /\ Plan["free"] = <<"sizes">>
      /\ Plan["realloc"] = <<"sizes", "frames", "sizes">>
  BY DEF Plan
<1> QED
  BY <1>1, <1>2 DEF Todos

\* What a hook has left to do when it has done the first thing.
LEMMA TodoTail ==
  ASSUME NEW q \in Todos, q # <<>>
  PROVE  /\ Tail(q) \in Todos
         /\ Head(q) = "frames" => <<"gil">> \o Tail(q) \in Todos
<1>1. Tail(<<"sizes">>) = <<>> /\ Head(<<"sizes">>) = "sizes"
  OBVIOUS
<1>2. Tail(<<"frames", "sizes">>) = <<"sizes">> /\ Head(<<"frames", "sizes">>) = "frames"
  OBVIOUS
<1>5. <<"gil">> \o <<"sizes">> = <<"gil", "sizes">>
  <2> DEFINE Words == {"gil", "sizes"}
  <2>1. <<"gil">> \in Seq(Words) /\ <<"sizes">> \in Seq(Words)
    OBVIOUS
  <2>2. Len(<<"gil">>) = 1 /\ Len(<<"sizes">>) = 1
    OBVIOUS
  <2> DEFINE c == <<"gil">> \o <<"sizes">>
  <2>3. c \in Seq(Words) /\ Len(c) = 2 /\ c[1] = "gil" /\ c[2] = "sizes"
    BY <2>1, <2>2
  <2> HIDE DEF c
  <2>4. c = <<"gil", "sizes">>
    BY <2>3
  <2> QED
    BY <2>4 DEF c
<1>3. Tail(<<"gil", "sizes">>) = <<"sizes">> /\ Head(<<"gil", "sizes">>) = "gil"
  OBVIOUS
<1>4. /\ Tail(<<"sizes", "frames", "sizes">>) = <<"frames", "sizes">>
      /\ Head(<<"sizes", "frames", "sizes">>) = "sizes"
  OBVIOUS
<1> QED
  BY <1>1, <1>2, <1>3, <1>4, <1>5 DEF Todos

ShimTypeOK ==
  /\ gil \in Threads \cup {Nobody}
  /\ table \in Allocators
  /\ tool \in Allocators \cup {Off}
  /\ crossed \in BOOLEAN
  /\ lock \in Pythons \cup {Nobody}
  /\ current \in 0..made
  /\ made \in 0..MaxStates
  /\ shim \in [States -> [alive : BOOLEAN, enabled : BOOLEAN, original : Allocators,
                          sizes : Threads \cup {Nobody}]]

CallTypeOK == call \in [Pythons -> [at : Places, state : 0..made]]

HookTypeOK == hook \in [Threads -> [state : 0..made, op : DOMAIN Plan, todo : Todos]]

LEMMA TypeParts == TypeOK <=> ShimTypeOK /\ CallTypeOK /\ HookTypeOK
BY DEF TypeOK, ShimTypeOK, CallTypeOK, HookTypeOK, Todos

\* The steps, one by one.
LEMMA StepCases ==
  ASSUME [Next]_vars
  PROVE  \/ \E p \in Pythons :
              \/ Switch(p) \/ InstallTool(p) \/ RemoveTool(p)
              \/ \E f \in {"start", "stop", "clear", "query"} : Call(p, f) \/ Return(p, f)
              \/ \E x \in Arguments : Start(p, x)
              \/ Parsed(p) \/ Rejected(p) \/ CallAgain(p) \/ Install(p) \/ Publish(p)
              \/ Stop(p) \/ Restore(p) \/ Disable(p)
              \/ Clear(p) \/ ClearAllocations(p) \/ Drop(p)
         \/ \E t \in Threads :
              \/ \E o \in DOMAIN Plan : Enter(t, o)
              \/ LockSizes(t) \/ UnlockSizes(t) \/ CheckEnabled(t)
              \/ AcquireGil(t) \/ Collect(t) \/ Leave(t)
         \/ UNCHANGED vars
BY DEF Next, Function, HookStep

LEMMA InitTypeOK == Init => TypeOK
<1> SUFFICES ASSUME Init PROVE TypeOK
  OBVIOUS
<1>1. "free" \in DOMAIN Plan
  BY DEF Plan
<1>2. ShimTypeOK
  <2>1. shim \in [States -> [alive : BOOLEAN, enabled : BOOLEAN, original : Allocators,
                            sizes : Threads \cup {Nobody}]]
    BY DEF Init, Allocators
  <2>2. table \in Allocators /\ current \in 0..made /\ made \in 0..MaxStates
    BY ShimAssumption DEF Init, Allocators
  <2> QED
    BY <2>1, <2>2 DEF Init, ShimTypeOK
<1>3. CallTypeOK
  BY ShimAssumption DEF Init, CallTypeOK, Places
<1>4. HookTypeOK
  BY <1>1, ShimAssumption DEF Init, HookTypeOK, NoHook, Todos
<1> QED
  BY <1>2, <1>3, <1>4, TypeParts

-----------------------------------------------------------------------------
(* Who holds STATE's lock, the GIL and the states.                          *)

Unlocked == {"python", "start", "stop", "clear", "query"}

LockHeld == \A p \in Pythons : call[p].at \notin Unlocked <=> lock = p

GilHeld ==
  \A p \in Pythons : call[p].at \notin {"python", "arguments"} \/ InHook(p) => gil = p

\* What p knows of its state and of `current` where it is.
Held(p) ==
  LET at == call[p].at
      g == call[p].state
  IN  /\ at \in Unlocked \cup {"arguments", "again", "install"} => g = 0
      /\ at \in {"arguments", "again", "install", "publish", "restore", "disable"}
           => current = 0
      /\ at \in {"publish", "restore", "disable", "sizes", "drop"} => g # 0 /\ shim[g].alive
      /\ at \in {"sizes", "drop"} => current \in {0, g}

StatesHeld ==
  /\ current # 0 => shim[current].alive
  /\ \A p \in Pythons : Held(p)

\* No allocator belongs to a state that has not been made.
Existing ==
  /\ table <= made
  /\ tool <= made
  /\ \A g \in States : shim[g].original <= made

Types == ShimTypeOK /\ CallTypeOK /\ HookTypeOK

Holding == LockHeld /\ GilHeld /\ StatesHeld /\ Existing

LEMMA InitHolding == Init => Holding
<1> SUFFICES ASSUME Init PROVE Holding
  OBVIOUS
<1>1. Nobody \notin Pythons
  BY ShimAssumption DEF Threads
<1>2. \A p \in Pythons : call[p].at = "python" /\ call[p].state = 0 /\ ~InHook(p)
  BY DEF Init, InHook, NoHook, Threads
<1> QED
  BY <1>1, <1>2 DEF Init, Holding, LockHeld, GilHeld, StatesHeld, Held, Unlocked, Existing, Own, Off

LEMMA ShimTypes ==
  ASSUME Types, Holding, [Next]_vars
  PROVE  ShimTypeOK' /\ made' \in {made, made + 1}
<1> ShimTypeOK /\ CallTypeOK
  BY DEF Types
<1> USE DEF ShimTypeOK, CallTypeOK, Go, outside
<1>1. MaxStates \in Nat /\ Pythons \subseteq Threads /\ made \in Nat
  BY ShimAssumption DEF Threads
<1>2. /\ {Own, ToolHooks} \subseteq Allocators /\ States \subseteq Allocators
      /\ 0 \in Allocators /\ \A n \in 1..MaxStates : n \in States
  BY DEF Allocators, States, Own
<1>3. ASSUME NEW p \in Pythons, Switch(p) \/ InstallTool(p)
      PROVE  ShimTypeOK' /\ made' = made
  BY <1>1, <1>2, <1>3 DEF Switch, InstallTool
<1>4. ASSUME NEW p \in Pythons, RemoveTool(p) PROVE ShimTypeOK' /\ made' = made
  BY <1>1, <1>2, <1>4 DEF RemoveTool
<1>5. ASSUME NEW p \in Pythons,
             \E f \in {"start", "stop", "clear", "query"} : Call(p, f) \/ Return(p, f)
      PROVE  ShimTypeOK' /\ made' = made
  BY <1>5 DEF Call, Return
<1>6. ASSUME NEW p \in Pythons,
             (\E x \in Arguments : Start(p, x)) \/ Parsed(p) \/ Rejected(p) \/ CallAgain(p)
      PROVE  ShimTypeOK' /\ made' = made
  BY <1>6 DEF Start, Parsed, Rejected, CallAgain
<1>7. ASSUME NEW p \in Pythons, Install(p) PROVE ShimTypeOK' /\ made' = made + 1
  <2>1. made' = made + 1 /\ made' \in 1..MaxStates /\ current' = current
    BY <1>1, <1>7 DEF Install
  <2> QED
    BY <1>1, <1>2, <1>7, <2>1 DEF Install
<1>8. ASSUME NEW p \in Pythons, Publish(p) PROVE ShimTypeOK' /\ made' = made
  <2>1. call[p].state \in 0..made
    OBVIOUS
  <2>2. Freed(current) \in [States -> [alive : BOOLEAN, enabled : BOOLEAN, original : Allocators,
                                      sizes : Threads \cup {Nobody}]]
    BY DEF Freed
  <2> QED
    BY <1>1, <1>8, <2>1, <2>2 DEF Publish
<1>9. ASSUME NEW p \in Pythons, Drop(p) PROVE ShimTypeOK' /\ made' = made
  <2>1. \A g : Freed(g) \in [States -> [alive : BOOLEAN, enabled : BOOLEAN, original : Allocators,
                                      sizes : Threads \cup {Nobody}]]
    BY DEF Freed
  <2> QED
    BY <1>1, <1>9, <2>1 DEF Drop
<1>10. ASSUME NEW p \in Pythons, Stop(p) \/ Disable(p) \/ Clear(p) \/ ClearAllocations(p)
       PROVE  ShimTypeOK' /\ made' = made
  <2>1. CASE Stop(p)
    BY <1>1, <2>1 DEF Stop
  <2>2. CASE Disable(p)
    BY <1>1, <2>2 DEF Disable
  <2>3. CASE Clear(p) \/ ClearAllocations(p)
    BY <1>1, <2>3 DEF Clear, ClearAllocations
  <2> QED
    BY <1>10, <2>1, <2>2, <2>3
<1>15. ASSUME NEW p \in Pythons, Restore(p) PROVE ShimTypeOK' /\ made' = made
  <2>1. call[p].state \in States
    BY <1>1, <1>15 DEF Restore, Holding, StatesHeld, Held, States
  <2> QED
    BY <1>1, <1>2, <1>15, <2>1 DEF Restore
<1>11. ASSUME NEW t \in Threads, NEW o \in DOMAIN Plan, Enter(t, o)
       PROVE  ShimTypeOK' /\ made' = made
  BY <1>11 DEF Enter
<1>12. ASSUME NEW t \in Threads, LockSizes(t) \/ UnlockSizes(t)
       PROVE  ShimTypeOK' /\ made' = made
  BY <1>1, <1>12 DEF LockSizes, UnlockSizes
<1>13. ASSUME NEW t \in Threads, CheckEnabled(t) \/ AcquireGil(t) \/ Collect(t) \/ Leave(t)
       PROVE  ShimTypeOK' /\ made' = made
  BY <1>1, <1>13 DEF CheckEnabled, AcquireGil, Collect, Leave
<1>14. ASSUME UNCHANGED vars PROVE ShimTypeOK' /\ made' = made
  BY <1>14 DEF vars
<1> QED
  BY <1>3, <1>4, <1>5, <1>6, <1>7, <1>8, <1>9, <1>10, <1>11, <1>12, <1>13,
     <1>14, <1>15, StepCases
LEMMA CallTypes ==
  ASSUME Types, Holding, [Next]_vars
  PROVE  CallTypeOK'
<1>1. /\ call \in [Pythons -> [at : Places, state : 0..made]]
      /\ current \in 0..made /\ made \in Nat /\ made' \in {made, made + 1}
  BY ShimAssumption, ShimTypes DEF Types, CallTypeOK, ShimTypeOK
<1>2. 0 \in 0..made' /\ \A n \in 0..made : n \in 0..made'
  BY <1>1
<1>3. ASSUME NEW p \in Pythons, NEW at \in Places, NEW g \in 0..made',
             call' = [call EXCEPT ![p] = [at |-> at, state |-> g]]
      PROVE  CallTypeOK'
  BY <1>1, <1>2, <1>3 DEF CallTypeOK
<1>4. ASSUME call' = call PROVE CallTypeOK'
  BY <1>1, <1>2, <1>4 DEF CallTypeOK
<1> USE DEF Places
<1>5. ASSUME NEW p \in Pythons, NEW f \in {"start", "stop", "clear", "query"},
             Call(p, f) \/ Return(p, f)
      PROVE  CallTypeOK'
  <2>1. \E at \in Places : call' = [call EXCEPT ![p] = [at |-> at, state |-> 0]]
    BY <1>5 DEF Call, Return, Go
  <2> QED
    BY <1>2, <1>3, <2>1
<1>6. ASSUME NEW p \in Pythons,
             (\E x \in Arguments : Start(p, x)) \/ Parsed(p) \/ Rejected(p) \/ CallAgain(p)
             \/ Publish(p) \/ Drop(p)
      PROVE  CallTypeOK'
  <2>1. \E at \in Places : call' = [call EXCEPT ![p] = [at |-> at, state |-> 0]]
    BY <1>6 DEF Start, Parsed, Rejected, CallAgain, Publish, Drop, Go
  <2> QED
    BY <1>2, <1>3, <2>1
<1>7. ASSUME NEW p \in Pythons, Install(p) PROVE CallTypeOK'
  <2>1. /\ call' = [call EXCEPT ![p] = [at |-> "publish", state |-> made + 1]]
        /\ made' = made + 1 /\ made + 1 \in 0..made'
    BY <1>1, <1>7 DEF Install, Go
  <2> QED
    BY <1>3, <2>1
<1>8. ASSUME NEW p \in Pythons,
             Stop(p) \/ Restore(p) \/ Disable(p) \/ Clear(p) \/ ClearAllocations(p)
      PROVE  CallTypeOK'
  <2>1. \E at \in Places, g \in {current, call[p].state} :
          call' = [call EXCEPT ![p] = [at |-> at, state |-> g]]
    BY <1>8 DEF Stop, Restore, Disable, Clear, ClearAllocations, Go
  <2>2. \A g \in {current, call[p].state} : g \in 0..made'
    BY <1>1, <1>2
  <2> QED
    BY <1>3, <2>1, <2>2
<1>9. ASSUME NEW p \in Pythons, Switch(p) \/ InstallTool(p) \/ RemoveTool(p)
      PROVE  call' = call
  BY <1>9 DEF Switch, InstallTool, RemoveTool
<1>10. ASSUME NEW t \in Threads,
              (\E o \in DOMAIN Plan : Enter(t, o)) \/ LockSizes(t) \/ UnlockSizes(t)
              \/ CheckEnabled(t) \/ AcquireGil(t) \/ Collect(t) \/ Leave(t)
       PROVE  call' = call
  BY <1>10 DEF Enter, LockSizes, UnlockSizes, CheckEnabled, AcquireGil, Collect, Leave
<1> QED
  BY <1>4, <1>5, <1>6, <1>7, <1>8, <1>9, <1>10, StepCases DEF vars

\* The functions leave the hooks alone, and so does the interpreter.
LEMMA HookFrame ==
  ASSUME NEW p \in Pythons,
         \/ Switch(p) \/ InstallTool(p) \/ RemoveTool(p)
         \/ \E f \in {"start", "stop", "clear", "query"} : Call(p, f) \/ Return(p, f)
         \/ \E x \in Arguments : Start(p, x)
         \/ Parsed(p) \/ Rejected(p) \/ CallAgain(p) \/ Install(p) \/ Publish(p)
         \/ Stop(p) \/ Restore(p) \/ Disable(p)
         \/ Clear(p) \/ ClearAllocations(p) \/ Drop(p)
  PROVE  hook' = hook
BY DEF Switch, InstallTool, RemoveTool, Call, Return, Start, Parsed, Rejected, CallAgain,
       Install, Publish, Stop, Restore, Disable, Clear, ClearAllocations, Drop

LEMMA HookTypes ==
  ASSUME Types, Holding, [Next]_vars
  PROVE  HookTypeOK'
<1>1. /\ hook \in [Threads -> [state : 0..made, op : DOMAIN Plan, todo : Todos]]
      /\ made \in Nat /\ made' \in {made, made + 1}
      /\ table \in Allocators /\ tool \in Allocators \cup {Off}
  BY ShimAssumption, ShimTypes DEF Types, HookTypeOK, ShimTypeOK
<1>2. \A n \in 0..made : n \in 0..made'
  BY <1>1
<1>3. ASSUME hook' = hook PROVE HookTypeOK'
  BY <1>1, <1>2, <1>3 DEF HookTypeOK
<1>4. ASSUME NEW t \in Threads, NEW q \in Todos, hook' = [hook EXCEPT ![t].todo = q]
      PROVE  HookTypeOK'
  BY <1>1, <1>2, <1>4 DEF HookTypeOK
<1>5. ASSUME NEW t \in Threads, NEW o \in DOMAIN Plan, Enter(t, o)
      PROVE  HookTypeOK'
  <2>1. Hooked \in 0..made
    BY <1>1, <1>5 DEF Enter, Hooked, Holding, Existing, States, Allocators, Off, Own, ToolHooks
  <2> QED
    BY <1>1, <1>2, <1>5, <2>1, PlanTodos DEF Enter, HookTypeOK
<1>6. ASSUME NEW t \in Threads, LockSizes(t) \/ AcquireGil(t) PROVE hook' = hook
  BY <1>6 DEF LockSizes, AcquireGil
<1>7. ASSUME NEW t \in Threads, UnlockSizes(t) \/ Collect(t) PROVE HookTypeOK'
  <2>1. hook[t].todo \in Todos /\ hook[t].todo # <<>>
        /\ hook' = [hook EXCEPT ![t].todo = Tail(hook[t].todo)]
    BY <1>1, <1>7 DEF UnlockSizes, Collect, At, Done
  <2> QED
    BY <1>4, <2>1, TodoTail
<1>8. ASSUME NEW t \in Threads, CheckEnabled(t) PROVE HookTypeOK'
  <2> DEFINE q == hook[t].todo
  <2>1. q \in Todos /\ q # <<>> /\ Head(q) = "frames"
    BY <1>1, <1>8 DEF CheckEnabled, At
  <2>2. /\ <<>> \in Todos /\ Tail(q) \in Todos /\ <<"gil">> \o Tail(q) \in Todos
    BY <2>1, TodoTail DEF Todos
  <2>3. \E r \in {<<>>, Tail(q), <<"gil">> \o Tail(q)} : hook' = [hook EXCEPT ![t].todo = r]
    BY <1>1, <1>8 DEF CheckEnabled
  <2> QED
    BY <1>4, <2>2, <2>3
<1>9. ASSUME NEW t \in Threads, Leave(t) PROVE HookTypeOK'
  <2>1. NoHook \in [state : 0..made', op : DOMAIN Plan, todo : Todos]
    BY <1>1 DEF NoHook, Todos, Plan
  <2> QED
    BY <1>1, <1>2, <1>9, <2>1 DEF Leave, HookTypeOK
<1> QED
  BY <1>3, <1>5, <1>6, <1>7, <1>8, <1>9, HookFrame, StepCases DEF vars
\* A step of a function keeps what the other threads hold: they have not the
\* GIL, and so they are in Python code or run that of arguments.
LEMMA HoldingGo ==
  ASSUME Types, Holding, NEW p \in Pythons, gil = p, ~InHook(p), hook' = hook, gil' = gil,
         \A q \in Pythons \ {p} : call'[q] = call[q],
         \/ lock' = lock
         \/ lock \in {Nobody, p} /\ lock' \in {Nobody, p},
         call'[p].at \notin Unlocked <=> lock' = p,
         Held(p)',
         current' # 0 => shim'[current'].alive,
         current' # current => lock \in {Nobody, p},
         Existing'
  PROVE  Holding'
<1>1. Nobody \notin Pythons
  BY ShimAssumption DEF Threads
<1>2. ASSUME NEW q \in Pythons \ {p}
      PROVE  call[q].at \in {"python", "arguments"} /\ ~InHook(q) /\ call'[q] = call[q]
  BY DEF Holding, GilHeld
<1>3. LockHeld'
  BY <1>1 DEF Holding, LockHeld
<1>4. GilHeld'
  BY <1>2 DEF GilHeld, InHook
<1>5. ASSUME NEW q \in Pythons \ {p} PROVE Held(q)'
  <2>1. Held(q)
    BY DEF Holding, StatesHeld
  <2>2. CASE call[q].at = "python"
    BY <1>2, <2>1, <2>2 DEF Held, Unlocked
  <2>3. CASE call[q].at = "arguments"
    <3>1. lock = q
      BY <2>3 DEF Holding, LockHeld, Unlocked
    <3>2. current' = current
      BY <1>1, <3>1
    <3> QED
      BY <1>2, <2>1, <2>3, <3>2 DEF Held, Unlocked
  <2> QED
    BY <1>2, <2>2, <2>3
<1> QED
  BY <1>3, <1>4, <1>5 DEF Holding, StatesHeld

LEMMA HoldingFunctions ==
  ASSUME Types, Holding, ShimTypeOK', CallTypeOK', NEW p \in Pythons,
         \/ \E f \in {"start", "stop", "clear", "query"} : Call(p, f) \/ Return(p, f)
         \/ \E x \in Arguments : Start(p, x)
         \/ Parsed(p) \/ Rejected(p) \/ CallAgain(p) \/ Install(p) \/ Publish(p)
         \/ Stop(p) \/ Restore(p) \/ Disable(p)
         \/ Clear(p) \/ ClearAllocations(p) \/ Drop(p)
  PROVE  Holding'
<1>1. /\ call \in [Pythons -> [at : Places, state : 0..made]]
      /\ current \in 0..made /\ made \in Nat /\ made <= MaxStates /\ MaxStates \in Nat
      /\ shim \in [States -> [alive : BOOLEAN, enabled : BOOLEAN, original : Allocators,
                              sizes : Threads \cup {Nobody}]]
      /\ Nobody \notin Pythons
  BY ShimAssumption DEF Types, CallTypeOK, ShimTypeOK, Threads
<1>2. /\ call[p].at \notin Unlocked <=> lock = p
      /\ current # 0 => shim[current].alive
      /\ Held(p) /\ Existing
  BY DEF Holding, LockHeld, StatesHeld
<1> DEFINE Kept == /\ gil = p /\ ~InHook(p) /\ gil' = gil /\ hook' = hook
                   /\ \A q \in Pythons \ {p} : call'[q] = call[q]
           Good == /\ \/ lock' = lock
                      \/ lock \in {Nobody, p} /\ lock' \in {Nobody, p}
                   /\ call'[p].at \notin Unlocked <=> lock' = p
                   /\ Held(p)'
                   /\ current' # 0 => shim'[current'].alive
                   /\ current' # current => lock \in {Nobody, p}
                   /\ Existing'
<1>3. Kept
  BY <1>1, HookFrame
  DEF Call, Return, Start, Parsed, Rejected, CallAgain, Install, Publish, Stop, Restore, Disable,
      Clear, ClearAllocations, Drop, Go, outside
<1> USE DEF Held, Unlocked, Go, outside
<1>4. ASSUME NEW f \in {"start", "stop", "clear", "query"}, Call(p, f) PROVE Good
  BY <1>1, <1>2, <1>4 DEF Call, Existing
<1>5. ASSUME NEW f \in {"start", "stop", "clear", "query"}, Return(p, f) PROVE Good
  BY <1>1, <1>2, <1>5 DEF Return, Existing
<1>6. ASSUME NEW x \in Arguments, Start(p, x) PROVE Good
  BY <1>1, <1>2, <1>6 DEF Start, Existing
<1>7. CASE Parsed(p) \/ Rejected(p) \/ CallAgain(p)
  <2>1. Good
    BY <1>1, <1>2, <1>7 DEF Parsed, Rejected, CallAgain, Existing
  <2> QED
    BY <1>3, <2>1, HoldingGo
<1>8. CASE Install(p)
  <2> DEFINE g == made + 1
  <2>1. /\ g \in States /\ g # 0 /\ made' = g /\ current = 0 /\ lock = p
        /\ shim' = [shim EXCEPT ![g] = [alive |-> TRUE, enabled |-> TRUE,
                                        original |-> table, sizes |-> Nobody]]
        /\ call' = [call EXCEPT ![p] = [at |-> "publish", state |-> g]]
        /\ UNCHANGED <<lock, current, tool>> /\ table' = g
    BY <1>1, <1>2, <1>8 DEF Install, States
  <2>2. table <= g /\ tool <= g /\ \A h \in States : shim[h].original <= g
    <3>1. table \in Int /\ tool \in Int
      BY <1>1 DEF Types, ShimTypeOK, Allocators, Own, ToolHooks, Off, States
    <3>2. \A h \in States : shim[h].original \in Int
      BY <1>1 DEF Allocators, Own, ToolHooks, States
    <3> QED
      BY <1>1, <1>2, <3>1, <3>2 DEF Existing
  <2>3. Existing'
    BY <1>1, <2>1, <2>2 DEF Existing
  <2> HIDE DEF g
  <2>4. Good
    BY <1>1, <1>2, <2>1, <2>3
  <2> QED
    BY <1>3, <2>4, HoldingGo
<1>9. CASE Publish(p)
  <2> DEFINE g == call[p].state
  <2>1. /\ current = 0 /\ g \in States /\ shim[g].alive /\ lock = p
        /\ shim' = Freed(current) /\ current' = g /\ lock' = Nobody
        /\ call' = [call EXCEPT ![p] = [at |-> "python", state |-> 0]]
        /\ UNCHANGED <<table, tool, made>>
    BY <1>1, <1>2, <1>9 DEF Publish, States
  <2>2. shim' = shim
    BY <1>1, <2>1 DEF Freed, States
  <2> HIDE DEF g
  <2>3. Good
    BY <1>1, <1>2, <2>1, <2>2 DEF Existing
  <2> QED
    BY <1>3, <2>3, HoldingGo
<1>10. CASE Stop(p)
  <2>1. Good
    BY <1>1, <1>2, <1>10 DEF Stop, Existing
  <2> QED
    BY <1>3, <2>1, HoldingGo
<1>11. CASE Restore(p)
  <2>1. call[p].state \in States
    BY <1>1, <1>2, <1>11 DEF Restore, States
  <2>2. Good
    BY <1>1, <1>2, <1>11, <2>1 DEF Restore, Existing
  <2> QED
    BY <1>3, <2>2, HoldingGo
<1>12. CASE Disable(p)
  <2>1. \A h \in States : shim'[h].original = shim[h].original /\ shim'[h].alive = shim[h].alive
    BY <1>1, <1>12 DEF Disable
  <2>2. Good
    BY <1>1, <1>2, <1>12, <2>1 DEF Disable, Existing, States
  <2> QED
    BY <1>3, <2>2, HoldingGo
<1>13. CASE Clear(p) \/ ClearAllocations(p)
  <2>1. Good
    BY <1>1, <1>2, <1>13 DEF Clear, ClearAllocations, Existing
  <2> QED
    BY <1>3, <2>1, HoldingGo
<1>14. CASE Drop(p)
  <2>1. \A h \in States : /\ shim'[h].original = shim[h].original
                          /\ h = current => shim'[h].alive = shim[h].alive
    BY <1>1, <1>14 DEF Drop, Freed
  <2>2. Good
    BY <1>1, <1>2, <1>14, <2>1 DEF Drop, Existing, States
  <2> QED
    BY <1>3, <2>2, HoldingGo
<1> QED
  BY <1>3, <1>4, <1>5, <1>6, <1>7, <1>8, <1>9, <1>10, <1>11, <1>12, <1>13, <1>14, HoldingGo

\* A step that moves no call and frees no state.
LEMMA HoldingFrame ==
  ASSUME Types, Holding, call' = call, lock' = lock, current' = current, made' = made,
         \A g \in States : shim'[g].alive = shim[g].alive /\ shim'[g].original = shim[g].original,
         table' <= made, tool' <= made,
         GilHeld'
  PROVE  Holding'
<1>1. /\ current \in 0..made /\ made \in Nat /\ made <= MaxStates /\ MaxStates \in Nat
      /\ \A p \in Pythons : call[p].state \in 0..made
  BY ShimAssumption DEF Types, ShimTypeOK, CallTypeOK
<1>2. LockHeld'
  BY DEF Holding, LockHeld
<1>3. \A g \in 1..made : shim'[g].alive = shim[g].alive
  BY <1>1 DEF States
<1>4. ASSUME NEW p \in Pythons PROVE Held(p)'
  BY <1>1, <1>3 DEF Holding, StatesHeld, Held
<1>5. current' # 0 => shim'[current'].alive
  BY <1>1, <1>3 DEF Holding, StatesHeld
<1>6. Existing'
  BY DEF Holding, Existing
<1> QED
  BY <1>2, <1>4, <1>5, <1>6 DEF Holding, StatesHeld

LEMMA HoldingStep ==
  ASSUME Types, Holding, ShimTypeOK', CallTypeOK', [Next]_vars
  PROVE  Holding'
<1>1. /\ gil \in Threads \cup {Nobody} /\ Nobody \notin Threads /\ Pythons \subseteq Threads
      /\ Pythons \cap Natives = {}
      /\ made \in Nat
      /\ shim \in [States -> [alive : BOOLEAN, enabled : BOOLEAN, original : Allocators,
                              sizes : Threads \cup {Nobody}]]
      /\ hook \in [Threads -> [state : 0..made, op : DOMAIN Plan, todo : Todos]]
  BY ShimAssumption DEF Types, ShimTypeOK, HookTypeOK, Threads
<1>2. \A q \in Pythons : call[q].at \notin {"python", "arguments"} \/ InHook(q) => gil = q
  BY DEF Holding, GilHeld
<1>3. table <= made /\ tool <= made
  BY DEF Holding, Existing
<1>4. ASSUME NEW p \in Pythons, Switch(p) PROVE Holding'
  <2>1. GilHeld'
    BY <1>1, <1>2, <1>4 DEF Switch, GilHeld, InHook
  <2> QED
    BY <1>3, <1>4, <2>1, HoldingFrame DEF Switch
<1>5. ASSUME NEW p \in Pythons, InstallTool(p) \/ RemoveTool(p) PROVE Holding'
  <2>1. GilHeld'
    BY <1>2, <1>5 DEF InstallTool, RemoveTool, GilHeld, InHook
  <2>2. table' <= made /\ tool' <= made
    BY <1>1, <1>3, <1>5 DEF InstallTool, RemoveTool, ToolHooks, Off
  <2> QED
    BY <1>5, <2>1, <2>2, HoldingFrame DEF InstallTool, RemoveTool
<1>6. ASSUME NEW t \in Threads, NEW o \in DOMAIN Plan, Enter(t, o) PROVE Holding'
  <2>1. t \in Pythons => gil = t
    BY <1>6 DEF Enter, Python
  <2>2. \A q \in Pythons \ {t} : hook'[q] = hook[q]
    BY <1>1, <1>6 DEF Enter
  <2>3. GilHeld'
    BY <1>2, <1>6, <2>1, <2>2 DEF Enter, outside, GilHeld, InHook
  <2> QED
    BY <1>3, <1>6, <2>3, HoldingFrame DEF Enter, outside
<1>7. ASSUME NEW t \in Threads, LockSizes(t) \/ UnlockSizes(t) PROVE Holding'
  <2>1. \A q \in Threads : hook'[q].state = hook[q].state
    <3>1. CASE LockSizes(t)
      BY <3>1 DEF LockSizes
    <3>2. CASE UnlockSizes(t)
      BY <1>1, <3>2 DEF UnlockSizes, Done
    <3> QED
      BY <1>7, <3>1, <3>2
  <2>2. GilHeld'
    BY <1>1, <1>2, <1>7, <2>1 DEF LockSizes, UnlockSizes, outside, GilHeld, InHook
  <2>3. \A g \in States : shim'[g].alive = shim[g].alive /\ shim'[g].original = shim[g].original
    BY <1>1, <1>7 DEF LockSizes, UnlockSizes
  <2> QED
    BY <1>3, <1>7, <2>2, <2>3, HoldingFrame DEF LockSizes, UnlockSizes, outside
<1>8. ASSUME NEW t \in Threads, CheckEnabled(t) \/ AcquireGil(t) \/ Collect(t) PROVE Holding'
  <2>1. \A q \in Threads : hook'[q].state = hook[q].state
    BY <1>1, <1>8 DEF CheckEnabled, AcquireGil, Collect, Done
  <2>2. gil' # gil => gil \notin Pythons
    BY <1>1, <1>8 DEF CheckEnabled, AcquireGil, Collect, outside
  <2>3. GilHeld'
    BY <1>1, <1>2, <1>8, <2>1, <2>2 DEF CheckEnabled, AcquireGil, Collect, outside, GilHeld, InHook
  <2> QED
    BY <1>3, <1>8, <2>3, HoldingFrame DEF CheckEnabled, AcquireGil, Collect, outside
<1>9. ASSUME NEW t \in Threads, Leave(t) PROVE Holding'
  <2>1. \A q \in Threads : hook'[q].state # 0 => hook[q].state # 0
    BY <1>1, <1>9 DEF Leave, NoHook
  <2>2. GilHeld'
    BY <1>1, <1>2, <1>9, <2>1 DEF Leave, outside, GilHeld, InHook
  <2> QED
    BY <1>3, <1>9, <2>2, HoldingFrame DEF Leave, outside
<1>10. ASSUME UNCHANGED vars PROVE Holding'
  <2>1. GilHeld'
    BY <1>2, <1>10 DEF vars, outside, GilHeld, InHook
  <2> QED
    BY <1>3, <1>10, <2>1, HoldingFrame DEF vars, outside
<1> QED
  BY <1>4, <1>5, <1>6, <1>7, <1>8, <1>9, <1>10, HoldingFunctions, StepCases

\* ShimLifecycle.TypeOK, with who holds STATE's lock, the GIL and the states,
\* which it needs: a state that restores allocators has been made.
LEMMA Inductive == Spec => [](Types /\ Holding)
<1>1. Init => Types /\ Holding
  BY InitTypeOK, InitHolding, TypeParts DEF Types
<1>2. Types /\ Holding /\ [Next]_vars => (Types /\ Holding)'
  BY ShimTypes, CallTypes, HookTypes, HoldingStep DEF Types
<1> QED
  BY <1>1, <1>2, PTL DEF Spec

\* Every variable keeps its type: lock and GIL have one owner, no allocator
\* and no hook is of a state that has not been made (stop() and Drop in
\* lib.rs never come with the state 0).
THEOREM ShimTypeOKAlways == Spec => []TypeOK
<1>1. Types => TypeOK
  BY TypeParts DEF Types
<1> QED
  BY <1>1, Inductive, PTL

-----------------------------------------------------------------------------
(* Who holds the map of sizes.                                              *)

\* Whoever has locked a map is a hook of its state that is about to unlock it.
SizesHeld ==
  \A g \in States, h \in Threads :
    shim[g].sizes = h =>
      hook[h].state = g /\ hook[h].todo # <<>> /\ Head(hook[h].todo) = "sizes"

LEMMA InitSizesHeld == Init => SizesHeld
BY ShimAssumption DEF Init, SizesHeld

\* The functions unlock no map, and what they make is unlocked.
LEMMA SizesOfFunctions ==
  ASSUME Types, Holding, NEW p \in Pythons,
         \/ Switch(p) \/ InstallTool(p) \/ RemoveTool(p)
         \/ \E f \in {"start", "stop", "clear", "query"} : Call(p, f) \/ Return(p, f)
         \/ \E x \in Arguments : Start(p, x)
         \/ Parsed(p) \/ Rejected(p) \/ CallAgain(p) \/ Install(p) \/ Publish(p)
         \/ Stop(p) \/ Restore(p) \/ Disable(p)
         \/ Clear(p) \/ ClearAllocations(p) \/ Drop(p)
  PROVE  \A g \in States : shim'[g].sizes \in {shim[g].sizes, Nobody}
<1>1. shim \in [States -> [alive : BOOLEAN, enabled : BOOLEAN, original : Allocators,
                          sizes : Threads \cup {Nobody}]]
  BY DEF Types, ShimTypeOK
<1>2. CASE Install(p)
  BY <1>1, <1>2 DEF Install
<1>3. CASE Publish(p) \/ Drop(p)
  BY <1>1, <1>3 DEF Publish, Drop, Freed
<1>4. CASE Disable(p)
  BY <1>1, <1>4 DEF Disable
<1>5. ASSUME ~(Install(p) \/ Publish(p) \/ Drop(p) \/ Disable(p)) PROVE shim' = shim
  BY <1>5 DEF Switch, InstallTool, RemoveTool, Call, Return, Start, Parsed, Rejected, CallAgain,
              Stop, Restore, Clear, ClearAllocations
<1> QED
  BY <1>2, <1>3, <1>4, <1>5

LEMMA SizesHeldStep ==
  ASSUME Types, Holding, SizesHeld, [Next]_vars
  PROVE  SizesHeld'
<1>1. /\ Nobody \notin Threads
      /\ shim \in [States -> [alive : BOOLEAN, enabled : BOOLEAN, original : Allocators,
                              sizes : Threads \cup {Nobody}]]
      /\ hook \in [Threads -> [state : 0..made, op : DOMAIN Plan, todo : Todos]]
      /\ 0 \notin States
  BY ShimAssumption DEF Types, ShimTypeOK, HookTypeOK, States
<1>2. ASSUME hook' = hook, \A g \in States : shim'[g].sizes \in {shim[g].sizes, Nobody}
      PROVE  SizesHeld'
  BY <1>1, <1>2 DEF SizesHeld
\* The other threads' hooks stand where they stood.
<1>3. ASSUME NEW t \in Threads, shim' = shim,
             \A h \in Threads \ {t} : hook'[h] = hook[h],
             \A g \in States : shim[g].sizes # t
      PROVE  SizesHeld'
  BY <1>1, <1>3 DEF SizesHeld
<1>4. ASSUME NEW t \in Threads, NEW o \in DOMAIN Plan, Enter(t, o) PROVE SizesHeld'
  <2>1. hook[t].state = 0 /\ shim' = shim
    BY <1>4 DEF Enter, InHook
  <2>2. \A h \in Threads \ {t} : hook'[h] = hook[h]
    BY <1>1, <1>4 DEF Enter
  <2>3. \A g \in States : shim[g].sizes # t
    BY <1>1, <2>1 DEF SizesHeld
  <2> QED
    BY <1>3, <2>1, <2>2, <2>3
<1>5. ASSUME NEW t \in Threads, LockSizes(t) PROVE SizesHeld'
  <2>1. /\ shim' = [shim EXCEPT ![hook[t].state].sizes = t] /\ hook' = hook
        /\ hook[t].todo # <<>> /\ Head(hook[t].todo) = "sizes"
    BY <1>5 DEF LockSizes, At
  <2> QED
    BY <1>1, <2>1 DEF SizesHeld
<1>6. ASSUME NEW t \in Threads, UnlockSizes(t) PROVE SizesHeld'
  <2>1. /\ shim' = [shim EXCEPT ![hook[t].state].sizes = Nobody] /\ shim[hook[t].state].sizes = t
    BY <1>6 DEF UnlockSizes
  <2>2. \A h \in Threads \ {t} : hook'[h] = hook[h]
    BY <1>1, <1>6 DEF UnlockSizes, Done
  <2>3. \A g \in States : shim'[g].sizes # t
    BY <1>1, <2>1 DEF SizesHeld
  <2>4. \A g \in States : shim'[g].sizes \in {shim[g].sizes, Nobody}
    BY <1>1, <2>1
  <2> QED
    BY <1>1, <2>2, <2>3, <2>4 DEF SizesHeld
<1>7. ASSUME NEW t \in Threads, CheckEnabled(t) \/ Collect(t) \/ Leave(t) PROVE SizesHeld'
  <2>1. hook[t].todo = <<>> \/ Head(hook[t].todo) \in {"frames", "gil"}
    BY <1>7 DEF CheckEnabled, Collect, Leave, At
  <2>2. \A h \in Threads \ {t} : hook'[h] = hook[h]
    BY <1>1, <1>7 DEF CheckEnabled, Collect, Leave, Done
  <2>3. \A g \in States : shim[g].sizes # t
    BY <2>1 DEF SizesHeld
  <2>4. shim' = shim
    BY <1>7 DEF CheckEnabled, Collect, Leave
  <2> QED
    BY <1>3, <2>2, <2>3, <2>4
<1>8. ASSUME NEW t \in Threads, AcquireGil(t) PROVE SizesHeld'
  BY <1>1, <1>2, <1>8 DEF AcquireGil
<1>9. CASE UNCHANGED vars
  BY <1>2, <1>9 DEF vars
<1> QED
  BY <1>2, <1>4, <1>5, <1>6, <1>7, <1>8, <1>9, HookFrame, SizesOfFunctions, StepCases

\* No function is called from inside a hook.
HooksBetween == \A p \in Pythons : InHook(p) => call[p].at \in {"python", "arguments"}

LEMMA HooksBetweenStep ==
  ASSUME Types, HooksBetween, [Next]_vars
  PROVE  HooksBetween'
<1>1. /\ hook \in [Threads -> [state : 0..made, op : DOMAIN Plan, todo : Todos]]
      /\ call \in [Pythons -> [at : Places, state : 0..made]]
      /\ Pythons \subseteq Threads
  BY DEF Types, HookTypeOK, CallTypeOK, Threads
<1>2. ASSUME NEW p \in Pythons, Switch(p) \/ InstallTool(p) \/ RemoveTool(p)
      PROVE  HooksBetween'
  BY <1>2 DEF Switch, InstallTool, RemoveTool, HooksBetween, InHook
<1>3. ASSUME NEW p \in Pythons,
             \/ \E f \in {"start", "stop", "clear", "query"} : Call(p, f) \/ Return(p, f)
             \/ \E x \in Arguments : Start(p, x)
             \/ Parsed(p) \/ Rejected(p) \/ CallAgain(p) \/ Install(p) \/ Publish(p)
             \/ Stop(p) \/ Restore(p) \/ Disable(p)
             \/ Clear(p) \/ ClearAllocations(p) \/ Drop(p)
      PROVE  HooksBetween'
  <2>1. hook' = hook
    BY <1>3, HookFrame
  <2>2. ~InHook(p) /\ \A q \in Pythons \ {p} : call'[q] = call[q]
    BY <1>1, <1>3
    DEF Call, Return, Start, Parsed, Rejected, CallAgain, Install, Publish, Stop, Restore,
        Disable, Clear, ClearAllocations, Drop, Go
  <2> QED
    BY <2>1, <2>2 DEF HooksBetween, InHook
<1>4. ASSUME NEW t \in Threads, NEW o \in DOMAIN Plan, Enter(t, o) PROVE HooksBetween'
  <2>1. \A q \in Pythons \ {t} : hook'[q] = hook[q]
    BY <1>1, <1>4 DEF Enter
  <2>2. call' = call /\ (t \in Pythons => call[t].at \in {"python", "arguments"})
    BY <1>4 DEF Enter, Python
  <2> QED
    BY <2>1, <2>2 DEF HooksBetween, InHook
<1>5. ASSUME NEW t \in Threads,
             \/ LockSizes(t) \/ UnlockSizes(t) \/ CheckEnabled(t)
             \/ AcquireGil(t) \/ Collect(t) \/ Leave(t)
      PROVE  HooksBetween'
  <2>1. call' = call
    BY <1>5 DEF LockSizes, UnlockSizes, CheckEnabled, AcquireGil, Collect, Leave
  <2>2. \A q \in Threads : hook'[q].state # 0 => hook[q].state # 0
    <3>1. CASE LockSizes(t) \/ AcquireGil(t)
      BY <3>1 DEF LockSizes, AcquireGil
    <3>2. CASE UnlockSizes(t)
      <4>1. \A q \in Threads : hook'[q].state = hook[q].state
        BY <1>1, <3>2 DEF UnlockSizes, Done
      <4> QED
        BY <4>1
    <3>3. CASE CheckEnabled(t)
      <4>1. \A q \in Threads : hook'[q].state = hook[q].state
        BY <1>1, <3>3 DEF CheckEnabled
      <4> QED
        BY <4>1
    <3>5. CASE Collect(t)
      <4>1. \A q \in Threads : hook'[q].state = hook[q].state
        BY <1>1, <3>5 DEF Collect, Done
      <4> QED
        BY <4>1
    <3>4. CASE Leave(t)
      BY <1>1, <3>4 DEF Leave, NoHook
    <3> QED
      BY <1>5, <3>1, <3>2, <3>3, <3>4, <3>5
  <2> QED
    BY <1>1, <2>1, <2>2 DEF HooksBetween, InHook
<1>6. CASE UNCHANGED vars
  BY <1>6 DEF vars, HooksBetween, InHook
<1> QED
  BY <1>2, <1>3, <1>4, <1>5, <1>6, StepCases

\* A thread with the GIL waits for another, or for itself, only while start()
\* runs the code of its arguments (lib.rs:145-146), or while a thread without
\* the GIL uses the map of sizes, and then that one is past the GIL (lib.rs
\* takes no GIL under the map's lock).
THEOREM OnlyArgumentsBlockAlways == Spec => []OnlyArgumentsBlock
<1>1. Types /\ Holding /\ SizesHeld /\ HooksBetween => OnlyArgumentsBlock
  <2> SUFFICES ASSUME Types, Holding, SizesHeld, HooksBetween,
                      NEW p \in Pythons, NEW h \in Threads, gil = p, WaitsFor(p, h)
               PROVE  IF h \in Pythons THEN call[h].at \in {"arguments", "again"}
                      ELSE ~At(h, "gil")
    BY DEF OnlyArgumentsBlock
  <2>1. /\ 0 \notin States /\ \A n \in 1..made : n \in States
        /\ made \in Nat /\ lock \in Pythons \cup {Nobody} /\ Nobody \notin Threads
        /\ \A q \in Pythons : call[q].state \in 0..made
        /\ Pythons \subseteq Threads
        /\ \A t \in Threads : hook[t].state \in 0..made
    BY ShimAssumption DEF Types, ShimTypeOK, CallTypeOK, HookTypeOK, States, Threads
  <2>2. CASE lock = h /\ call[p].at \in {"start", "stop", "clear", "query", "again"}
    <3>1. h \in Pythons /\ call[h].at \notin Unlocked
      BY <2>1, <2>2 DEF Holding, LockHeld
    <3>2. call[h].at \in {"python", "arguments"} \/ h = p
      BY <3>1 DEF Holding, GilHeld
    <3> QED
      BY <2>2, <3>1, <3>2 DEF Unlocked
  <2>3. ASSUME NEW g \in States, shim[g].sizes = h,
               h # p \/ call[p].at \notin {"python", "arguments"}
        PROVE  h \notin Pythons /\ ~At(h, "gil")
    <3>1. hook[h].state = g /\ Head(hook[h].todo) = "sizes"
      BY <2>3 DEF SizesHeld
    <3>2. InHook(h)
      BY <2>1, <3>1 DEF InHook
    <3>3. h \notin Pythons
      BY <2>3, <3>2 DEF Holding, GilHeld, HooksBetween
    <3> QED
      BY <3>1, <3>3 DEF At
  <2>4. CASE call[p].at = "sizes" /\ shim[call[p].state].sizes = h
    <3>1. call[p].state \in States
      BY <2>1, <2>4 DEF Holding, StatesHeld, Held
    <3> QED
      BY <2>3, <2>4, <3>1
  <2>5. CASE At(p, "sizes") /\ shim[hook[p].state].sizes = h /\ h # p
    <3>1. hook[p].state \in States
      BY <2>1, <2>5 DEF At, InHook
    <3> QED
      BY <2>3, <2>5, <3>1
  <2> QED
    BY <2>2, <2>4, <2>5 DEF WaitsFor
<1>2. SizesHeld /\ HooksBetween /\ Types /\ Holding /\ [Next]_vars
        => SizesHeld' /\ HooksBetween'
  BY SizesHeldStep, HooksBetweenStep
<1>3. Init => HooksBetween
  BY DEF Init, HooksBetween, InHook, NoHook, Threads
<1> QED
  BY <1>1, <1>2, <1>3, InitSizesHeld, Inductive, PTL DEF Spec

-----------------------------------------------------------------------------
(* The allocators that were saved, while shim and tool go off in turn.      *)

\* The state whose hooks are in, wherever: it is in STATE, or in the hands of
\* the start() or stop() that has STATE's lock.
Handling == lock # Nobody /\ call[lock].at \in {"publish", "restore"}

Installed == IF Handling THEN call[lock].state ELSE current

\* What is installed calls what was installed before it, down to CPython's own.
Stack(g) ==
  IF g = 0 THEN
    \/ tool = Off /\ table = Own
    \/ tool = Own /\ table = ToolHooks
  ELSE
    \/ tool = Off /\ table = g /\ shim[g].original = Own
    \/ tool = Own /\ table = g /\ shim[g].original = ToolHooks
    \/ tool = g /\ table = ToolHooks /\ shim[g].original = Own

Stacked == ~crossed => Stack(Installed)

HooksAlive == ~crossed => \A p \in Pythons : InHook(p) => shim[hook[p].state].alive

LEMMA InitStacked == Init => Stacked /\ HooksAlive
<1> SUFFICES ASSUME Init PROVE Stacked /\ HooksAlive
  OBVIOUS
<1>1. Installed = 0
  BY DEF Init, Installed, Handling
<1>2. \A p \in Pythons : ~InHook(p)
  BY DEF Init, InHook, NoHook, Threads
<1> QED
  BY <1>1, <1>2 DEF Stacked, Stack, HooksAlive, Init

\* Where a thread is says which state is installed.
LEMMA InstalledBy ==
  ASSUME Holding, Types
  PROVE  /\ Installed \in 0..made
         /\ Installed # 0 => Installed \in States /\ shim[Installed].alive
         /\ \A p \in Pythons :
              /\ call[p].at \in {"publish", "restore"} =>
                   Installed = call[p].state /\ lock = p /\ current = 0
              /\ lock = p /\ call[p].at \notin {"publish", "restore"} => Installed = current
         /\ lock = Nobody => Installed = current
<1>1. /\ current \in 0..made /\ made \in 0..MaxStates /\ MaxStates \in Nat
      /\ \A p \in Pythons : call[p].state \in 0..made
      /\ lock \in Pythons \cup {Nobody} /\ Nobody \notin Pythons
  BY ShimAssumption DEF Types, ShimTypeOK, CallTypeOK, Threads
<1>2. ASSUME NEW p \in Pythons, call[p].at \in {"publish", "restore"}
      PROVE  /\ lock = p /\ Installed = call[p].state /\ current = 0
             /\ shim[Installed].alive
  <2>1. lock = p
    BY <1>2 DEF Holding, LockHeld, Unlocked
  <2> QED
    BY <1>1, <1>2, <2>1 DEF Installed, Handling, Holding, StatesHeld, Held
<1>3. ~Handling => Installed = current /\ (current # 0 => shim[Installed].alive)
  BY DEF Installed, Holding, StatesHeld
<1>4. Handling => \E p \in Pythons : call[p].at \in {"publish", "restore"}
  BY <1>1 DEF Handling
<1>5. Installed \in 0..made /\ (Installed # 0 => shim[Installed].alive)
  BY <1>1, <1>2, <1>3, <1>4
<1>6. Installed # 0 => Installed \in States
  BY <1>1, <1>5 DEF States
<1> QED
  BY <1>1, <1>2, <1>3, <1>5, <1>6 DEF Handling

LEMMA HookedIsInstalled ==
  ASSUME Types, Holding, Stacked, ~crossed
  PROVE  /\ Hooked = Installed
         /\ Installed = 0 => table = IF tool = Off THEN Own ELSE ToolHooks
<1>1. Own \notin States /\ ToolHooks \notin States /\ Off \notin States
  BY DEF States, Own, ToolHooks, Off
<1>2. Installed # 0 => Installed \in States
  BY InstalledBy
<1> QED
  BY <1>1, <1>2 DEF Stacked, Stack, Hooked, Own, ToolHooks, Off

LEMMA StackedStep ==
  ASSUME Types, Holding, Stacked, Types', Holding', [Next]_vars
  PROVE  Stacked'
<1>1. /\ shim \in [States -> [alive : BOOLEAN, enabled : BOOLEAN, original : Allocators,
                              sizes : Threads \cup {Nobody}]]
      /\ call \in [Pythons -> [at : Places, state : 0..made]]
      /\ made \in Nat /\ made <= MaxStates /\ MaxStates \in Nat
      /\ Nobody \notin Pythons
  BY ShimAssumption DEF Types, ShimTypeOK, CallTypeOK, Threads
<1>2. /\ Installed \in 0..made
      /\ Installed # 0 => Installed \in States
  BY InstalledBy
\* Most steps leave the allocators and the state that is in as they are.
<1>3. ASSUME Installed' = Installed, UNCHANGED <<table, tool, crossed>>,
             \A g \in States : shim'[g].original = shim[g].original
      PROVE  Stacked'
  BY <1>2, <1>3 DEF Stacked, Stack
<1>4. ASSUME UNCHANGED <<lock, call, current>> PROVE Installed' = Installed
  BY <1>4 DEF Installed, Handling
<1>5. ASSUME NEW p \in Pythons, InstallTool(p) \/ RemoveTool(p) PROVE Stacked'
  <2>1. Installed' = Installed /\ shim' = shim
    BY <1>4, <1>5 DEF InstallTool, RemoveTool
  <2>2. Installed # ToolHooks /\ Installed # Off
    BY <1>1, <1>2 DEF ToolHooks, Off
  <2>3. CASE InstallTool(p)
    BY <2>1, <2>2, <2>3 DEF InstallTool, Stacked, Stack, Own, Off
  <2>4. CASE RemoveTool(p)
    BY <2>1, <2>2, <2>4 DEF RemoveTool, Stacked, Stack, Own, Off
  <2> QED
    BY <1>5, <2>3, <2>4
<1>6. ASSUME NEW p \in Pythons, Install(p) PROVE Stacked'
  <2> DEFINE n == made + 1
  <2>1. Installed = 0
    BY <1>6, InstalledBy DEF Install, Go, Holding, LockHeld, StatesHeld, Held, Unlocked
  <2>2. /\ n \in States /\ n # 0 /\ shim'[n].original = table /\ call'[p].at = "publish"
        /\ call'[p].state = n /\ table' = n /\ tool' = tool /\ crossed' = crossed
    BY <1>1, <1>6 DEF Install, Go, States
  <2>3. Installed' = n
    <3>1. lock = p /\ lock' = lock
      BY <1>6 DEF Install, Go, Holding, LockHeld, Unlocked
    <3> QED
      BY <1>1, <2>2, <3>1 DEF Installed, Handling
  <2> HIDE DEF n
  <2> QED
    BY <2>1, <2>2, <2>3 DEF Stacked, Stack
<1>7. ASSUME NEW p \in Pythons, Restore(p) PROVE Stacked'
  <2> DEFINE g == call[p].state
  <2>1. Installed = g /\ lock = p /\ current = 0 /\ g # 0
    BY <1>7, InstalledBy DEF Restore, Go, Holding, StatesHeld, Held
  <2>2. /\ table' = shim[g].original /\ crossed' = (crossed \/ table # g) /\ tool' = tool
        /\ call'[p].at = "disable"
    BY <1>1, <1>7 DEF Restore, Go
  <2>3. Installed' = 0
    BY <1>7, <2>1, <2>2 DEF Restore, Installed, Handling
  <2>4. g # ToolHooks
    BY <1>1 DEF ToolHooks
  <2> HIDE DEF g
  <2> QED
    BY <2>1, <2>2, <2>3, <2>4 DEF Stacked, Stack
<1>8. ASSUME NEW p \in Pythons, Switch(p) PROVE Stacked'
  BY <1>3, <1>4, <1>8 DEF Switch
<1>9. ASSUME NEW p \in Pythons, NEW f \in {"start", "stop", "clear", "query"},
             Call(p, f) \/ Return(p, f)
      PROVE  Stacked'
  <2>1. lock # p
    BY <1>9 DEF Call, Return, Go, Holding, LockHeld, Unlocked
  <2>2. lock \in Pythons \cup {Nobody}
    BY DEF Types, ShimTypeOK
  <2>3. /\ lock' = lock /\ current' = current
        /\ \A q \in Pythons \ {p} : call'[q] = call[q]
    BY <1>1, <1>9 DEF Call, Return, Go
  <2>4. Installed' = Installed
    BY <2>1, <2>2, <2>3 DEF Installed, Handling
  <2> QED
    BY <1>3, <1>9, <2>4 DEF Call, Return, outside
<1>10. ASSUME NEW p \in Pythons,
              \/ \E x \in Arguments : Start(p, x)
              \/ Parsed(p) \/ Rejected(p) \/ CallAgain(p) \/ Disable(p)
              \/ Clear(p) \/ ClearAllocations(p) \/ Drop(p)
       PROVE  Stacked'
  <2>1. /\ gil = p /\ call[p].at \notin {"publish", "restore"}
        /\ lock \in {p, Nobody} /\ lock' \in {p, Nobody}
        /\ call'[p].at \notin {"publish", "restore"}
    <3>1. \E at \in {"arguments", "again", "install", "python", "sizes", "drop"},
            g \in {0, current, call[p].state} :
            call' = [call EXCEPT ![p] = [at |-> at, state |-> g]]
      BY <1>10 DEF Start, Parsed, Rejected, CallAgain, Disable, Clear, ClearAllocations, Drop, Go
    <3>2. gil = p /\ call[p].at \in {"start", "arguments", "disable", "clear", "sizes", "drop"}
      BY <1>10 DEF Start, Parsed, Rejected, CallAgain, Disable, Clear, ClearAllocations, Drop, Go
    <3>3. lock \in {p, Nobody} /\ lock' \in {p, lock, Nobody}
      BY <1>10 DEF Start, Parsed, Rejected, CallAgain, Disable, Clear, ClearAllocations, Drop, Go,
                   Holding, LockHeld, Unlocked
    <3> QED
      BY <1>1, <3>1, <3>2, <3>3
  <2>2. current' = current /\ UNCHANGED <<table, tool, crossed>>
    BY <1>10 DEF Start, Parsed, Rejected, CallAgain, Disable, Clear, ClearAllocations, Drop, outside
  <2>3. Installed = current /\ Installed' = current'
    BY <2>1 DEF Installed, Handling
  <2>4. \A g \in States : shim'[g].original = shim[g].original
    BY <1>1, <1>10 DEF Start, Parsed, Rejected, CallAgain, Disable, Clear, ClearAllocations, Drop, Freed
  <2> QED
    BY <1>3, <2>2, <2>3, <2>4
<1>11. ASSUME NEW p \in Pythons, Publish(p) \/ Stop(p) PROVE Stacked'
  <2>1. Installed' = Installed
    <3>1. CASE Publish(p)
      BY <3>1, InstalledBy DEF Publish, Go, Installed, Handling
    <3>2. CASE Stop(p)
      BY <1>1, <3>2, InstalledBy DEF Stop, Go, Installed, Handling
    <3> QED
      BY <1>11, <3>1, <3>2
  <2>2. \A g \in States : shim'[g].original = shim[g].original
    BY <1>1, <1>11 DEF Publish, Stop, Freed
  <2> QED
    BY <1>3, <1>11, <2>1, <2>2 DEF Publish, Stop, outside
<1>12. ASSUME NEW t \in Threads,
              \/ \E o \in DOMAIN Plan : Enter(t, o)
              \/ LockSizes(t) \/ UnlockSizes(t) \/ CheckEnabled(t)
              \/ AcquireGil(t) \/ Collect(t) \/ Leave(t)
       PROVE  Stacked'
  <2>1. \A g \in States : shim'[g].original = shim[g].original
    BY <1>1, <1>12 DEF Enter, LockSizes, UnlockSizes, CheckEnabled, AcquireGil, Collect, Leave
  <2>2. UNCHANGED <<lock, call, current, table, tool, crossed>>
    BY <1>12 DEF Enter, LockSizes, UnlockSizes, CheckEnabled, AcquireGil, Collect, Leave, outside
  <2> QED
    BY <1>3, <1>4, <2>1, <2>2
<1>13. CASE UNCHANGED vars
  BY <1>3, <1>4, <1>13 DEF vars, outside
<1> QED
  BY <1>5, <1>6, <1>7, <1>8, <1>9, <1>10, <1>11, <1>12, <1>13, StepCases

\* A state is dropped by a thread that has the GIL and runs no hook, so no
\* other thread with the GIL runs one.
LEMMA HooksAliveStep ==
  ASSUME Types, Holding, Stacked, HooksAlive, [Next]_vars
  PROVE  HooksAlive'
<1>1. /\ shim \in [States -> [alive : BOOLEAN, enabled : BOOLEAN, original : Allocators,
                              sizes : Threads \cup {Nobody}]]
      /\ hook \in [Threads -> [state : 0..made, op : DOMAIN Plan, todo : Todos]]
      /\ made \in Nat /\ made <= MaxStates /\ MaxStates \in Nat
      /\ \A g \in 1..made : g \in States
      /\ Pythons \subseteq Threads
  BY ShimAssumption DEF Types, ShimTypeOK, HookTypeOK, Threads, States
<1>2. ASSUME NEW p \in Pythons, gil = p, ~InHook(p), hook' = hook PROVE HooksAlive'
  <2>1. \A q \in Pythons : ~InHook(q)
    BY <1>2 DEF Holding, GilHeld
  <2> QED
    BY <1>2, <2>1 DEF HooksAlive, InHook
<1>3. ASSUME hook' = hook, shim' = shim, crossed' = crossed PROVE HooksAlive'
  BY <1>3 DEF HooksAlive, InHook
<1>4. ASSUME NEW t \in Threads, NEW o \in DOMAIN Plan, Enter(t, o) PROVE HooksAlive'
  <2>1. ~crossed => shim[Hooked].alive
    BY <1>4, HookedIsInstalled, InstalledBy DEF Enter
  <2>2. /\ hook'[t].state = Hooked /\ shim' = shim /\ crossed' = crossed
        /\ \A q \in Threads \ {t} : hook'[q] = hook[q]
    BY <1>1, <1>4 DEF Enter, outside
  <2> QED
    BY <1>1, <2>1, <2>2 DEF HooksAlive, InHook
<1>5. ASSUME NEW t \in Threads,
             \/ LockSizes(t) \/ UnlockSizes(t) \/ CheckEnabled(t)
             \/ AcquireGil(t) \/ Collect(t) \/ Leave(t)
      PROVE  HooksAlive'
  <2>1. \A q \in Threads : hook'[q].state \in {hook[q].state, 0}
    <3>1. CASE LockSizes(t) \/ AcquireGil(t)
      BY <3>1 DEF LockSizes, AcquireGil
    <3>2. CASE UnlockSizes(t) \/ Collect(t)
      <4>1. hook' = [hook EXCEPT ![t].todo = Tail(hook[t].todo)]
        BY <3>2 DEF UnlockSizes, Collect, Done
      <4> QED
        BY <1>1, <4>1
    <3>3. CASE CheckEnabled(t)
      BY <1>1, <3>3 DEF CheckEnabled
    <3>4. CASE Leave(t)
      BY <1>1, <3>4 DEF Leave, NoHook
    <3> QED
      BY <1>5, <3>1, <3>2, <3>3, <3>4
  <2>2. \A g \in States : shim'[g].alive = shim[g].alive
    BY <1>1, <1>5 DEF LockSizes, UnlockSizes, CheckEnabled, AcquireGil, Collect, Leave
  <2>3. crossed' = crossed
    BY <1>5 DEF LockSizes, UnlockSizes, CheckEnabled, AcquireGil, Collect, Leave, outside
  <2>4. \A q \in Threads : hook[q].state # 0 => hook[q].state \in States
    BY <1>1
  <2> QED
    BY <1>1, <2>1, <2>2, <2>3, <2>4 DEF HooksAlive, InHook
<1>6. ASSUME NEW p \in Pythons, Switch(p) PROVE HooksAlive'
  BY <1>3, <1>6 DEF Switch
<1>7. ASSUME NEW p \in Pythons,
             \/ InstallTool(p) \/ RemoveTool(p)
             \/ \E f \in {"start", "stop", "clear", "query"} : Call(p, f) \/ Return(p, f)
             \/ \E x \in Arguments : Start(p, x)
             \/ Parsed(p) \/ Rejected(p) \/ CallAgain(p) \/ Install(p) \/ Publish(p)
             \/ Stop(p) \/ Restore(p) \/ Disable(p)
             \/ Clear(p) \/ ClearAllocations(p) \/ Drop(p)
      PROVE  HooksAlive'
  <2>1. gil = p /\ ~InHook(p)
    BY <1>7 DEF InstallTool, RemoveTool, Python, Call, Return, Start, Parsed, Rejected, CallAgain,
       Install, Publish, Stop, Restore, Disable, Clear, ClearAllocations, Drop, Go
  <2> QED
    BY <1>2, <1>7, <2>1, HookFrame
<1>8. CASE UNCHANGED vars
  BY <1>3, <1>8 DEF vars, outside
<1> QED
  BY <1>4, <1>5, <1>6, <1>7, <1>8, StepCases

LEMMA StackedAlways == Spec => [](Stacked /\ HooksAlive)
<1>1. /\ Types /\ Holding /\ (Types /\ Holding)' /\ Stacked /\ HooksAlive /\ [Next]_vars
      => (Stacked /\ HooksAlive)'
  BY StackedStep, HooksAliveStep
<1> QED
  BY <1>1, InitStacked, Inductive, PTL DEF Spec

\* While shim and tool are taken off in turn, CPython never calls the hooks of
\* a state that stop() has dropped, and no thread with the GIL is in them.
THEOREM HookedIsAliveAlways == Spec => []HookedIsAlive
<1>1. Types /\ Holding /\ Stacked /\ HooksAlive => HookedIsAlive
  BY HookedIsInstalled, InstalledBy DEF HookedIsAlive, HooksAlive
<1> QED
  BY <1>1, Inductive, StackedAlways, PTL

\* Between calls the hooks are those of the state in STATE, and after stop()
\* the allocators are what start() found.
THEOREM HooksMatchStateAlways == Spec => []HooksMatchState
<1>1. Types /\ Holding /\ Stacked /\ ~Changing => Installed = current
  <2> SUFFICES ASSUME Types, Holding, Handling PROVE Changing
    BY DEF Installed
  <2>1. lock \in Pythons
    BY DEF Handling, Types, ShimTypeOK
  <2> QED
    BY <2>1 DEF Handling, Changing, Holding, StatesHeld, Held
<1>2. Types /\ Holding /\ Stacked => HooksMatchState
  BY <1>1, HookedIsInstalled DEF HooksMatchState
<1> QED
  BY <1>2, Inductive, StackedAlways, PTL

-----------------------------------------------------------------------------
(* What `HooksHaveState` needs.                                             *)

\* Without another tool nothing crosses the shim.
Alone == ~HasTool => tool = Off /\ ~crossed

LEMMA AloneStep ==
  ASSUME Types, Holding, Stacked, Alone, [Next]_vars
  PROVE  Alone'
<1> SUFFICES ASSUME ~HasTool PROVE tool' = Off /\ ~crossed'
  BY DEF Alone
<1>1. tool = Off /\ ~crossed
  BY DEF Alone
<1>2. ASSUME NEW p \in Pythons, Restore(p) PROVE tool' = Off /\ ~crossed'
  <2>1. Installed = call[p].state /\ Installed \in 0..made /\ made \in Nat
    BY <1>2, InstalledBy, ShimAssumption DEF Restore, Go, Types, ShimTypeOK
  <2>2. table = Installed
    <3>1. Stack(Installed) /\ tool = -2 /\ tool # Installed
      BY <1>1, <2>1 DEF Stacked, Off
    <3> QED
      BY <3>1 DEF Stack, Own
  <2> QED
    BY <1>1, <1>2, <2>1, <2>2 DEF Restore
<1>3. ASSUME NEW p \in Pythons, InstallTool(p) \/ RemoveTool(p) PROVE FALSE
  BY <1>1, <1>3 DEF InstallTool, RemoveTool
<1>4. ASSUME NEW p \in Pythons,
             \/ Switch(p)
             \/ \E f \in {"start", "stop", "clear", "query"} : Call(p, f) \/ Return(p, f)
             \/ \E x \in Arguments : Start(p, x)
             \/ Parsed(p) \/ Rejected(p) \/ CallAgain(p) \/ Install(p) \/ Publish(p)
             \/ Stop(p) \/ Disable(p) \/ Clear(p) \/ ClearAllocations(p) \/ Drop(p)
      PROVE  tool' = Off /\ ~crossed'
  BY <1>1, <1>4 DEF Switch, Call, Return, Start, Parsed, Rejected, CallAgain, Install, Publish,
     Stop, Disable, Clear, ClearAllocations, Drop, outside
<1>5. ASSUME NEW t \in Threads,
             \/ \E op \in DOMAIN Plan : Enter(t, op)
             \/ LockSizes(t) \/ UnlockSizes(t) \/ CheckEnabled(t)
             \/ AcquireGil(t) \/ Collect(t) \/ Leave(t)
      PROVE  tool' = Off /\ ~crossed'
  BY <1>1, <1>5 DEF Enter, LockSizes, UnlockSizes, CheckEnabled, AcquireGil, Collect, Leave,
     outside
<1>6. CASE UNCHANGED vars
  BY <1>1, <1>6 DEF vars, outside
<1> QED
  BY <1>2, <1>3, <1>4, <1>5, <1>6, StepCases

\* A hook under way loses its state only to another tool or in a thread without
\* the GIL: where there is neither, what the documentation says of shutdown is
\* true (stop and the hooks of py/src/lib.rs).
THEOREM HooksHaveStateWithGil == Spec => [](Natives = {} /\ ~HasTool => HooksHaveState)
<1>1. Init => Alone
  BY DEF Init, Alone
<1>2. Types /\ Holding /\ Stacked /\ Alone /\ [Next]_vars => Alone'
  BY AloneStep
<1>3. Alone /\ HookedIsAlive => (Natives = {} /\ ~HasTool => HooksHaveState)
  BY DEF Alone, HookedIsAlive, HooksHaveState, Threads
<1> QED
  BY <1>1, <1>2, <1>3, Inductive, StackedAlways, HookedIsAliveAlways, PTL DEF Spec
=============================================================================
