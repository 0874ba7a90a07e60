--------------------------- MODULE ShimLifecycle ---------------------------
(****************************************************************************)
(* start(), stop() and the other functions of the Python module             *)
(* (py/src/lib.rs) against the allocator hooks of threads that hold the     *)
(* interpreter's lock (the GIL) and of threads that do not: the latter may  *)
(* allocate in CPython's raw domain at any time, and need the GIL to        *)
(* collect frames.  The functions keep the GIL, also while they wait for    *)
(* STATE or for the map of sizes.                                           *)
(*                                                                          *)
(* External: the GIL, CPython's allocators and another tool, such as the    *)
(* standard library's tracemalloc, which saves and replaces them as the     *)
(* shim does.  The three domains are installed and restored together, under *)
(* the GIL, and stand here as one.  A hook runs no Python code (a garbage   *)
(* collection might).  What a hook does with a state that has been freed is *)
(* undefined; here it goes no further.                                      *)
(****************************************************************************)
EXTENDS Integers, Sequences

CONSTANTS
  Pythons,   \* threads of the interpreter
  Natives,   \* threads that allocate without the GIL
  Nobody,    \* no thread
  Arguments, \* what start() may be given: "plain", "code"
  HasTool,   \* whether there is another tool
  MaxStates  \* how many ShimStates are made (a bound for TLC)

Threads == Pythons \cup Natives

ASSUME ShimAssumption ==
  /\ Pythons \cap Natives = {}
  /\ Nobody \notin Threads
  /\ Arguments \subseteq {"plain", "code"}
  /\ HasTool \in BOOLEAN
  /\ MaxStates \in Nat

VARIABLES
  gil,     \* external: the thread that holds the GIL
  table,   \* external: the allocator that is installed
  tool,    \* external: what the other tool has saved, Off if not installed
  crossed, \* history: shim and tool were not taken off in turn
  lock,    \* the thread that holds STATE's lock
  current, \* the ShimState in STATE, 0 if there is none
  made,    \* how many ShimStates have been made
  shim,    \* the ShimStates
  call,    \* the function each Python thread is in, and the state it handles
  hook     \* the hook each thread is in, its state, and what is left to do

outside == <<gil, table, tool, crossed>>
vars == <<outside, lock, current, made, shim, call, hook>>

States == 1..MaxStates

\* An allocator is CPython's own, the tool's, or the hooks of a state.
Own == 0
ToolHooks == -1
Allocators == {Own, ToolHooks} \cup States

\* What the tool has saved while it is not installed.
Off == -2

\* Where a call is: running Python code, at the entry of a function, inside.
\* At "arguments" start() runs Python code, at "again" that code has called the
\* module.
Places == {"python", "arguments", "again", "start", "stop", "clear", "query", "install",
           "publish", "restore", "disable", "sizes", "drop"}

\* A hook uses the map of sizes, or collects frames, in this order.
Plan == [malloc |-> <<"frames", "sizes">>, free |-> <<"sizes">>,
         realloc |-> <<"sizes", "frames", "sizes">>]

NoHook == [state |-> 0, op |-> "free", todo |-> <<>>]

InHook(t) == hook[t].state # 0

\* The state whose hooks an allocation runs, 0 if there is none.
Hooked ==
  LET a == IF table = ToolHooks THEN tool ELSE table IN IF a \in States THEN a ELSE 0

Init ==
  /\ gil = Nobody
  /\ table = Own
  /\ tool = Off
  /\ crossed = FALSE
  /\ lock = Nobody
  /\ current = 0
  /\ made = 0
  /\ shim = [g \in States |-> [alive |-> FALSE, enabled |-> FALSE,
                               original |-> Own, sizes |-> Nobody]]
  /\ call = [p \in Pythons |-> [at |-> "python", state |-> 0]]
  /\ hook = [t \in Threads |-> NoHook]

-----------------------------------------------------------------------------
(* The interpreter and the other tool.                                      *)

\* Threads that run bytecode hand the GIL to each other.
Switch(p) ==
  /\ call[p].at \in {"python", "arguments"} /\ ~InHook(p)
  /\ \/ gil = Nobody /\ gil' = p
     \/ gil = p /\ gil' = Nobody
  /\ UNCHANGED <<table, tool, crossed, lock, current, made, shim, call, hook>>

\* The thread runs Python code that called no function of the module.
Python(p) == gil = p /\ call[p].at = "python" /\ ~InHook(p)

InstallTool(p) ==
  /\ Python(p)
  /\ HasTool
  /\ tool = Off
  /\ table' = ToolHooks
  /\ tool' = table
  /\ UNCHANGED <<gil, crossed, lock, current, made, shim, call, hook>>

RemoveTool(p) ==
  /\ Python(p)
  /\ tool # Off
  /\ table' = tool
  /\ tool' = Off
  /\ crossed' = (crossed \/ table # ToolHooks)
  /\ UNCHANGED <<gil, lock, current, made, shim, call, hook>>

-----------------------------------------------------------------------------
(* The functions of the module.                                             *)

Go(p, from, to, g) ==
  /\ gil = p
  /\ ~InHook(p)
  /\ call[p].at = from
  /\ call' = [call EXCEPT ![p] = [at |-> to, state |-> g]]

Call(p, f) ==
  /\ Go(p, "python", f, 0)
  /\ UNCHANGED <<outside, lock, current, made, shim, hook>>

\* A function that needs no more than a look at STATE: is_tracing(),
\* take_snapshot(), start() with arguments it rejects or while there is a
\* state, clear() and stop() while there is none.
Return(p, f) ==
  /\ lock = Nobody
  /\ f \in {"clear", "stop"} => current = 0
  /\ Go(p, f, "python", 0)
  /\ UNCHANGED <<outside, lock, current, made, shim, hook>>

\* Plausible bug: start() does not look whether there is a state.
StartAgain(p, arguments) ==
  /\ lock = Nobody
  /\ lock' = p
  /\ Go(p, "start", IF arguments = "code" THEN "arguments" ELSE "install", 0)
  /\ UNCHANGED <<outside, current, made, shim, hook>>

\* start() keeps STATE locked from before it looks at its arguments, which may
\* have code of their own: __float__ or __index__ of the values of a sampling
\* mapping, then the iterator of the exporters.
Start(p, arguments) ==
  /\ lock = Nobody
  /\ current = 0
  /\ lock' = p
  /\ Go(p, "start", IF arguments = "code" THEN "arguments" ELSE "install", 0)
  /\ UNCHANGED <<outside, current, made, shim, hook>>

\* The code of the arguments returns ...
Parsed(p) ==
  /\ Go(p, "arguments", "install", 0)
  /\ UNCHANGED <<outside, lock, current, made, shim, hook>>

\* ... or raises an exception, or what it returns is rejected ...
Rejected(p) ==
  /\ Go(p, "arguments", "python", 0)
  /\ lock' = Nobody
  /\ UNCHANGED <<outside, current, made, shim, hook>>

\* ... or calls a function of the module, which waits for the lock of its own
\* thread (std's RwLock on Linux; elsewhere it may panic).
CallAgain(p) ==
  /\ Go(p, "arguments", "again", 0)
  /\ UNCHANGED <<outside, lock, current, made, shim, hook>>

\* A state with an enabled tracer is made and its hooks are installed.
Install(p) ==
  LET g == made + 1 IN
  /\ Go(p, "install", "publish", g)
  /\ made < MaxStates
  /\ made' = g
  /\ shim' = [shim EXCEPT ![g] = [alive |-> TRUE, enabled |-> TRUE,
                                  original |-> table, sizes |-> Nobody]]
  /\ table' = g
  /\ UNCHANGED <<gil, tool, crossed, lock, current, hook>>

Freed(g) == [h \in States |-> IF h = g THEN [shim[h] EXCEPT !.alive = FALSE] ELSE shim[h]]

\* *guard = Some(state), which would drop a state that was there.
Publish(p) ==
  /\ Go(p, "publish", "python", 0)
  /\ shim' = Freed(current)
  /\ current' = call[p].state
  /\ lock' = Nobody
  /\ UNCHANGED <<outside, made, hook>>

Stop(p) ==
  /\ lock = Nobody
  /\ current # 0
  /\ Go(p, "stop", "restore", current)
  /\ lock' = p
  /\ current' = 0
  /\ UNCHANGED <<outside, made, shim, hook>>

\* Plausible bug: CPython's own allocator is put back.
RestoreOwn(p) ==
  LET g == call[p].state IN
  /\ Go(p, "restore", "disable", g)
  /\ table' = Own
  /\ crossed' = (crossed \/ table # g)
  /\ UNCHANGED <<gil, tool, lock, current, made, shim, hook>>

\* What was saved is put back, whatever is installed now.
Restore(p) ==
  LET g == call[p].state IN
  /\ Go(p, "restore", "disable", g)
  /\ table' = shim[g].original
  /\ crossed' = (crossed \/ table # g)
  /\ UNCHANGED <<gil, tool, lock, current, made, shim, hook>>

Disable(p) ==
  LET g == call[p].state IN
  /\ Go(p, "disable", "sizes", g)
  /\ shim' = [shim EXCEPT ![g].enabled = FALSE]
  /\ UNCHANGED <<outside, lock, current, made, hook>>

\* clear() resets the tracer, which blocks on no lock modelled here.
Clear(p) ==
  /\ lock = Nobody
  /\ current # 0
  /\ Go(p, "clear", "sizes", current)
  /\ lock' = p
  /\ UNCHANGED <<outside, current, made, shim, hook>>

\* clear_allocations, of stop() and of clear().
ClearAllocations(p) ==
  LET g == call[p].state IN
  /\ Go(p, "sizes", "drop", g)
  /\ shim[g].sizes = Nobody
  /\ UNCHANGED <<outside, lock, current, made, shim, hook>>

\* The call ends; the state that stop() has taken is dropped.
Drop(p) ==
  LET g == call[p].state IN
  /\ Go(p, "drop", "python", 0)
  /\ shim' = IF g = current THEN shim ELSE Freed(g)
  /\ lock' = Nobody
  /\ UNCHANGED <<outside, current, made, hook>>

-----------------------------------------------------------------------------
(* The hooks.                                                               *)

\* The thread allocates: with the GIL, or in the raw domain without it.
Enter(t, op) ==
  /\ t \in Pythons => Python(t) \/ (gil = t /\ call[t].at = "arguments")
  /\ ~InHook(t)
  /\ Hooked # 0
  /\ hook' = [hook EXCEPT ![t] = [state |-> Hooked, op |-> op, todo |-> Plan[op]]]
  /\ UNCHANGED <<outside, lock, current, made, shim, call>>

\* The hook goes on in a state that has not been freed, and comes to w.
At(t, w) ==
  /\ InHook(t)
  /\ shim[hook[t].state].alive
  /\ hook[t].todo # <<>>
  /\ Head(hook[t].todo) = w

Done(t) == hook' = [hook EXCEPT ![t].todo = Tail(@)]

LockSizes(t) ==
  LET g == hook[t].state IN
  /\ At(t, "sizes")
  /\ shim[g].sizes = Nobody
  /\ shim' = [shim EXCEPT ![g].sizes = t]
  /\ UNCHANGED <<outside, lock, current, made, call, hook>>

\* Plausible bug: the guard lives on, until the hook returns.
KeepSizes(t) ==
  /\ At(t, "sizes")
  /\ shim[hook[t].state].sizes = t
  /\ Done(t)
  /\ UNCHANGED <<outside, lock, current, made, shim, call>>

\* The guard is dropped before the hook goes on.
UnlockSizes(t) ==
  LET g == hook[t].state IN
  /\ At(t, "sizes")
  /\ shim[g].sizes = t
  /\ shim' = [shim EXCEPT ![g].sizes = Nobody]
  /\ Done(t)
  /\ UNCHANGED <<outside, lock, current, made, call>>

\* Frames are collected if the tracer is enabled; if not, malloc is done.
CheckEnabled(t) ==
  /\ At(t, "frames")
  /\ hook' = [hook EXCEPT ![t].todo =
                IF shim[hook[t].state].enabled THEN <<"gil">> \o Tail(@)
                ELSE IF hook[t].op = "malloc" THEN <<>>
                ELSE Tail(@)]
  /\ UNCHANGED <<outside, lock, current, made, shim, call>>

\* with_gil takes the GIL, unless the thread has it already.
AcquireGil(t) ==
  /\ At(t, "gil")
  /\ gil = Nobody
  /\ gil' = t
  /\ UNCHANGED <<table, tool, crossed, lock, current, made, shim, call, hook>>

\* The frames are collected; with_gil gives back what it took.
Collect(t) ==
  /\ At(t, "gil")
  /\ gil = t
  /\ gil' = IF t \in Natives THEN Nobody ELSE t
  /\ Done(t)
  /\ UNCHANGED <<table, tool, crossed, lock, current, made, shim, call>>

\* The hook returns (shim_free through the allocator saved in its state).
Leave(t) ==
  /\ InHook(t)
  /\ shim[hook[t].state].alive
  /\ hook[t].todo = <<>>
  /\ hook' = [hook EXCEPT ![t] = NoHook]
  /\ UNCHANGED <<outside, lock, current, made, shim, call>>

-----------------------------------------------------------------------------
\* What a call of a function does once it has been made.
Function(p) ==
  \/ \E f \in {"start", "stop", "clear", "query"} : Return(p, f)
  \/ \E arguments \in Arguments : Start(p, arguments)
  \/ Install(p) \/ Publish(p)
  \/ Stop(p) \/ Restore(p) \/ Disable(p)
  \/ Clear(p) \/ ClearAllocations(p) \/ Drop(p)

HookStep(t) ==
  LockSizes(t) \/ UnlockSizes(t) \/ CheckEnabled(t) \/ Collect(t) \/ Leave(t)

Next ==
  \/ \E p \in Pythons :
       \/ Switch(p) \/ InstallTool(p) \/ RemoveTool(p)
       \/ Call(p, "start") /\ made < MaxStates
       \/ \E f \in {"stop", "clear", "query"} : Call(p, f)
       \/ Parsed(p) \/ Rejected(p) \/ CallAgain(p)
       \/ Function(p)
  \/ \E t \in Threads :
       (\E op \in DOMAIN Plan : Enter(t, op)) \/ AcquireGil(t) \/ HookStep(t)

Spec == Init /\ [][Next]_vars

\* The operating system stops no thread for ever in a function of the module
\* or in a hook, nor keeps it from a mutex that is free again and again.  That
\* a thread is given the GIL is not assumed.
FairSpec ==
  /\ Spec
  /\ \A p \in Pythons : WF_vars(Function(p)) /\ SF_vars(ClearAllocations(p))
  /\ \A t \in Threads : WF_vars(HookStep(t))

-----------------------------------------------------------------------------
(* Properties.                                                              *)

TypeOK ==
  /\ gil \in Threads \cup {Nobody}
  /\ table \in Allocators
  /\ tool \in Allocators \cup {Off}
  /\ crossed \in BOOLEAN
  /\ lock \in Pythons \cup {Nobody}
  /\ current \in 0..made
  /\ made \in 0..MaxStates
  /\ shim \in [States -> [alive : BOOLEAN, enabled : BOOLEAN, original : Allocators,
                          sizes : Threads \cup {Nobody}]]
  /\ call \in [Pythons -> [at : Places, state : 0..made]]
  /\ hook \in [Threads -> [state : 0..made, op : DOMAIN Plan,
                           todo : {<<>>, <<"sizes">>, <<"frames", "sizes">>,
                                   <<"gil", "sizes">>,
                                   <<"sizes", "frames", "sizes">>}]]

\* start() or stop() is between its first and its last step.
Changing == \E p \in Pythons : call[p].state # 0 /\ call[p].state # current

\* The hooks that CPython would call next belong to a state that exists, and
\* a thread with the GIL never has its state freed under it, if the shim and
\* another tool are taken off in turn.
HookedIsAlive ==
  ~crossed =>
    /\ Hooked # 0 => shim[Hooked].alive
    /\ \A p \in Pythons : InHook(p) => shim[hook[p].state].alive

\* Taken off in turn, both leave the allocators as they were: between calls
\* the hooks are those of the state in STATE, and the tool keeps its own.
HooksMatchState ==
  ~crossed /\ ~Changing =>
    /\ Hooked = current
    /\ current = 0 => table = IF tool = Off THEN Own ELSE ToolHooks

\* The thread h must run before p, which has the GIL, can go on.
WaitsFor(p, h) ==
  \/ call[p].at \in {"start", "stop", "clear", "query", "again"} /\ lock = h
  \/ call[p].at = "sizes" /\ shim[call[p].state].sizes = h
  \/ At(p, "sizes") /\ shim[hook[p].state].sizes = h /\ h # p

\* Nobody waits with the GIL for a thread that needs the GIL to go on, or for
\* itself, except while start() runs the code of its arguments.
OnlyArgumentsBlock ==
  \A p \in Pythons, h \in Threads :
    gil = p /\ WaitsFor(p, h) =>
      IF h \in Pythons THEN call[h].at \in {"arguments", "again"} ELSE ~At(h, "gil")

\* "careful shutdown handling to keep tracing safe even under stress": a hook
\* that is under way has its state.
HooksHaveState == \A t \in Threads : InHook(t) => shim[hook[t].state].alive

\* Unless start() runs code of its arguments every call of a function returns,
\* whatever the hooks of other threads are doing: there is no deadlock.
CallsReturn ==
  [](\A p \in Pythons : call[p].at # "arguments") =>
    \A p \in Pythons : [](call[p].at # "python" => <>(call[p].at = "python"))
=============================================================================
