---------------------------- MODULE NativeRuntime ----------------------------
(***************************************************************************)
(* native/runtime.py: RcloneRuntime and shared_runtime(), above the native *)
(* library.                                                                *)
(*                                                                         *)
(* A process loads the library once, however many RcloneRuntime objects it *)
(* makes.  _state_lock covers the lifecycle and the count of calls inside  *)
(* the library, never a call itself; initialize() alone enters the library *)
(* with the lock held, and close() lets go of it while it waits.           *)
(***************************************************************************)
EXTENDS Naturals, FiniteSets

CONSTANTS
  Runtimes, \* RcloneRuntime objects
  Threads,  \* application threads
  None      \* Python's None

ASSUME NativeRuntimeAssumption ==
  /\ None \notin Runtimes \cup Threads
  /\ IsFiniteSet(Threads)

VARIABLES
  native,      \* the library: "cold", "up", "down" (finalized)
  made,        \* the RcloneRuntime objects the application can reach
  initialized, \* _initialized
  closed,      \* _closed
  active,      \* _active_calls
  instance,    \* _SharedRuntimeHolder.instance
  creating,    \* the thread holding _SharedRuntimeHolder.lock
  pc,          \* where each thread is
  at,          \* the runtime it works on
  was          \* was_initialized, as its close() read it

vars == <<native, made, initialized, closed, active, instance, creating, pc, at, was>>

Counted == {"rpc", "info"}
Inside  == Counted \cup {"initialize", "finalize"}

\* _state_lock of r: held across a step only by initialize().
Free(r) == \A t \in Threads : ~(at[t] = r /\ pc[t] = "initialize")
Goto(t, l) == pc' = [pc EXCEPT ![t] = l]
Enter(t, r, l) == Goto(t, l) /\ at' = [at EXCEPT ![t] = r]
Leave(t) == Enter(t, None, "off")
Fresh == Runtimes \ (made \cup {at[t] : t \in Threads})

Init ==
  /\ native = "cold" /\ made = {} /\ instance = None /\ creating = None
  /\ initialized = [r \in Runtimes |-> FALSE]
  /\ closed      = [r \in Runtimes |-> FALSE]
  /\ active      = [r \in Runtimes |-> 0]
  /\ pc  = [t \in Threads |-> "off"]
  /\ at  = [t \in Threads |-> None]
  /\ was = [t \in Threads |-> FALSE]

-----------------------------------------------------------------------------
(* RcloneRuntime *)

Make(t) ==
  /\ pc[t] = "off"
  /\ \E r \in Fresh : made' = made \cup {r}
  /\ UNCHANGED <<native, initialized, closed, active, instance, creating, pc, at, was>>

\* Mutant: build_info() is not counted as a call in flight.
BeginUncounted(t, r, l) ==
  /\ pc[t] = "off" /\ r \in made /\ Free(r)
  /\ ~closed[r] /\ (l = "rpc" => initialized[r])
  /\ active' = [active EXCEPT ![r] = IF l = "rpc" THEN @ + 1 ELSE @]
  /\ Enter(t, r, l)
  /\ UNCHANGED <<native, made, initialized, closed, instance, creating, was>>

\* Mutant: a call may begin on a closing runtime.
BeginAnyTime(t, r, l) ==
  /\ pc[t] = "off" /\ r \in made /\ Free(r)
  /\ l = "rpc" => initialized[r]
  /\ active' = [active EXCEPT ![r] = @ + 1]
  /\ Enter(t, r, l)
  /\ UNCHANGED <<native, made, initialized, closed, instance, creating, was>>

\* call() and build_info() count themselves in under the lock; on a closed
\* runtime, or an uninitialized one for call(), they raise instead.
Begin(t, r, l) ==
  /\ pc[t] = "off" /\ r \in made /\ Free(r)
  /\ ~closed[r] /\ (l = "rpc" => initialized[r])
  /\ active' = [active EXCEPT ![r] = @ + 1]
  /\ Enter(t, r, l)
  /\ UNCHANGED <<native, made, initialized, closed, instance, creating, was>>

End(t) ==
  /\ pc[t] \in Counted /\ Free(at[t])
  /\ active' = [active EXCEPT ![at[t]] = @ - 1]
  /\ Leave(t)
  /\ UNCHANGED <<native, made, initialized, closed, instance, creating, was>>

\* initialize() looks at _closed before it takes the lock.
InitCheck(t, r) ==
  /\ pc[t] = "off" /\ r \in made /\ ~closed[r]
  /\ Enter(t, r, "checked")
  /\ UNCHANGED <<native, made, initialized, closed, active, instance, creating, was>>

\* A failed initialize() raises, through shared_runtime() when that called it.
InitRaises(t) ==
  /\ Leave(t)
  /\ creating' = IF creating = t THEN None ELSE creating
  /\ UNCHANGED <<native, made, initialized, closed, active, instance, was>>

InitLock(t) ==
  /\ pc[t] = "checked" /\ Free(at[t])
  /\ IF initialized[at[t]]
     THEN InitRaises(t)
     ELSE /\ Goto(t, "initialize")
          /\ UNCHANGED <<native, made, initialized, closed, active, instance, creating, at, was>>

\* The library accepts one initialization in the life of the process, and may
\* refuse that one too (a wrong ABI version, an unusable config).
InitLibrary(t) ==
  /\ pc[t] = "initialize"
  /\ \/ /\ native = "cold"
        /\ native' = "up"
        /\ initialized' = [initialized EXCEPT ![at[t]] = TRUE]
        /\ IF creating = t THEN Goto(t, "store") /\ UNCHANGED at ELSE Leave(t)
        /\ UNCHANGED <<made, closed, active, instance, creating, was>>
     \/ InitRaises(t)

\* The first close() marks the runtime and waits for the calls in flight.
Close(t, r) ==
  /\ pc[t] = "off" /\ r \in made /\ Free(r) /\ ~closed[r]
  /\ closed' = [closed EXCEPT ![r] = TRUE]
  /\ was' = [was EXCEPT ![t] = initialized[r]]
  /\ Enter(t, r, "drain")
  /\ UNCHANGED <<native, made, initialized, active, instance, creating>>

\* Any other close() returns at once.
CloseAgain(t, r) ==
  /\ pc[t] = "off" /\ r \in made /\ Free(r) /\ closed[r]
  /\ Enter(t, r, "closed")
  /\ UNCHANGED <<native, made, initialized, closed, active, instance, creating, was>>

\* Mutant: a wait that gives up after its log interval.
DrainImpatient(t) ==
  /\ pc[t] = "drain" /\ Free(at[t])
  /\ Goto(t, IF was[t] THEN "finalize" ELSE "closed")
  /\ UNCHANGED <<native, made, initialized, closed, active, instance, creating, at, was>>

Drain(t) ==
  /\ pc[t] = "drain" /\ Free(at[t]) /\ active[at[t]] = 0
  /\ Goto(t, IF was[t] THEN "finalize" ELSE "closed")
  /\ UNCHANGED <<native, made, initialized, closed, active, instance, creating, at, was>>

\* finalize() runs with no lock held; its failure is only logged.
Finalize(t) ==
  /\ pc[t] = "finalize"
  /\ native' = "down"
  /\ Goto(t, "closed")
  /\ UNCHANGED <<made, initialized, closed, active, instance, creating, at, was>>

CloseReturns(t) ==
  /\ pc[t] = "closed"
  /\ Leave(t)
  /\ UNCHANGED <<native, made, initialized, closed, active, instance, creating, was>>

-----------------------------------------------------------------------------
(* shared_runtime() *)

\* The first look, without the lock, finds no instance.
SharedMiss(t) ==
  /\ pc[t] = "off" /\ instance = None
  /\ Goto(t, "shared")
  /\ UNCHANGED <<native, made, initialized, closed, active, instance, creating, at, was>>

\* Mutant: the runtime is published before it is initialized.
SharedLockEager(t) ==
  /\ pc[t] = "shared" /\ creating = None
  /\ \/ /\ instance # None
        /\ Leave(t)
        /\ UNCHANGED <<creating, instance, made>>
     \/ /\ instance = None
        /\ \E r \in Fresh : Enter(t, r, "checked") /\ instance' = r /\ made' = made \cup {r}
        /\ creating' = t
  /\ UNCHANGED <<native, initialized, closed, active, was>>

SharedLock(t) ==
  /\ pc[t] = "shared" /\ creating = None
  /\ \/ /\ instance # None
        /\ Leave(t)
        /\ UNCHANGED creating
     \/ /\ instance = None
        /\ \E r \in Fresh : Enter(t, r, "checked")
        /\ creating' = t
  /\ UNCHANGED <<native, made, initialized, closed, active, instance, was>>

SharedStore(t) ==
  /\ pc[t] = "store"
  /\ instance' = at[t] /\ made' = made \cup {at[t]} /\ creating' = None
  /\ Leave(t)
  /\ UNCHANGED <<native, initialized, closed, active, was>>

-----------------------------------------------------------------------------
Ask(t) ==
  \/ Make(t) \/ SharedMiss(t)
  \/ \E r \in Runtimes : \/ \E l \in Counted : Begin(t, r, l)
                         \/ InitCheck(t, r) \/ Close(t, r) \/ CloseAgain(t, r)

Proceed(t) ==
  \/ End(t) \/ InitLock(t) \/ InitLibrary(t)
  \/ Drain(t) \/ Finalize(t) \/ CloseReturns(t)
  \/ SharedLock(t) \/ SharedStore(t)

Next == \E t \in Threads : Ask(t) \/ Proceed(t)

Spec == Init /\ [][Next]_vars

\* A call that entered the library returns, and a waiting thread gets its
\* turn; nobody has to make another call.
FairSpec == Spec /\ \A t \in Threads : WF_vars(Proceed(t))

-----------------------------------------------------------------------------
(* Properties *)

\* Every variable keeps its type, and no call is counted out that was not
\* counted in.
TypeOK ==
  /\ native \in {"cold", "up", "down"}
  /\ made \subseteq Runtimes
  /\ initialized \in [Runtimes -> BOOLEAN]
  /\ closed \in [Runtimes -> BOOLEAN]
  /\ active \in [Runtimes -> Nat]
  /\ instance \in Runtimes \cup {None}
  /\ creating \in Threads \cup {None}
  /\ pc \in [Threads -> Inside \cup {"off", "checked", "drain", "closed", "shared", "store"}]
  /\ at \in [Threads -> Runtimes \cup {None}]
  /\ was \in [Threads -> BOOLEAN]

\* finalize() has the runtime to itself: no call of it, and no initialize(),
\* is inside the library (close(); the docstring of build_info()).
FinalizeAlone ==
  \A t, u \in Threads :
    pc[t] = "finalize" /\ u # t /\ at[u] = at[t] => pc[u] \notin Inside

\* An RPC runs only in a library that is up, from its start to its end.
RpcInLiveLibrary == \A t \in Threads : pc[t] = "rpc" => native = "up"

\* mark this runtime unusable: a runtime whose close() has returned leaves no
\* library running behind it.
ClosedStaysDown ==
  \A r \in Runtimes :
    closed[r] /\ initialized[r] /\ (\A t \in Threads : at[t] # r) => native = "down"

\* However many threads race to create the shared runtime, and however often
\* the library refuses it: once shared_runtime() has an instance, nobody is
\* creating another, and that instance is the one the library came up for.
SharedIsTheOne == instance # None => creating = None /\ initialized[instance]

\* close() ends, however many threads were calling when it began.
CloseEnds == \A t \in Threads : pc[t] = "drain" ~> pc[t] = "off"
-----------------------------------------------------------------------------
(* The inductive invariant behind the theorems of NativeRuntime_proofs *)

Calls(r) == {t \in Threads : at[t] = r /\ pc[t] \in Counted}

\* _active_calls is what its name says.
CountIsRight == \A r \in Runtimes : active[r] = Cardinality(Calls(r))

\* What a thread knows of its runtime at each control point.
Placed ==
  \A t \in Threads :
    /\ at[t] = None <=> pc[t] \in {"off", "shared"}
    /\ pc[t] = "rpc" => initialized[at[t]]
    /\ pc[t] = "initialize" => ~initialized[at[t]]
    /\ pc[t] = "drain" /\ was[t] => initialized[at[t]]
    /\ pc[t] = "finalize" => initialized[at[t]] /\ active[at[t]] = 0
    /\ pc[t] \in {"drain", "finalize", "closed"} => closed[at[t]]

\* One object has initialized the library, and once it is finalized nothing
\* of that object is inside.
OneOwner ==
  /\ \A r \in Runtimes : initialized[r] => native # "cold"
  /\ \A r, s \in Runtimes : initialized[r] /\ initialized[s] => r = s
  /\ \A r \in Runtimes : native = "down" /\ initialized[r] => closed[r] /\ active[r] = 0

\* _state_lock: one thread is initializing, or closing, a runtime.
OneInside ==
  /\ \A t, u \in Threads : pc[t] = "initialize" /\ pc[u] = "initialize" /\ at[t] = at[u] => t = u
  /\ \A t, u \in Threads :
       pc[t] \in {"drain", "finalize"} /\ pc[u] \in {"drain", "finalize"} /\ at[t] = at[u] => t = u

Inv == CountIsRight /\ Placed /\ OneOwner /\ OneInside
=============================================================================
