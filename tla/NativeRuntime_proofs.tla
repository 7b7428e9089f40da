------------------------ MODULE NativeRuntime_proofs ------------------------
(***************************************************************************)
(* Theorems about NativeRuntime, for any number of runtimes and threads.   *)
(*                                                                         *)
(* The inductive invariant says that _active_calls counts the threads that *)
(* are inside a call, that one object at most has initialized the library, *)
(* and that close() sees a count of zero only when nobody is inside and    *)
(* nobody can get in any more.                                             *)
(***************************************************************************)
EXTENDS NativeRuntime, FiniteSetTheorems, TLAPS

USE NativeRuntimeAssumption DEF Counted, Inside, Goto, Enter, Leave

\* The count of a runtime is a natural number.
LEMMA CountIsNat ==
  ASSUME NEW r \in Runtimes
  PROVE  IsFiniteSet(Calls(r)) /\ Cardinality(Calls(r)) \in Nat
<1>1. IsFiniteSet(Calls(r))
  BY FS_Subset DEF Calls
<1> QED  BY <1>1, FS_CardinalityType

\* A thread that neither enters nor leaves a call does not change a count.
LEMMA CountKept ==
  ASSUME TypeOK, CountIsRight, UNCHANGED active, NEW t \in Threads,
         pc[t] \notin Counted, pc'[t] \notin Counted,
         \A u \in Threads \ {t} : pc'[u] = pc[u] /\ at'[u] = at[u]
  PROVE  CountIsRight'
<1>1. \A r \in Runtimes : Calls(r)' = Calls(r)
  BY DEF Calls
<1> QED  BY <1>1 DEF CountIsRight

\* Make preserves the invariant.
LEMMA MakeStep ==
  ASSUME TypeOK, Inv, NEW t \in Threads, Make(t)
  PROVE  TypeOK' /\ Inv'
<1>1. CountIsRight'
  <2>1. /\ UNCHANGED active
        /\ pc[t] \notin Counted /\ pc'[t] \notin Counted
        /\ \A u \in Threads \ {t} : pc'[u] = pc[u] /\ at'[u] = at[u]
    BY DEF TypeOK, Make, Fresh
  <2> QED  BY <2>1, CountKept DEF Inv
<1>2. TypeOK'
  BY DEF TypeOK, Make, Fresh
<1>3. Placed'
  BY DEF TypeOK, Inv, Placed, OneOwner, OneInside, Make, Fresh
<1>4. OneOwner'
  BY DEF TypeOK, Inv, Placed, OneOwner, Make, Fresh
<1>5. OneInside'
  BY DEF TypeOK, Inv, Placed, OneInside, Make, Fresh
<1> QED  BY <1>1, <1>2, <1>3, <1>4, <1>5 DEF Inv

\* Begin preserves the invariant.
LEMMA BeginStep ==
  ASSUME TypeOK, Inv, NEW t \in Threads, NEW r \in Runtimes, NEW l \in Counted, Begin(t, r, l)
  PROVE  TypeOK' /\ Inv'
<1>1. CountIsRight'
  <2>1. Calls(r)' = Calls(r) \cup {t} /\ t \notin Calls(r)
    BY DEF TypeOK, Inv, Placed, Begin, Calls
  <2>2. \A s \in Runtimes \ {r} : Calls(s)' = Calls(s)
    BY DEF TypeOK, Begin, Calls
  <2>3. Cardinality(Calls(r)') = Cardinality(Calls(r)) + 1
    BY <2>1, CountIsNat, FS_AddElement
  <2> QED  BY <2>2, <2>3 DEF TypeOK, Inv, CountIsRight, Begin
<1>2. TypeOK'
  BY DEF TypeOK, Begin
<1>3. Placed'
  BY DEF TypeOK, Inv, Placed, OneOwner, OneInside, Begin, Free
<1>4. OneOwner'
  BY DEF TypeOK, Inv, Placed, OneOwner, Begin, Free
<1>5. OneInside'
  BY DEF TypeOK, Inv, Placed, OneInside, Begin, Free
<1> QED  BY <1>1, <1>2, <1>3, <1>4, <1>5 DEF Inv

\* End preserves the invariant.
LEMMA EndStep ==
  ASSUME TypeOK, Inv, NEW t \in Threads, End(t)
  PROVE  TypeOK' /\ Inv'
<1>0. PICK r \in Runtimes : at[t] = r
  BY DEF TypeOK, Inv, Placed, End
<1>1. CountIsRight' /\ active[r] - 1 \in Nat
  <2>1. Calls(r)' = Calls(r) \ {t} /\ t \in Calls(r)
    BY <1>0 DEF TypeOK, End, Calls
  <2>2. \A s \in Runtimes \ {r} : Calls(s)' = Calls(s)
    BY <1>0 DEF TypeOK, End, Calls
  <2>3. Cardinality(Calls(r)') = Cardinality(Calls(r)) - 1 /\ Cardinality(Calls(r)') \in Nat
    <3>1. /\ IsFiniteSet(Calls(r) \ {t})
          /\ Cardinality(Calls(r) \ {t}) = Cardinality(Calls(r)) - 1
      BY <1>0, <2>1, CountIsNat, FS_RemoveElement
    <3> QED  BY <2>1, <3>1, FS_CardinalityType
  <2> QED  BY <1>0, <2>2, <2>3 DEF TypeOK, Inv, CountIsRight, End
<1>2. TypeOK'
  BY <1>0, <1>1 DEF TypeOK, End
<1>3. Placed'
  BY <1>0, <1>1 DEF TypeOK, Inv, Placed, OneOwner, OneInside, End
<1>4. OneOwner'
  BY <1>0, <1>1 DEF TypeOK, Inv, Placed, OneOwner, End
<1>5. OneInside'
  BY DEF TypeOK, Inv, Placed, OneInside, End
<1> QED  BY <1>1, <1>2, <1>3, <1>4, <1>5 DEF Inv

\* InitCheck preserves the invariant.
LEMMA InitCheckStep ==
  ASSUME TypeOK, Inv, NEW t \in Threads, NEW r \in Runtimes, InitCheck(t, r)
  PROVE  TypeOK' /\ Inv'
<1>1. CountIsRight'
  <2>1. /\ UNCHANGED active
        /\ pc[t] \notin Counted /\ pc'[t] \notin Counted
        /\ \A u \in Threads \ {t} : pc'[u] = pc[u] /\ at'[u] = at[u]
    BY DEF TypeOK, InitCheck
  <2> QED  BY <2>1, CountKept DEF Inv
<1>2. TypeOK'
  BY DEF TypeOK, InitCheck
<1>3. Placed'
  BY DEF TypeOK, Inv, Placed, OneOwner, OneInside, InitCheck
<1>4. OneOwner'
  BY DEF TypeOK, Inv, Placed, OneOwner, InitCheck
<1>5. OneInside'
  BY DEF TypeOK, Inv, Placed, OneInside, InitCheck
<1> QED  BY <1>1, <1>2, <1>3, <1>4, <1>5 DEF Inv

\* InitLock preserves the invariant.
LEMMA InitLockStep ==
  ASSUME TypeOK, Inv, NEW t \in Threads, InitLock(t)
  PROVE  TypeOK' /\ Inv'
<1>1. CountIsRight'
  <2>1. /\ UNCHANGED active
        /\ pc[t] \notin Counted /\ pc'[t] \notin Counted
        /\ \A u \in Threads \ {t} : pc'[u] = pc[u] /\ at'[u] = at[u]
    BY DEF TypeOK, InitLock, InitRaises, Free
  <2> QED  BY <2>1, CountKept DEF Inv
<1>2. TypeOK'
  BY DEF TypeOK, InitLock, InitRaises, Free
<1>3. Placed'
  BY DEF TypeOK, Inv, Placed, OneOwner, OneInside, InitLock, InitRaises, Free
<1>4. OneOwner'
  BY DEF TypeOK, Inv, Placed, OneOwner, InitLock, InitRaises, Free
<1>5. OneInside'
  BY DEF TypeOK, Inv, Placed, OneInside, InitLock, InitRaises, Free
<1> QED  BY <1>1, <1>2, <1>3, <1>4, <1>5 DEF Inv

\* InitLibrary preserves the invariant.
LEMMA InitLibraryStep ==
  ASSUME TypeOK, Inv, NEW t \in Threads, InitLibrary(t)
  PROVE  TypeOK' /\ Inv'
<1>1. CountIsRight'
  <2>1. /\ UNCHANGED active
        /\ pc[t] \notin Counted /\ pc'[t] \notin Counted
        /\ \A u \in Threads \ {t} : pc'[u] = pc[u] /\ at'[u] = at[u]
    BY DEF TypeOK, InitLibrary, InitRaises
  <2> QED  BY <2>1, CountKept DEF Inv
<1>2. TypeOK'
  BY DEF TypeOK, InitLibrary, InitRaises
<1>3. Placed'
  BY DEF TypeOK, Inv, Placed, OneOwner, OneInside, InitLibrary, InitRaises
<1>4. OneOwner'
  BY DEF TypeOK, Inv, Placed, OneOwner, InitLibrary, InitRaises
<1>5. OneInside'
  BY DEF TypeOK, Inv, Placed, OneInside, InitLibrary, InitRaises
<1> QED  BY <1>1, <1>2, <1>3, <1>4, <1>5 DEF Inv

\* Close preserves the invariant.
LEMMA CloseStep ==
  ASSUME TypeOK, Inv, NEW t \in Threads, NEW r \in Runtimes, Close(t, r)
  PROVE  TypeOK' /\ Inv'
<1>1. CountIsRight'
  <2>1. /\ UNCHANGED active
        /\ pc[t] \notin Counted /\ pc'[t] \notin Counted
        /\ \A u \in Threads \ {t} : pc'[u] = pc[u] /\ at'[u] = at[u]
    BY DEF TypeOK, Close, Free
  <2> QED  BY <2>1, CountKept DEF Inv
<1>2. TypeOK'
  BY DEF TypeOK, Close, Free
<1>3. Placed'
  BY DEF TypeOK, Inv, Placed, OneOwner, OneInside, Close, Free
<1>4. OneOwner'
  BY DEF TypeOK, Inv, Placed, OneOwner, Close, Free
<1>5. OneInside'
  BY DEF TypeOK, Inv, Placed, OneInside, Close, Free
<1> QED  BY <1>1, <1>2, <1>3, <1>4, <1>5 DEF Inv

\* CloseAgain preserves the invariant.
LEMMA CloseAgainStep ==
  ASSUME TypeOK, Inv, NEW t \in Threads, NEW r \in Runtimes, CloseAgain(t, r)
  PROVE  TypeOK' /\ Inv'
<1>1. CountIsRight'
  <2>1. /\ UNCHANGED active
        /\ pc[t] \notin Counted /\ pc'[t] \notin Counted
        /\ \A u \in Threads \ {t} : pc'[u] = pc[u] /\ at'[u] = at[u]
    BY DEF TypeOK, CloseAgain, Free
  <2> QED  BY <2>1, CountKept DEF Inv
<1>2. TypeOK'
  BY DEF TypeOK, CloseAgain, Free
<1>3. Placed'
  BY DEF TypeOK, Inv, Placed, OneOwner, OneInside, CloseAgain, Free
<1>4. OneOwner'
  BY DEF TypeOK, Inv, Placed, OneOwner, CloseAgain, Free
<1>5. OneInside'
  BY DEF TypeOK, Inv, Placed, OneInside, CloseAgain, Free
<1> QED  BY <1>1, <1>2, <1>3, <1>4, <1>5 DEF Inv

\* Drain preserves the invariant.
LEMMA DrainStep ==
  ASSUME TypeOK, Inv, NEW t \in Threads, Drain(t)
  PROVE  TypeOK' /\ Inv'
<1>1. CountIsRight'
  <2>1. /\ UNCHANGED active
        /\ pc[t] \notin Counted /\ pc'[t] \notin Counted
        /\ \A u \in Threads \ {t} : pc'[u] = pc[u] /\ at'[u] = at[u]
    BY DEF TypeOK, Drain, Free
  <2> QED  BY <2>1, CountKept DEF Inv
<1>2. TypeOK'
  BY DEF TypeOK, Drain, Free
<1>3. Placed'
  BY DEF TypeOK, Inv, Placed, OneOwner, OneInside, Drain, Free
<1>4. OneOwner'
  BY DEF TypeOK, Inv, Placed, OneOwner, Drain, Free
<1>5. OneInside'
  BY DEF TypeOK, Inv, Placed, OneInside, Drain, Free
<1> QED  BY <1>1, <1>2, <1>3, <1>4, <1>5 DEF Inv

\* Finalize preserves the invariant.
LEMMA FinalizeStep ==
  ASSUME TypeOK, Inv, NEW t \in Threads, Finalize(t)
  PROVE  TypeOK' /\ Inv'
<1>1. CountIsRight'
  <2>1. /\ UNCHANGED active
        /\ pc[t] \notin Counted /\ pc'[t] \notin Counted
        /\ \A u \in Threads \ {t} : pc'[u] = pc[u] /\ at'[u] = at[u]
    BY DEF TypeOK, Finalize
  <2> QED  BY <2>1, CountKept DEF Inv
<1>2. TypeOK'
  BY DEF TypeOK, Finalize
<1>3. Placed'
  BY DEF TypeOK, Inv, Placed, OneOwner, OneInside, Finalize
<1>4. OneOwner'
  BY DEF TypeOK, Inv, Placed, OneOwner, Finalize
<1>5. OneInside'
  BY DEF TypeOK, Inv, Placed, OneInside, Finalize
<1> QED  BY <1>1, <1>2, <1>3, <1>4, <1>5 DEF Inv

\* CloseReturns preserves the invariant.
LEMMA CloseReturnsStep ==
  ASSUME TypeOK, Inv, NEW t \in Threads, CloseReturns(t)
  PROVE  TypeOK' /\ Inv'
<1>1. CountIsRight'
  <2>1. /\ UNCHANGED active
        /\ pc[t] \notin Counted /\ pc'[t] \notin Counted
        /\ \A u \in Threads \ {t} : pc'[u] = pc[u] /\ at'[u] = at[u]
    BY DEF TypeOK, CloseReturns
  <2> QED  BY <2>1, CountKept DEF Inv
<1>2. TypeOK'
  BY DEF TypeOK, CloseReturns
<1>3. Placed'
  BY DEF TypeOK, Inv, Placed, OneOwner, OneInside, CloseReturns
<1>4. OneOwner'
  BY DEF TypeOK, Inv, Placed, OneOwner, CloseReturns
<1>5. OneInside'
  BY DEF TypeOK, Inv, Placed, OneInside, CloseReturns
<1> QED  BY <1>1, <1>2, <1>3, <1>4, <1>5 DEF Inv

\* SharedMiss preserves the invariant.
LEMMA SharedMissStep ==
  ASSUME TypeOK, Inv, NEW t \in Threads, SharedMiss(t)
  PROVE  TypeOK' /\ Inv'
<1>1. CountIsRight'
  <2>1. /\ UNCHANGED active
        /\ pc[t] \notin Counted /\ pc'[t] \notin Counted
        /\ \A u \in Threads \ {t} : pc'[u] = pc[u] /\ at'[u] = at[u]
    BY DEF TypeOK, SharedMiss
  <2> QED  BY <2>1, CountKept DEF Inv
<1>2. TypeOK'
  BY DEF TypeOK, SharedMiss
<1>3. Placed'
  BY DEF TypeOK, Inv, Placed, OneOwner, OneInside, SharedMiss
<1>4. OneOwner'
  BY DEF TypeOK, Inv, Placed, OneOwner, SharedMiss
<1>5. OneInside'
  BY DEF TypeOK, Inv, Placed, OneInside, SharedMiss
<1> QED  BY <1>1, <1>2, <1>3, <1>4, <1>5 DEF Inv

\* SharedLock preserves the invariant.
LEMMA SharedLockStep ==
  ASSUME TypeOK, Inv, NEW t \in Threads, SharedLock(t)
  PROVE  TypeOK' /\ Inv'
<1>1. CountIsRight'
  <2>1. /\ UNCHANGED active
        /\ pc[t] \notin Counted /\ pc'[t] \notin Counted
        /\ \A u \in Threads \ {t} : pc'[u] = pc[u] /\ at'[u] = at[u]
    BY DEF TypeOK, SharedLock, Fresh
  <2> QED  BY <2>1, CountKept DEF Inv
<1>2. TypeOK'
  BY DEF TypeOK, SharedLock, Fresh
<1>3. Placed'
  BY DEF TypeOK, Inv, Placed, OneOwner, OneInside, SharedLock, Fresh
<1>4. OneOwner'
  BY DEF TypeOK, Inv, Placed, OneOwner, SharedLock, Fresh
<1>5. OneInside'
  BY DEF TypeOK, Inv, Placed, OneInside, SharedLock, Fresh
<1> QED  BY <1>1, <1>2, <1>3, <1>4, <1>5 DEF Inv

\* SharedStore preserves the invariant.
LEMMA SharedStoreStep ==
  ASSUME TypeOK, Inv, NEW t \in Threads, SharedStore(t)
  PROVE  TypeOK' /\ Inv'
<1>0. at[t] \in Runtimes
  BY DEF TypeOK, Inv, Placed, SharedStore
<1>1. CountIsRight'
  <2>1. /\ UNCHANGED active
        /\ pc[t] \notin Counted /\ pc'[t] \notin Counted
        /\ \A u \in Threads \ {t} : pc'[u] = pc[u] /\ at'[u] = at[u]
    BY DEF TypeOK, SharedStore
  <2> QED  BY <2>1, CountKept DEF Inv
<1>2. TypeOK'
  BY <1>0 DEF TypeOK, SharedStore
<1>3. Placed'
  BY DEF TypeOK, Inv, Placed, OneOwner, OneInside, SharedStore
<1>4. OneOwner'
  BY DEF TypeOK, Inv, Placed, OneOwner, SharedStore
<1>5. OneInside'
  BY DEF TypeOK, Inv, Placed, OneInside, SharedStore
<1> QED  BY <1>1, <1>2, <1>3, <1>4, <1>5 DEF Inv

-----------------------------------------------------------------------------
\* The invariant holds at first.
LEMMA InitInv ==
  ASSUME Init
  PROVE  TypeOK /\ Inv
<1>1. TypeOK
  BY DEF Init, TypeOK
<1>2. CountIsRight
  <2>1. \A r \in Runtimes : Calls(r) = {}
    BY DEF Init, Calls
  <2> QED  BY <2>1, FS_EmptySet DEF Init, CountIsRight
<1>3. Placed /\ OneOwner /\ OneInside
  BY DEF Init, Placed, OneOwner, OneInside
<1> QED  BY <1>1, <1>2, <1>3 DEF Inv

\* Every step preserves the invariant.
LEMMA NextStep ==
  ASSUME TypeOK, Inv, [Next]_vars
  PROVE  TypeOK' /\ Inv'
<1>1. ASSUME NEW t \in Threads, Ask(t) PROVE TypeOK' /\ Inv'
  BY <1>1, MakeStep, SharedMissStep, BeginStep, InitCheckStep, CloseStep, CloseAgainStep DEF Ask
<1>2. ASSUME NEW t \in Threads, Proceed(t) PROVE TypeOK' /\ Inv'
  BY <1>2, EndStep, InitLockStep, InitLibraryStep, DrainStep, FinalizeStep, CloseReturnsStep,
     SharedLockStep, SharedStoreStep DEF Proceed
<1>3. CASE UNCHANGED vars
  BY <1>3 DEF vars, TypeOK, Inv, CountIsRight, Calls, Placed, OneOwner, OneInside
<1> QED  BY <1>1, <1>2, <1>3 DEF Next

\* Every reachable state satisfies the type invariant and the inductive one.
THEOREM Inductive == Spec => [](TypeOK /\ Inv)
<1>1. Init => TypeOK /\ Inv
  BY InitInv
<1>2. TypeOK /\ Inv /\ [Next]_vars => (TypeOK /\ Inv)'
  BY NextStep
<1> QED  BY <1>1, <1>2, PTL DEF Spec

\* Every variable keeps its type.
THEOREM TypeCorrect == Spec => []TypeOK
  BY Inductive, PTL

\* finalize() never runs beside a call or an initialize() of its runtime.
THEOREM FinalizeHasItAlone == Spec => []FinalizeAlone
<1>1. TypeOK /\ Inv => FinalizeAlone
  <2> SUFFICES ASSUME TypeOK, Inv, NEW t \in Threads, NEW u \in Threads,
                      pc[t] = "finalize", u # t, at[u] = at[t]
               PROVE  pc[u] \notin Inside
    BY DEF FinalizeAlone
  <2> DEFINE r == at[t]
  <2>1. r \in Runtimes /\ initialized[r] /\ active[r] = 0
    BY DEF TypeOK, Inv, Placed
  <2>2. pc[u] \notin Counted
    <3>1. Cardinality(Calls(r)) = 0
      BY <2>1 DEF Inv, CountIsRight
    <3>2. Calls(r) = {}
      BY <2>1, <3>1, CountIsNat, FS_EmptySet
    <3> QED  BY <3>2 DEF Calls
  <2>3. pc[u] # "initialize"
    BY <2>1 DEF Inv, Placed
  <2>4. pc[u] # "finalize"
    BY DEF Inv, OneInside
  <2> QED  BY <2>2, <2>3, <2>4
<1> QED  BY <1>1, Inductive, PTL

\* No RPC is inside a library that is not up.
THEOREM RpcSafe == Spec => []RpcInLiveLibrary
<1>1. TypeOK /\ Inv => RpcInLiveLibrary
  <2> SUFFICES ASSUME TypeOK, Inv, NEW t \in Threads, pc[t] = "rpc"
               PROVE  native = "up"
    BY DEF RpcInLiveLibrary
  <2> DEFINE r == at[t]
  <2>1. r \in Runtimes /\ initialized[r] /\ native # "cold"
    BY DEF TypeOK, Inv, Placed, OneOwner
  <2>2. active[r] # 0
    <3>1. t \in Calls(r)
      BY DEF Calls
    <3>2. Cardinality(Calls(r)) # 0
      BY <2>1, <3>1, CountIsNat, FS_EmptySet
    <3> QED  BY <2>1, <3>2 DEF Inv, CountIsRight
  <2> QED  BY <2>1, <2>2 DEF TypeOK, Inv, OneOwner
<1> QED  BY <1>1, Inductive, PTL
-----------------------------------------------------------------------------
\* The shared runtime: who holds the lock of the holder is creating the one
\* instance, and stores it only when the library came up for it.
Shared ==
  /\ instance # None => creating = None /\ initialized[instance]
  /\ \A t \in Threads : creating = t => instance = None /\ pc[t] \in {"checked", "initialize", "store"}
  /\ \A t \in Threads : pc[t] = "store" => creating = t /\ initialized[at[t]]

\* Nothing undoes an initialization.
LEMMA StaysInitialized ==
  ASSUME TypeOK, [Next]_vars
  PROVE  \A r \in Runtimes : initialized[r] => initialized'[r]
<1>1. ASSUME NEW t \in Threads, InitLibrary(t)
      PROVE  \A r \in Runtimes : initialized[r] => initialized'[r]
  BY <1>1 DEF InitLibrary, InitRaises, TypeOK
<1>2. ASSUME NEW t \in Threads, ~InitLibrary(t), Ask(t) \/ Proceed(t) PROVE UNCHANGED initialized
  BY <1>2 DEF Ask, Proceed, Make, SharedMiss, Begin, InitCheck, Close, CloseAgain, End, InitLock,
              InitRaises, Drain, Finalize, CloseReturns, SharedLock, SharedStore
<1> QED  BY <1>1, <1>2 DEF Next, vars

\* Threads that do not create the shared runtime leave its creation alone.
LEMMA BystandersKeepShared ==
  ASSUME TypeOK, Shared, [Next]_vars, NEW t \in Threads, creating # t,
         UNCHANGED <<instance, creating>>, pc[t] # "store", pc'[t] # "store",
         \A u \in Threads \ {t} : pc'[u] = pc[u] /\ at'[u] = at[u],
         \A u \in Threads : pc[u] = "store" => at[u] \in Runtimes
  PROVE  Shared'
<1>1. \A r \in Runtimes : initialized[r] => initialized'[r]
  BY StaysInitialized
<1> QED  BY <1>1 DEF Shared, TypeOK

LEMMA SharedStep ==
  ASSUME TypeOK, Inv, Shared, [Next]_vars
  PROVE  Shared'
<1> USE DEF TypeOK
<1>1. \A u \in Threads : pc[u] = "store" => at[u] \in Runtimes
  BY DEF Inv, Placed
<1>2. ASSUME NEW t \in Threads,
             \/ Make(t) \/ SharedMiss(t) \/ End(t) \/ Drain(t) \/ Finalize(t) \/ CloseReturns(t)
             \/ \E r \in Runtimes : \/ \E l \in Counted : Begin(t, r, l)
                                    \/ InitCheck(t, r) \/ Close(t, r) \/ CloseAgain(t, r)
      PROVE  Shared'
  <2>1. /\ UNCHANGED <<instance, creating>> /\ pc[t] \notin {"checked", "initialize", "store"}
        /\ pc'[t] # "store" /\ \A u \in Threads \ {t} : pc'[u] = pc[u] /\ at'[u] = at[u]
    BY <1>2 DEF Make, SharedMiss, End, Drain, Finalize, CloseReturns, Begin, InitCheck, Close, CloseAgain
  <2> QED  BY <1>1, <2>1, BystandersKeepShared DEF Shared
<1>3. ASSUME NEW t \in Threads, InitLock(t) PROVE Shared'
  <2>1. /\ pc[t] = "checked" /\ pc'[t] \in {"initialize", "off"} /\ UNCHANGED <<instance, initialized>>
        /\ \A u \in Threads \ {t} : pc'[u] = pc[u] /\ at'[u] = at[u]
        /\ creating' = creating \/ (creating = t /\ creating' = None)
        /\ creating' = t => pc'[t] = "initialize"
    BY <1>3 DEF InitLock, InitRaises
  <2> QED  BY <1>1, <2>1 DEF Shared
<1>4. ASSUME NEW t \in Threads, InitLibrary(t) PROVE Shared'
  <2>1. \A r \in Runtimes : initialized[r] => initialized'[r]
    BY StaysInitialized
  <2>2. at[t] \in Runtimes
    BY <1>4 DEF InitLibrary, Inv, Placed
  <2>3. /\ pc[t] = "initialize" /\ UNCHANGED instance
        /\ \A u \in Threads \ {t} : pc'[u] = pc[u] /\ at'[u] = at[u]
        /\ \/ /\ creating = t /\ creating' = t /\ pc'[t] = "store" /\ at'[t] = at[t]
              /\ initialized'[at[t]]
           \/ creating # t /\ creating' = creating /\ pc'[t] = "off"
           \/ creating = t /\ creating' = None /\ pc'[t] = "off"
    BY <1>4, <2>2 DEF InitLibrary, InitRaises
  <2> QED  BY <1>1, <2>1, <2>3 DEF Shared
<1>5. ASSUME NEW t \in Threads, SharedLock(t) PROVE Shared'
  BY <1>1, <1>5 DEF SharedLock, Shared, Fresh
<1>6. ASSUME NEW t \in Threads, SharedStore(t) PROVE Shared'
  <2>1. /\ creating = t /\ initialized[at[t]] /\ instance' = at[t] /\ creating' = None
        /\ UNCHANGED initialized /\ pc' = [pc EXCEPT ![t] = "off"] /\ at' = [at EXCEPT ![t] = None]
    BY <1>6 DEF SharedStore, Shared
  <2>2. ASSUME NEW u \in Threads PROVE creating' # u /\ pc'[u] # "store"
    <3>1. CASE u = t
      BY <2>1, <3>1
    <3>2. CASE u # t
      BY <2>1, <3>2 DEF Shared
    <3> QED  BY <3>1, <3>2
  <2>3. initialized'[instance'] /\ creating' = None
    BY <2>1
  <2> QED  BY <2>2, <2>3 DEF Shared
<1>7. CASE UNCHANGED vars
  BY <1>7 DEF vars, Shared
<1> QED  BY <1>2, <1>3, <1>4, <1>5, <1>6, <1>7 DEF Next, Ask, Proceed

\* However many threads race to create the shared runtime, there is one, it is
\* initialized before anybody can get it, and nobody creates another.
THEOREM OneShared == Spec => []SharedIsTheOne
<1>1. Init => Shared
  BY DEF Init, Shared
<1>2. TypeOK /\ Inv /\ Shared /\ [Next]_vars => Shared'
  BY SharedStep
<1>3. Shared => SharedIsTheOne
  BY DEF Shared, SharedIsTheOne
<1> QED  BY <1>1, <1>2, <1>3, Inductive, PTL DEF Spec
=============================================================================
