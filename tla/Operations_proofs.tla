--------------------------- MODULE Operations_proofs ---------------------------
(***************************************************************************)
(* Theorems about the operations of MCOperations, each for any value of    *)
(* its own constants, and of the module that checks them together.         *)
(*                                                                         *)
(* close(): a handle is flagged by whoever makes its stop call, and        *)
(* close(), which skips a flagged handle, leaves it to a dispose() that is *)
(* under way or over (FlaggedIsAsked).  So what close() has passed in its  *)
(* list is stopped or being stopped (Passed).                              *)
(*                                                                         *)
(* A download collects its chunks in their order, whatever order they come *)
(* in, and a chunk's file holds that chunk as long as it is not appended   *)
(* (FilesInv): which is so if no two chunks have one file (NamesApart).    *)
(* A listing's pages, with the one being filled, hold in order what was    *)
(* accepted of what was taken from its batches (Filled).  A snapshot that  *)
(* is final is of a source that is done, and is the last (Lasting).        *)
(*                                                                         *)
(* The operations share no state: each step of MCSpec is a step of one and *)
(* leaves the others as they are (EachByItself), so what is proved of each *)
(* holds of the whole.                                                     *)
(***************************************************************************)
EXTENDS MCOperations, MultipartCopy_proofs, InlineUpload_proofs, TreeWalk_proofs,
        FiniteSetTheorems, SequenceTheorems, TLAPS

-----------------------------------------------------------------------------
(* close(), and the handles and jobs it finds.                             *)

\* What the argument needs of the types.
ClientShapes ==
  /\ born \in [Handles -> {"no", "opened", "tracked", "hooked"}]
  /\ tracked \subseteq Handles /\ flagged \subseteq Handles
  /\ at \in [Whos -> [Handles -> {"out", "checked", "asking", "hook"}]]
  /\ clientJob \in [Starters -> {"none", "running", "settled"}]
  /\ monitor \in Nat /\ under \in [Starters -> Nat]
  /\ starter \in [Starters -> {"out", "make", "start", "done"}]
  /\ rest \in Seq(Handles) /\ owed \subseteq Handles /\ runtime \in BOOLEAN

\* Past its stop call, a dispose() has made it.
HookIsAsked == \A w \in Whos, h \in Handles : at[w][h] = "hook" => h \in asked

FlaggedIsAsked ==
  \A h \in flagged : h \in asked \/ \E w \in Whos : at[w][h] = "asking"

\* close() is in the first handle of its list, or in none.
AtHead ==
  \A h \in Handles : at["close"][h] # "out" => closer = "dispose" /\ rest # <<>> /\ h = Head(rest)

Stopped(h) == h \in asked \/ at["caller"][h] = "asking"

Passed ==
  /\ closer = "dispose" => \A h \in owed : Stopped(h) \/ \E i \in 1 .. Len(rest) : h = rest[i]
  /\ closer \in {"settle", "runtime", "returned", "group"} => \A h \in owed : Stopped(h)

\* The jobs close() waits for have been started, and none starts twice.
Waited ==
  /\ waits \subseteq Starters /\ \A t \in waits : starter[t] = "done"
  /\ \A t \in Starters : starter[t] # "done" => under[t] = 0

Over ==
  /\ closer \in {"runtime", "returned", "group"} => Unsettled = {}
  /\ closer \in {"returned", "group"} /\ OwnsRuntime => ~runtime

ClientInv == ClientShapes /\ HookIsAsked /\ FlaggedIsAsked /\ AtHead /\ Passed /\ Waited /\ Over

LEMMA KindsAreHandles == \A i \in DOMAIN Kinds : Kinds[i] \subseteq Handles
  BY DEF Handles, Range

\* A permutation of some handles is a list of handles.
LEMMA ListOfHandles ==
  ASSUME NEW S \in SUBSET Handles, NEW s \in SetToSeqs(S)
  PROVE  s \in Seq(Handles)
<1>1. IsFiniteSet(S)
  BY ClientAssumption, FS_Subset DEF ClientAssumption
<1>2. Cardinality(S) \in Nat
  BY <1>1, FS_CardinalityType
<1>3. s \in [1 .. Cardinality(S) -> Handles]
  BY DEF SetToSeqs
<1> QED  BY <1>2, <1>3

LEMMA ClientInitially == ClientInit => ClientInv
  BY DEF ClientInit, ClientInv, ClientShapes, HookIsAsked, FlaggedIsAsked, AtHead, Passed, Waited, Over, Whos, Stopped, Unsettled

\* A step inside a dispose(), the caller's or that of close().
InDispose(w, h) == Flag(w, h) \/ Ask(w, h, TRUE) \/ Ask(w, h, FALSE) \/ Untrack(w, h)

\* The list of close() loses its head or nothing.
LEMMA TailOfHandles ==
  ASSUME ClientShapes, rest # <<>>
  PROVE  Tail(rest) \in Seq(Handles) /\ Head(rest) \in Handles
  BY DEF ClientShapes

LEMMA DisposeKeepsShapes ==
  ASSUME ClientInv, NEW w \in Whos, NEW h \in Handles, InDispose(w, h)
  PROVE  ClientShapes' /\ HookIsAsked' /\ FlaggedIsAsked' /\ AtHead'
<1> USE DEF ClientInv, ClientShapes, Goto, Left, Whos, jobVars, closerVars
<1>1. ClientShapes'
  <2>1. rest' \in Seq(Handles)
    BY TailOfHandles DEF InDispose, Flag, Ask, Untrack, AtHead
  <2>2. CASE Flag(w, h)
    BY <2>1, <2>2 DEF Flag
  <2>3. CASE Ask(w, h, TRUE) \/ Ask(w, h, FALSE)
    <3>1. at' \in [Whos -> [Handles -> {"out", "checked", "asking", "hook"}]]
      BY <2>3 DEF Ask
    <3>2. UNCHANGED <<born, tracked, flagged, clientJob, monitor, under, starter, owed, runtime>>
      BY <2>3 DEF Ask
    <3> QED  BY <2>1, <3>1, <3>2
  <2>4. CASE Untrack(w, h)
    BY <2>1, <2>4 DEF Untrack
  <2> QED  BY <2>2, <2>3, <2>4 DEF InDispose
<1>2. HookIsAsked'
  BY DEF InDispose, Flag, Ask, Untrack, HookIsAsked
<1>3. FlaggedIsAsked'
  <2>1. CASE Flag(w, h)
    BY <2>1 DEF Flag, FlaggedIsAsked
  <2>2. CASE Ask(w, h, TRUE) \/ Ask(w, h, FALSE)
    BY <2>2 DEF Ask, FlaggedIsAsked
  <2>3. CASE Untrack(w, h)
    BY <2>3 DEF Untrack, FlaggedIsAsked, HookIsAsked
  <2> QED  BY <2>1, <2>2, <2>3 DEF InDispose
<1>4. AtHead'
  BY DEF InDispose, Flag, Ask, Untrack, AtHead
<1> QED  BY <1>1, <1>2, <1>3, <1>4

LEMMA DisposeKeepsPassed ==
  ASSUME ClientInv, NEW w \in Whos, NEW h \in Handles, InDispose(w, h)
  PROVE  Passed' /\ Waited' /\ Over'
<1> USE DEF ClientInv, ClientShapes, Goto, Whos, jobVars, closerVars
<1>1. \A k \in Handles : Stopped(k) => Stopped(k)'
  BY DEF InDispose, Flag, Ask, Untrack, Stopped, HookIsAsked
<1>2. \/ rest' = rest
      \/ w = "close" /\ closer = "dispose" /\ rest # <<>> /\ h = Head(rest) /\ rest' = Tail(rest) /\ h \in asked'
  BY DEF InDispose, Flag, Ask, Untrack, Left, AtHead, HookIsAsked
<1>3. UNCHANGED <<closer, owed, waits, starter, under, clientJob, runtime>>
  BY DEF InDispose, Flag, Ask, Untrack
<1>4. Passed'
  <2>1. ASSUME closer = "dispose", NEW k \in owed
        PROVE  Stopped(k)' \/ \E i \in 1 .. Len(rest') : k = rest'[i]
    <3>1. CASE Stopped(k)
      BY <1>1, <3>1
    <3>2. CASE rest' = rest
      BY <1>1, <2>1, <3>2 DEF Passed
    <3>3. ASSUME rest # <<>>, h = Head(rest), rest' = Tail(rest), h \in asked', ~Stopped(k)
          PROVE  \/ k = h
                 \/ \E i \in 1 .. Len(rest') : k = rest'[i]
      <4>1. PICK i \in 1 .. Len(rest) : k = rest[i]
        BY <2>1, <3>3 DEF Passed
      <4>2. CASE i = 1
        BY <3>3, <4>1, <4>2
      <4>3. CASE i # 1
        <5>1. i - 1 \in 1 .. Len(rest') /\ rest'[i - 1] = rest[i]
          BY <3>3, <4>1, <4>3
        <5> QED  BY <4>1, <5>1
      <4> QED  BY <4>2, <4>3
    <3>4. h \in asked' => Stopped(h)'
      BY DEF Stopped
    <3> QED  BY <1>2, <3>1, <3>2, <3>3, <3>4
  <2> QED  BY <1>1, <1>3, <2>1 DEF Passed
<1>5. Waited' /\ Over'
  BY <1>3 DEF Waited, Over, Unsettled
<1> QED  BY <1>4, <1>5

\* The calls that make a handle, and the caller's that begin to dispose of it.
LEMMA CallsKeepInv ==
  ASSUME ClientInv, NEW h \in Handles, Open(h) \/ Track(h) \/ InstallHook(h) \/ CallerDisposes(h)
  PROVE  ClientInv'
<1> USE DEF ClientInv, ClientShapes, Whos, jobVars, closerVars
<1>1. CASE Open(h) \/ Track(h) \/ InstallHook(h)
  <2>1. ClientShapes'
    BY <1>1 DEF Open, Track, InstallHook
  <2>2. HookIsAsked' /\ FlaggedIsAsked' /\ AtHead'
    BY <1>1 DEF Open, Track, InstallHook, HookIsAsked, FlaggedIsAsked, AtHead
  <2>3. Passed' /\ Waited' /\ Over'
    BY <1>1 DEF Open, Track, InstallHook, Passed, Waited, Over, Stopped, Unsettled
  <2> QED  BY <2>1, <2>2, <2>3
<1>2. CASE CallerDisposes(h)
  <2>1. ClientShapes'
    BY <1>2 DEF CallerDisposes, Goto
  <2>2. HookIsAsked' /\ FlaggedIsAsked' /\ AtHead'
    BY <1>2 DEF CallerDisposes, Goto, HookIsAsked, FlaggedIsAsked, AtHead
  <2>3. \A k \in Handles : Stopped(k) => Stopped(k)'
    BY <1>2 DEF CallerDisposes, Goto, Stopped
  <2>4. UNCHANGED <<rest, owed, closer, waits, starter, under, clientJob, runtime>>
    BY <1>2 DEF CallerDisposes
  <2>5. Passed' /\ Waited' /\ Over'
    BY <2>3, <2>4 DEF Passed, Waited, Over, Unsettled
  <2> QED  BY <2>1, <2>2, <2>5
<1> QED  BY <1>1, <1>2

\* A handle that close() passes over is stopped, or its owner is stopping it.
LEMMA TakeKeepsInv ==
  ASSUME ClientInv, NEW h \in Handles, CloseTakes(h)
  PROVE  ClientInv'
<1> USE DEF ClientInv, ClientShapes, Whos, jobVars, closerVars, CloseTakes, Goto
<1>1. ClientShapes'
  <2>1. rest' \in Seq(Handles)
    BY TailOfHandles
  <2> QED  BY <2>1
<1>2. HookIsAsked' /\ FlaggedIsAsked' /\ AtHead' /\ Waited' /\ Over'
  BY DEF HookIsAsked, FlaggedIsAsked, AtHead, Waited, Over, Unsettled
<1>3. \A k \in Handles : Stopped(k)' <=> Stopped(k)
  BY DEF Stopped
<1>4. CASE ~Disposed(h)
  <2>1. UNCHANGED <<rest, owed, closer>>
    BY <1>4
  <2> QED  BY <1>1, <1>2, <1>3, <2>1 DEF Passed
<1>5. CASE Disposed(h)
  <2>1. Stopped(h)
    BY <1>5 DEF Disposed, FlaggedIsAsked, Stopped
  <2>2. ASSUME NEW k \in owed, ~Stopped(k)
        PROVE  \E i \in 1 .. Len(rest') : k = rest'[i]
    <3>1. PICK i \in 1 .. Len(rest) : k = rest[i]
      BY <2>2 DEF Passed
    <3>2. i # 1
      BY <2>1, <2>2, <3>1
    <3>3. rest \in Seq(Handles) /\ rest # <<>> /\ rest' = Tail(rest)
      BY <1>5
    <3>4. i - 1 \in 1 .. Len(rest') /\ rest'[i - 1] = rest[i]
      BY <3>1, <3>2, <3>3
    <3> QED  BY <3>1, <3>4
  <2> QED  BY <1>1, <1>2, <1>3, <2>2 DEF Passed
<1> QED  BY <1>1, <1>2, <1>4, <1>5

\* The steps of threads that start jobs, and the ends of jobs.
LEMMA JobsKeepInv ==
  ASSUME ClientInv, NEW t \in Starters, LookForMonitor(t) \/ MakeMonitor(t) \/ StartJob(t) \/ JobSettles(t)
  PROVE  ClientInv'
<1> USE DEF ClientInv, ClientShapes, Whos, handleVars, closerVars, LookForMonitor, MakeMonitor, StartJob, JobSettles
<1>1. ClientShapes' /\ HookIsAsked' /\ FlaggedIsAsked' /\ AtHead'
  <2>1. CASE LookForMonitor(t) \/ MakeMonitor(t)
    <3>1. monitor' \in Nat /\ starter' \in [Starters -> {"out", "make", "start", "done"}]
      <4>1. CASE MakeMonitor(t)
        BY <4>1
      <4>2. CASE LookForMonitor(t) /\ monitor = 0
        BY <4>2
      <4>3. CASE LookForMonitor(t) /\ monitor # 0
        BY <4>3
      <4> QED  BY <2>1, <4>1, <4>2, <4>3
    <3>2. UNCHANGED <<at, asked, flagged, closer, rest, born, tracked, clientJob, under, owed, runtime>>
      BY <2>1
    <3> QED  BY <3>1, <3>2 DEF HookIsAsked, FlaggedIsAsked, AtHead
  <2>2. CASE StartJob(t)
    BY <2>2 DEF HookIsAsked, FlaggedIsAsked, AtHead
  <2>3. CASE JobSettles(t)
    BY <2>3 DEF HookIsAsked, FlaggedIsAsked, AtHead
  <2> QED  BY <2>1, <2>2, <2>3
<1>2. Passed'
  BY DEF Passed, Stopped
<1>3. Waited'
  BY DEF Waited
<1>4. Unsettled' \subseteq Unsettled
  BY DEF Waited, Unsettled
<1>5. Over'
  BY <1>4 DEF Over
<1> QED  BY <1>1, <1>2, <1>3, <1>5

\* The steps of close() between the handles.
LEMMA CloseKeepsInv ==
  ASSUME ClientInv, CallClose \/ BeginIteration \/ EndIteration \/ ShutdownJobs \/ JobsAwaited(TRUE)
              \/ JobsAwaited(FALSE) \/ CloseRuntime
  PROVE  ClientInv'
<1> USE DEF ClientInv, Whos, handleVars, jobVars
<1>1. CASE CallClose
  <2>1. ClientShapes' /\ HookIsAsked' /\ FlaggedIsAsked' /\ AtHead'
    BY <1>1 DEF CallClose, Ends, ClientShapes, HookIsAsked, FlaggedIsAsked, AtHead
  <2>2. Passed' /\ Waited' /\ Over'
    BY <1>1 DEF CallClose, ClientShapes, Passed, Waited, Over, Unsettled
  <2> QED  BY <2>1, <2>2
<1>2. CASE BeginIteration
  <2>1. ClientShapes' /\ HookIsAsked' /\ FlaggedIsAsked' /\ AtHead'
    BY <1>2 DEF BeginIteration, Range, ClientShapes, HookIsAsked, FlaggedIsAsked, AtHead
  <2>2. Passed'
    BY <1>2 DEF BeginIteration, Range, ClientShapes, Passed
  <2>3. Waited' /\ Over'
    BY <1>2 DEF BeginIteration, Waited, Over, Unsettled
  <2> QED  BY <2>1, <2>2, <2>3
<1>3. CASE EndIteration
  <2>1. rest' \in Seq(Handles)
    <3>1. CASE rest' = rest
      BY <3>1 DEF ClientShapes
    <3>2. ASSUME NEW s \in SetToSeqs(tracked \cap Kinds[turn]), rest' = rest \o s
          PROVE  rest' \in Seq(Handles)
      <4>1. s \in Seq(Handles)
        BY ListOfHandles DEF ClientShapes
      <4> QED  BY <3>2, <4>1 DEF ClientShapes
    <3> QED  BY <1>3, <3>1, <3>2 DEF EndIteration
  <2>2. ClientShapes' /\ HookIsAsked' /\ FlaggedIsAsked' /\ AtHead'
    BY <1>3, <2>1 DEF EndIteration, ClientShapes, HookIsAsked, FlaggedIsAsked, AtHead
  <2>3. closer' \in {"broken", "snapshot"} /\ UNCHANGED <<waits, runtime>>
    BY <1>3 DEF EndIteration
  <2>4. Passed' /\ Waited' /\ Over'
    BY <1>3, <2>3 DEF EndIteration, Passed, Waited, Over
  <2> QED  BY <2>2, <2>4
<1>4. CASE ShutdownJobs
  <2>1. ClientShapes' /\ HookIsAsked' /\ FlaggedIsAsked' /\ AtHead'
    BY <1>4 DEF ShutdownJobs, ClientShapes, HookIsAsked, FlaggedIsAsked, AtHead
  <2>2. Passed'
    BY <1>4 DEF ShutdownJobs, Passed, Stopped
  <2>3. Waited' /\ Over'
    BY <1>4 DEF ShutdownJobs, ClientShapes, Waited, Over
  <2> QED  BY <2>1, <2>2, <2>3
<1>5. CASE JobsAwaited(TRUE) \/ JobsAwaited(FALSE)
  <2>1. ClientShapes' /\ HookIsAsked' /\ FlaggedIsAsked' /\ AtHead'
    BY <1>5 DEF JobsAwaited, ClientShapes, HookIsAsked, FlaggedIsAsked, AtHead
  <2>2. Passed' /\ Waited' /\ Over'
    BY <1>5 DEF JobsAwaited, Passed, Stopped, Waited, Over, Unsettled
  <2> QED  BY <2>1, <2>2
<1>6. CASE CloseRuntime
  <2>1. ClientShapes' /\ HookIsAsked' /\ FlaggedIsAsked' /\ AtHead'
    BY <1>6, ClientAssumption DEF ClientAssumption, CloseRuntime, ClientShapes, HookIsAsked, FlaggedIsAsked, AtHead
  <2>2. Passed' /\ Waited' /\ Over'
    BY <1>6, ClientAssumption DEF ClientAssumption, CloseRuntime, ClientShapes, Passed, Stopped, Waited, Over, Unsettled
  <2> QED  BY <2>1, <2>2
<1> QED  BY <1>1, <1>2, <1>3, <1>4, <1>5, <1>6

LEMMA ClientStepsKeepInv == ClientInv /\ [ClientNext]_clientVars => ClientInv'
<1> SUFFICES ASSUME ClientInv, [ClientNext]_clientVars PROVE ClientInv'
  OBVIOUS
<1>1. CASE UNCHANGED clientVars
  BY <1>1 DEF clientVars, handleVars, jobVars, closerVars, ClientInv, ClientShapes, HookIsAsked, FlaggedIsAsked, AtHead,
              Passed, Waited, Over, Stopped, Unsettled
<1>2. ASSUME NEW h \in Handles, Open(h) \/ Track(h) \/ InstallHook(h) \/ CallerDisposes(h) PROVE ClientInv'
  BY <1>2, CallsKeepInv
<1>3. ASSUME NEW h \in Handles, CloseTakes(h) PROVE ClientInv'
  BY <1>3, TakeKeepsInv
<1>4. ASSUME NEW h \in Handles, NEW w \in Whos, InDispose(w, h) PROVE ClientInv'
  BY <1>4, DisposeKeepsShapes, DisposeKeepsPassed DEF ClientInv
<1>5. ASSUME NEW t \in Starters, LookForMonitor(t) \/ MakeMonitor(t) \/ StartJob(t) \/ JobSettles(t) PROVE ClientInv'
  BY <1>5, JobsKeepInv
<1>6. CASE CallClose \/ BeginIteration \/ EndIteration \/ ShutdownJobs \/ JobsAwaited(TRUE)
           \/ JobsAwaited(FALSE) \/ CloseRuntime
  BY <1>6, CloseKeepsInv
<1>7. waits \subseteq Starters
  BY DEF ClientInv, Waited
<1>8. runtime \in BOOLEAN
  BY DEF ClientInv, ClientShapes
<1>9. \A w \in Whos, h \in Handles : Ask(w, h, runtime) => InDispose(w, h)
  BY <1>8 DEF InDispose
<1> QED  BY <1>1, <1>2, <1>3, <1>4, <1>5, <1>6, <1>7, <1>9 DEF ClientNext, ClientStep, ClientCall, JobCall, ClientFault, InDispose

LEMMA ClientInductive == ClientSpec => []ClientInv
  BY ClientInitially, ClientStepsKeepInv, PTL DEF ClientSpec

(* A close() that returns, or raises the group of failures, has stopped      *)
(* every handle it found tracked, or left it to a dispose() that is making   *)
(* the stop call; the jobs it waited for are settled, and a runtime of the   *)
(* client's is closed.  So for any number of handles, whatever fails.        *)
THEOREM CloseReleasesAll == ClientSpec => []CloseIsTotal
<1>1. ClientInv => CloseIsTotal
  BY DEF ClientInv, ClientShapes, Passed, Stopped, Over, CloseIsTotal
<1> QED  BY <1>1, ClientInductive, PTL

LEMMA TrackedInitially == ClientInit => TrackedUntilStopped
  BY DEF ClientInit, TrackedUntilStopped

\* A handle leaves its set only in the hook, after its stop call.
LEMMA TrackedByStep ==
  ClientInv /\ TrackedUntilStopped /\ [ClientNext]_clientVars => TrackedUntilStopped'
<1> SUFFICES ASSUME ClientInv, TrackedUntilStopped, [ClientNext]_clientVars PROVE TrackedUntilStopped'
  OBVIOUS
<1> USE DEF ClientInv, ClientShapes, TrackedUntilStopped, handleVars
<1>1. ASSUME NEW h \in Handles, Track(h) PROVE TrackedUntilStopped'
  BY <1>1 DEF Track
<1>2. ASSUME NEW h \in Handles, Open(h) \/ InstallHook(h) \/ CallerDisposes(h) \/ CloseTakes(h)
      PROVE  TrackedUntilStopped'
  BY <1>2 DEF Open, InstallHook, CallerDisposes, CloseTakes
<1>3. ASSUME NEW h \in Handles, NEW w \in Whos, Flag(w, h) \/ Ask(w, h, TRUE) \/ Ask(w, h, FALSE)
      PROVE  TrackedUntilStopped'
  BY <1>3 DEF Flag, Ask
<1>4. ASSUME NEW h \in Handles, NEW w \in Whos, Untrack(w, h) PROVE TrackedUntilStopped'
  BY <1>4 DEF Untrack, HookIsAsked
<1>5. ASSUME NEW t \in Starters, LookForMonitor(t) \/ MakeMonitor(t) \/ StartJob(t) \/ JobSettles(t)
      PROVE  TrackedUntilStopped'
  BY <1>5 DEF LookForMonitor, MakeMonitor, StartJob, JobSettles
<1>6. CASE \/ CallClose \/ BeginIteration \/ EndIteration \/ ShutdownJobs \/ JobsAwaited(TRUE)
           \/ JobsAwaited(FALSE) \/ CloseRuntime \/ UNCHANGED clientVars
  BY <1>6 DEF CallClose, BeginIteration, EndIteration, ShutdownJobs, JobsAwaited, CloseRuntime, clientVars
<1>7. waits \subseteq Starters
  BY DEF Waited
<1>8. \A w \in Whos, h \in Handles : Ask(w, h, runtime) => Ask(w, h, TRUE) \/ Ask(w, h, FALSE)
  OBVIOUS
<1> QED  BY <1>1, <1>2, <1>3, <1>4, <1>5, <1>6, <1>7, <1>8 DEF ClientNext, ClientStep, ClientCall, JobCall, ClientFault

(* A handle stays tracked until its stop call has been made, however many    *)
(* threads dispose of it.                                                    *)
THEOREM TrackedAsLongAsOpen == ClientSpec => []TrackedUntilStopped
<1>1. ClientInit => TrackedUntilStopped
  BY TrackedInitially
<1>2. ClientInv /\ TrackedUntilStopped /\ [ClientNext]_clientVars => TrackedUntilStopped'
  BY TrackedByStep
<1> QED  BY <1>1, <1>2, ClientInductive, PTL DEF ClientSpec

\* The threads that are past the making of a monitor.
Past == {t \in Starters : starter[t] \in {"start", "done"}}

MonitorsCounted == monitor <= Cardinality(Past) /\ \A t \in Starters : under[t] <= monitor

CloserTypes ==
  /\ asked \subseteq Handles /\ errors \subseteq Handles /\ closer \in Closers
  /\ turn \in 1 .. Len(Kinds) + 1 /\ (closer = "iterating" => turn \in DOMAIN Kinds)
  /\ seen \in 0 .. Cardinality(Handles) /\ closes \in 0 .. MaxCloses

ClientTypes == MonitorsCounted /\ CloserTypes

LEMMA PastFinite ==
  ASSUME NEW S \in SUBSET Starters
  PROVE  IsFiniteSet(S) /\ Cardinality(S) \in Nat /\ Cardinality(S) <= Cardinality(Starters)
<1>1. IsFiniteSet(Starters)
  BY ClientAssumption DEF ClientAssumption
<1>2. IsFiniteSet(S) /\ Cardinality(S) <= Cardinality(Starters)
  BY <1>1, FS_Subset
<1> QED  BY <1>2, FS_CardinalityType

LEMMA ClientTyped == ClientInv /\ ClientTypes => ClientTypeOK
<1> SUFFICES ASSUME ClientInv, ClientTypes PROVE ClientTypeOK
  OBVIOUS
<1> USE DEF ClientInv, ClientShapes, ClientTypes
<1>1. Past \subseteq Starters
  BY DEF Past
<1>2. Cardinality(Past) \in Nat /\ Cardinality(Past) <= Cardinality(Starters) /\ Cardinality(Starters) \in Nat
  BY <1>1, PastFinite
<1>3. monitor \in 0 .. Cardinality(Starters)
  BY <1>2 DEF MonitorsCounted
<1>4. under \in [Starters -> 0 .. monitor]
  BY <1>3 DEF MonitorsCounted
<1>5. waits \subseteq Starters
  BY DEF Waited
<1> QED  BY <1>3, <1>4, <1>5 DEF CloserTypes, ClientTypeOK

LEMMA KindsAre == Len(Kinds) = 4 /\ DOMAIN Kinds = 1 .. 4
  BY DEF Kinds

LEMMA ClientTypesInitially == ClientInit => ClientTypes
<1> SUFFICES ASSUME ClientInit PROVE ClientTypes
  OBVIOUS
<1>1. Past \subseteq Starters
  BY DEF Past
<1>2. Cardinality(Past) \in Nat
  BY <1>1, PastFinite
<1>3. Cardinality(Handles) \in Nat
  BY ClientAssumption, FS_CardinalityType DEF ClientAssumption
<1> QED
  BY <1>2, <1>3, KindsAre, ClientAssumption
    DEF ClientAssumption, ClientInit, ClientTypes, MonitorsCounted, CloserTypes, Closers

LEMMA MonitorsStayCounted ==
  ASSUME ClientInv, MonitorsCounted, [ClientNext]_clientVars
  PROVE  MonitorsCounted'
<1> USE DEF ClientInv, ClientShapes, MonitorsCounted
<1>1. Past \subseteq Starters /\ Past' \subseteq Starters
  BY DEF Past
<1>2. IsFiniteSet(Past) /\ Cardinality(Past) \in Nat /\ Cardinality(Past') \in Nat
  BY <1>1, PastFinite
<1>3. ASSUME Past \subseteq Past' PROVE Cardinality(Past) <= Cardinality(Past')
  BY <1>1, <1>3, PastFinite, FS_Subset
<1>4. ASSUME NEW t \in Starters, MakeMonitor(t) PROVE MonitorsCounted'
  <2>1. t \notin Past /\ Past' = Past \cup {t} /\ monitor' = monitor + 1 /\ under' = under
    BY <1>4 DEF MakeMonitor, Past, handleVars
  <2>2. Cardinality(Past') = Cardinality(Past) + 1
    BY <1>2, <2>1, FS_AddElement
  <2> QED  BY <1>2, <2>1, <2>2
<1>5. ASSUME NEW t \in Starters, LookForMonitor(t) \/ StartJob(t) PROVE MonitorsCounted'
  <2>1. Past \subseteq Past' /\ monitor' = monitor
    BY <1>5 DEF LookForMonitor, StartJob, Past
  <2>2. \A s \in Starters : under'[s] \in {under[s], monitor}
    BY <1>5 DEF LookForMonitor, StartJob
  <2> QED  BY <1>2, <1>3, <2>1, <2>2
<1>6. CASE UNCHANGED <<monitor, starter, under>>
  BY <1>6 DEF Past
<1> QED
  BY <1>4, <1>5, <1>6
    DEF ClientNext, ClientStep, ClientCall, JobCall, ClientFault, Open, Track, InstallHook, CallerDisposes, CloseTakes,
        Flag, Ask, Untrack, JobSettles, CallClose, BeginIteration, EndIteration, ShutdownJobs, JobsAwaited, CloseRuntime,
        clientVars, jobVars

LEMMA CloserStaysTyped ==
  ASSUME ClientInv, CloserTypes, [ClientNext]_clientVars
  PROVE  CloserTypes'
<1> USE DEF ClientInv, ClientShapes, CloserTypes
<1>0. closes' \in 0 .. MaxCloses
  <2>1. CASE closes < MaxCloses /\ closes' = closes + 1
    BY <2>1, ClientAssumption DEF ClientAssumption
  <2> QED
    BY <2>1 DEF ClientNext, ClientStep, ClientCall, JobCall, ClientFault, Open, Track, InstallHook, CallerDisposes, CloseTakes,
        Flag, Ask, Untrack, LookForMonitor, MakeMonitor, StartJob, JobSettles, CallClose, BeginIteration, EndIteration,
        ShutdownJobs, JobsAwaited, CloseRuntime, clientVars, closerVars
<1>1. ASSUME NEW h \in Handles, NEW w \in Whos, Ask(w, h, TRUE) \/ Ask(w, h, FALSE) PROVE CloserTypes'
  BY <1>0, <1>1 DEF Ask
<1>2. CASE BeginIteration
  <2>1. tracked \cap Kinds[turn] \subseteq Handles
    OBVIOUS
  <2>2. Cardinality(tracked \cap Kinds[turn]) \in 0 .. Cardinality(Handles)
    BY <2>1, ClientAssumption, FS_Subset, FS_CardinalityType DEF ClientAssumption
  <2> QED  BY <1>0, <1>2, <2>2 DEF BeginIteration, Closers, handleVars
<1>3. CASE EndIteration
  BY <1>0, <1>3, KindsAre DEF EndIteration, Closers, Ends, handleVars
<1>4. CASE CallClose \/ ShutdownJobs \/ JobsAwaited(TRUE) \/ JobsAwaited(FALSE) \/ CloseRuntime
  BY <1>0, <1>4, KindsAre DEF CallClose, ShutdownJobs, JobsAwaited, CloseRuntime, Closers, Ends, handleVars
<1>5. CASE UNCHANGED <<asked, errors, closer, turn, seen>>
  BY <1>0, <1>5
<1>6. runtime \in BOOLEAN
  OBVIOUS
<1> QED
  BY <1>1, <1>2, <1>3, <1>4, <1>5, <1>6
    DEF ClientNext, ClientStep, ClientCall, JobCall, ClientFault, Open, Track, InstallHook, CallerDisposes, CloseTakes,
        Flag, Untrack, LookForMonitor, MakeMonitor, StartJob, JobSettles,
        clientVars, closerVars, handleVars

\* Every value close() and the handles keep is one of those they can have: no
\* more monitors are made than there are threads that ask for one.
THEOREM ClientTypeCorrect == ClientSpec => []ClientTypeOK
<1>1. ClientInv /\ ClientTypes /\ [ClientNext]_clientVars => (ClientInv /\ ClientTypes)'
  BY ClientStepsKeepInv, MonitorsStayCounted, CloserStaysTyped DEF ClientTypes
<1> QED  BY <1>1, ClientInitially, ClientTypesInitially, ClientTyped, PTL DEF ClientSpec

-----------------------------------------------------------------------------
(* A download in chunks.                                                   *)

DownloadNext == Fetch \/ DownloadStep \/ DownloadFault

\* The chunk files have names of their own.
NamesApart == \A s, t \in Starts : Name(s) = Name(t) => s = t

LEMMA Parameters ==
  /\ RangeStart \in Nat /\ RangeEnd \in Nat /\ RangeStart < RangeEnd
  /\ RangeChunk \in Nat \ {0} /\ Unit \in Nat \ {0} /\ PoolSize \in Nat \ {0} /\ Retries \in Nat \ {0}
  BY DownloadAssumption

LEMMA OrderIs ==
  /\ Order \in Seq(Int) /\ Len(Order) \in Nat \ {0} /\ DOMAIN Order = 1 .. Len(Order)
  /\ \A i \in 1 .. Len(Order) : Order[i] = RangeStart + (i - 1) * RangeChunk /\ Order[i] \in RangeStart .. RangeEnd - 1
  /\ \A i, j \in 1 .. Len(Order) : i < j => Order[i] + RangeChunk <= Order[j]
  /\ \A i \in 1 .. Len(Order) : Order[i] \in Starts
  /\ \A s \in Starts : \E i \in 1 .. Len(Order) : s = Order[i]
  /\ Starts \subseteq Nat /\ Starts \subseteq RangeStart .. RangeEnd - 1
<1> DEFINE span == RangeEnd - RangeStart
           n    == CeilDiv(span, RangeChunk)
<1>1. span \in Nat \ {0} /\ RangeChunk \in Nat \ {0} /\ RangeStart \in Nat /\ RangeEnd \in Nat
  BY Parameters
<1>2. Order = [i \in 1 .. n |-> RangeStart + (i - 1) * RangeChunk]
  BY DEF Order, CeilDiv
<1> HIDE DEF span
<1>3. n \in Nat \ {0} /\ RangeChunk * n < span + RangeChunk
  BY <1>1, CeilDivBounds
<1> HIDE DEF n
<1>4. \A i \in 1 .. n : (i - 1) * RangeChunk \in Nat
  BY <1>1, <1>3
<1>5. Order \in Seq(Int) /\ Len(Order) = n /\ DOMAIN Order = 1 .. n
  BY <1>1, <1>2, <1>3, <1>4
<1>6. \A i \in 1 .. n : Order[i] = RangeStart + (i - 1) * RangeChunk
  BY <1>2
<1>7. \A i, j \in 1 .. n : i < j => Order[i] + RangeChunk <= Order[j]
  <2> SUFFICES ASSUME NEW i \in 1 .. n, NEW j \in 1 .. n, i < j PROVE Order[i] + RangeChunk <= Order[j]
    OBVIOUS
  <2>1. RangeChunk * i <= RangeChunk * (j - 1)
    BY <1>1, Times
  <2>2. (i - 1) * RangeChunk = RangeChunk * i - RangeChunk /\ (j - 1) * RangeChunk = RangeChunk * (j - 1)
    BY <1>1
  <2> QED  BY <1>1, <1>6, <2>1, <2>2
<1>8. \A i \in 1 .. n : Order[i] \in RangeStart .. RangeEnd - 1
  <2> SUFFICES ASSUME NEW i \in 1 .. n PROVE Order[i] \in RangeStart .. RangeEnd - 1
    OBVIOUS
  <2>1. RangeChunk * i <= RangeChunk * n
    BY <1>1, <1>3, Times
  <2>2. (i - 1) * RangeChunk = RangeChunk * i - RangeChunk /\ RangeChunk * n \in Nat /\ RangeChunk * i \in Nat
    BY <1>1, <1>3
  <2> QED  BY <1>1, <1>3, <1>4, <1>6, <2>1, <2>2 DEF span
<1>9. Starts = {Order[i] : i \in 1 .. n}
  BY <1>5 DEF Starts, Range
<1> QED  BY <1>1, <1>3, <1>5, <1>6, <1>7, <1>8, <1>9

LEMMA OrderIsInjective ==
  ASSUME NEW i \in 1 .. Len(Order), NEW j \in 1 .. Len(Order), Order[i] = Order[j]
  PROVE  i = j
<1>1. RangeChunk \in Nat \ {0} /\ Order[i] \in Int /\ Order[j] \in Int
  BY OrderIs, Parameters
<1>2. ~ (i < j) /\ ~ (j < i)
  BY <1>1, OrderIs
<1> QED  BY <1>2, OrderIs

\* When they have: before Unit, or with chunks no smaller than a tenth of it.
LEMMA ShortRangesAreApart == RangeEnd <= Unit => NamesApart
<1> SUFFICES ASSUME RangeEnd <= Unit, NEW s \in Starts, NEW t \in Starts, Name(s) = Name(t) PROVE s = t
  BY DEF NamesApart
<1>1. s < Unit /\ t < Unit
  <2>1. Starts \subseteq RangeStart .. RangeEnd - 1
    BY OrderIs
  <2> QED  BY <2>1, Parameters
<1>2. Name(s) = <<"whole", s>> /\ Name(t) = <<"whole", t>>
  BY <1>1 DEF Name
<1>3. <<"whole", s>> = <<"whole", t>>
  BY <1>2
<1> QED  BY <1>3

LEMMA LargeChunksAreApart == 10 * RangeChunk >= Unit => NamesApart
<1> SUFFICES ASSUME 10 * RangeChunk >= Unit, NEW s \in Starts, NEW t \in Starts, s < t
             PROVE  Name(s) # Name(t)
  BY OrderIs DEF NamesApart
<1>1. s + RangeChunk <= t
  <2>1. PICK i \in 1 .. Len(Order), j \in 1 .. Len(Order) : s = Order[i] /\ t = Order[j]
    BY OrderIs
  <2>2. i < j
    <3>1. CASE j = i
      BY <2>1, <3>1, OrderIs
    <3>2. CASE j < i
      <4>1. t + RangeChunk <= s
        BY <2>1, <3>2, OrderIs
      <4> QED  BY <4>1, OrderIs, Parameters
    <3> QED  BY <3>1, <3>2, OrderIs
  <2> QED  BY <2>1, <2>2, OrderIs
<1>2. s \in Nat /\ t \in Nat /\ Unit \in Nat \ {0} /\ RangeChunk \in Nat \ {0}
  BY OrderIs, Parameters
<1> DEFINE u == 2 * Unit
           x == 20 * s + Unit
           y == 20 * t + Unit
<1>3. x \in Nat /\ y \in Nat /\ u \in Nat \ {0} /\ x + u <= y
  BY <1>1, <1>2
<1>4. x \div u # y \div u
  <2>1. /\ u * (x \div u) <= x /\ x < u * (x \div u) + u
        /\ u * (y \div u) <= y /\ y < u * (y \div u) + u
    BY <1>3, QuotientBounds
  <2> HIDE DEF x, y, u
  <2> QED  BY <1>3, <2>1
<1> QED  BY <1>2, <1>4 DEF Name

\* The first k chunks have been collected.
Upto(k) ==
  /\ \A j \in 1 .. k : get[Order[j]] \in {"done", "failed"}
  /\ \A j \in 1 .. k : get[Order[j]] = "done" => \E i \in DOMAIN finished : finished[i] = Name(Order[j])
  /\ ~failed => finished = [j \in 1 .. k |-> Name(Order[j])] /\ \A j \in 1 .. k : get[Order[j]] = "done"

FetchTypes ==
  /\ chunkFile \in [Names -> Starts \cup {Gone, Partial}]
  /\ get \in [Starts -> {"none", "queued", "getting", "done", "failed"}]
  /\ main \in Mains /\ index \in 1 .. Len(Order) + 1 /\ finished \in Seq(Names)
  /\ failed \in BOOLEAN /\ spoilt \in BOOLEAN

\* The chunk files, while the chunks are fetched.
FilesInv ==
  \A s \in Starts :
    /\ get[s] \in {"none", "queued", "failed"} => chunkFile[Name(s)] = Gone
    /\ get[s] = "getting" => chunkFile[Name(s)] = Partial
    /\ get[s] = "done" /\ main \in {"off", "collect", "progress", "leave", "discard"} => chunkFile[Name(s)] = s

CallInv ==
  /\ main \in {"off", "collect", "progress"} => ~spoilt /\ target = <<>>
  /\ main = "off" => index = 1 /\ finished = <<>> /\ ~failed /\ \A s \in Starts : get[s] = "none"
  /\ main = "collect" => Upto(index - 1)
  /\ main = "progress" => index <= Len(Order) /\ Upto(index)
  /\ main \in {"append", "returned"} =>
       /\ ~failed /\ Upto(Len(Order))
       /\ target = [j \in 1 .. index - 1 |-> Order[j]]
       /\ \A j \in 1 .. Len(Order) : chunkFile[Name(Order[j])] = IF j < index THEN Gone ELSE Order[j]
  /\ main = "returned" => index = Len(Order) + 1
  /\ main \in {"leave", "discard"} /\ ~spoilt => Upto(Len(Order))
  /\ main \in {"discard", "raised"} => \A s \in Starts : get[s] \in {"done", "failed"}
  /\ main = "raised" /\ ~spoilt => \A n \in Names : chunkFile[n] = Gone

DownloadInv == FetchTypes /\ FilesInv /\ CallInv

LEMMA DownloadInitially == DownloadInit => DownloadInv
<1> SUFFICES ASSUME DownloadInit PROVE DownloadInv
  OBVIOUS
<1>1. FetchTypes
  <2>1. 1 \in 1 .. Len(Order) + 1 /\ finished \in Seq(Names)
    BY OrderIs DEF DownloadInit
  <2> QED  BY <2>1 DEF DownloadInit, FetchTypes, Mains
<1>2. FilesInv /\ CallInv
  BY DEF DownloadInit, FilesInv, CallInv, Names
<1> QED  BY <1>1, <1>2 DEF DownloadInv

LEMMA NamesAre == \A s \in Starts : Name(s) \in Names
  BY DEF Names

\* A chunk moves on; no other file than its own is touched.
LEMMA GetsKeepInv ==
  ASSUME NamesApart, DownloadInv, NEW s \in Starts, GetStart(s) \/ GetDone(s) \/ GetFails(s)
  PROVE  DownloadInv'
<1> USE DEF DownloadInv
<1>1. PICK how \in {"queued", "getting", "done", "failed"}, holds \in Starts \cup {Gone, Partial} :
        /\ get[s] \in {"queued", "getting"}
        /\ get' = [get EXCEPT ![s] = how] /\ chunkFile' = [chunkFile EXCEPT ![Name(s)] = holds]
        /\ holds = IF how \in {"queued", "failed"} THEN Gone ELSE IF how = "getting" THEN Partial ELSE s
  BY DEF GetStart, GetDone, GetFails, Gone, Partial
<1>2. UNCHANGED <<main, index, finished, failed, target, spoilt>>
  BY DEF GetStart, GetDone, GetFails
<1>3. FetchTypes'
  BY <1>1, <1>2, NamesAre DEF FetchTypes
<1>4. \A t \in Starts : /\ get'[t] = IF t = s THEN how ELSE get[t]
                        /\ chunkFile'[Name(t)] = IF t = s THEN holds ELSE chunkFile[Name(t)]
  BY <1>1, NamesAre DEF FetchTypes, NamesApart
<1>5. FilesInv'
  BY <1>1, <1>2, <1>4 DEF FilesInv
<1>6. \A k \in Int : k <= Len(Order) /\ Upto(k) => Upto(k)' /\ \A j \in 1 .. k : Order[j] # s
  <2> SUFFICES ASSUME NEW k \in Int, k <= Len(Order), Upto(k)
               PROVE  Upto(k)' /\ \A j \in 1 .. k : Order[j] # s
    OBVIOUS
  <2>1. \A j \in 1 .. k : Order[j] \in Starts
    BY OrderIs
  <2>2. \A j \in 1 .. k : Order[j] # s
    BY <1>1, <2>1 DEF Upto
  <2>3. \A j \in 1 .. k : get'[Order[j]] = get[Order[j]]
    BY <1>4, <2>1, <2>2
  <2> QED  BY <1>2, <2>2, <2>3 DEF Upto
<1>7. main # "off"
  BY <1>1 DEF CallInv
<1>8. main \notin {"append", "returned"} /\ (main \in {"leave", "discard"} => spoilt)
  <2>1. ~ Upto(Len(Order))
    BY <1>6, OrderIs
  <2> QED  BY <2>1 DEF CallInv
<1>9. main \notin {"discard", "raised"}
  BY <1>1 DEF CallInv
<1>10. main = "collect" => Upto(index - 1)'
  BY <1>2, <1>6, OrderIs DEF CallInv, FetchTypes
<1>11. main = "progress" => Upto(index)'
  BY <1>2, <1>6, OrderIs DEF CallInv, FetchTypes
<1>12. CallInv'
  BY <1>2, <1>7, <1>8, <1>9, <1>10, <1>11 DEF CallInv
<1> QED  BY <1>3, <1>5, <1>12

LEMMA FetchKeepsInv ==
  ASSUME DownloadInv, Fetch
  PROVE  DownloadInv'
<1> USE DEF DownloadInv
<1>1. /\ main = "off" /\ main' = "collect" /\ get' = [s \in Starts |-> "queued"]
      /\ UNCHANGED <<chunkFile, index, finished, failed, target, spoilt>>
  BY DEF Fetch
<1>2. FetchTypes' /\ FilesInv'
  BY <1>1 DEF FetchTypes, FilesInv, CallInv, Mains
<1>3. index' = 1 /\ finished' = <<>> /\ ~failed' /\ target' = <<>> /\ ~spoilt'
  BY <1>1 DEF CallInv
<1>4. Upto(0)'
  BY <1>3 DEF Upto
<1>5. CallInv'
  BY <1>1, <1>3, <1>4 DEF CallInv
<1> QED  BY <1>2, <1>5

LEMMA CollectKeepsInv ==
  ASSUME DownloadInv, Collect
  PROVE  DownloadInv'
<1> USE DEF DownloadInv
<1> DEFINE s == Order[index]
<1>1. /\ main = "collect" /\ index \in 1 .. Len(Order) /\ s \in Starts /\ get[s] \in {"done", "failed"}
      /\ UNCHANGED <<chunkFile, get, target, spoilt>> /\ Upto(index - 1)
  BY OrderIs DEF Collect, CallInv, FetchTypes
<1>2. CASE get[s] = "done"
  <2>1. finished' = Append(finished, Name(s)) /\ main' = "progress" /\ UNCHANGED <<failed, index>>
    BY <1>2 DEF Collect
  <2>2. finished \in Seq(Names) /\ Name(s) \in Names
    BY <1>1, NamesAre DEF FetchTypes
  <2>3. finished' \in Seq(Names) /\ \A i \in DOMAIN finished : i \in DOMAIN finished' /\ finished'[i] = finished[i]
    BY <2>1, <2>2
  <2>4. Len(finished') \in DOMAIN finished' /\ finished'[Len(finished')] = Name(s)
    BY <2>1, <2>2
  <2>5. ASSUME ~failed
        PROVE  finished' = [j \in 1 .. index |-> Name(Order[j])] /\ \A j \in 1 .. index : get[Order[j]] = "done"
    <3>1. finished = [j \in 1 .. index - 1 |-> Name(Order[j])] /\ \A j \in 1 .. index - 1 : get[Order[j]] = "done"
      BY <1>1, <2>5 DEF Upto
    <3>2. Len(finished) = index - 1
      BY <1>1, <2>2, <3>1
    <3>3. DOMAIN finished' = 1 .. index
      BY <1>1, <2>1, <2>2, <3>2
    <3>4. \A j \in 1 .. index : finished'[j] = Name(Order[j])
      BY <1>1, <2>1, <2>2, <3>1, <3>2
    <3>5. finished' = [j \in DOMAIN finished' |-> finished'[j]]
      BY <2>3
    <3> QED  BY <1>1, <1>2, <3>1, <3>3, <3>4, <3>5
  <2>6. \A j \in 1 .. index : /\ get[Order[j]] \in {"done", "failed"}
                              /\ get[Order[j]] = "done" => \E i \in DOMAIN finished' : finished'[i] = Name(Order[j])
    <3> SUFFICES ASSUME NEW j \in 1 .. index
                 PROVE  /\ get[Order[j]] \in {"done", "failed"}
                        /\ get[Order[j]] = "done" => \E i \in DOMAIN finished' : finished'[i] = Name(Order[j])
      OBVIOUS
    <3>1. CASE j = index
      BY <1>1, <2>4, <3>1
    <3>2. CASE j # index
      <4>1. j \in 1 .. index - 1
        BY <1>1, <3>2
      <4> QED  BY <1>1, <2>3, <4>1 DEF Upto
    <3> QED  BY <3>1, <3>2
  <2>7. Upto(index)'
    BY <1>1, <2>1, <2>5, <2>6 DEF Upto
  <2>8. FetchTypes'
    BY <1>1, <2>1, <2>3 DEF FetchTypes, Mains
  <2> QED  BY <1>1, <2>1, <2>7, <2>8 DEF FilesInv, CallInv
<1>3. CASE get[s] = "failed"
  <2>1. failed' = TRUE /\ index' = index + 1 /\ UNCHANGED <<finished, main>>
    BY <1>3 DEF Collect
  <2>2. \A j \in 1 .. index : j \in 1 .. index - 1 \/ j = index
    BY <1>1
  <2>3. \A j \in 1 .. index : /\ get[Order[j]] \in {"done", "failed"}
                              /\ get[Order[j]] = "done" => \E i \in DOMAIN finished : finished[i] = Name(Order[j])
    BY <1>1, <1>3, <2>2 DEF Upto
  <2>5. index' - 1 = index /\ index' \in 1 .. Len(Order) + 1
    BY <1>1, <2>1, OrderIs
  <2>4. get' = get /\ finished' = finished /\ failed'
    BY <1>1, <2>1
  <2>6. Upto(index - 1)'
    <3> DEFINE Got(k) == /\ \A j \in 1 .. k : get[Order[j]] \in {"done", "failed"}
                         /\ \A j \in 1 .. k : get[Order[j]] = "done" => \E i \in DOMAIN finished : finished[i] = Name(Order[j])
    <3>1. Got(index)
      BY <2>3
    <3>2. index' - 1 = index
      BY <2>5
    <3>3. Got(index' - 1)
      BY <3>1, <3>2
    <3>4. Got(index' - 1) /\ failed' /\ get' = get /\ finished' = finished => Upto(index - 1)'
      BY DEF Upto
    <3> HIDE DEF Got
    <3> QED  BY <2>4, <3>3, <3>4
  <2>7. FetchTypes'
    BY <1>1, <2>1, <2>5 DEF FetchTypes
  <2> QED  BY <1>1, <2>1, <2>6, <2>7 DEF FilesInv, CallInv
<1> QED  BY <1>1, <1>2, <1>3

\* on_progress, and the end of the collection.
LEMMA ProgressKeepsInv ==
  ASSUME DownloadInv, OnProgress(TRUE) \/ OnProgress(FALSE) \/ Collected
  PROVE  DownloadInv'
<1> USE DEF DownloadInv
<1>1. UNCHANGED <<chunkFile, get, finished, failed, target>> /\ FilesInv'
  BY DEF OnProgress, Collected, FilesInv, CallInv
<1>2. \A k : Upto(k)' <=> Upto(k)
  BY <1>1 DEF Upto
<1>3. CASE OnProgress(TRUE)
  BY <1>1, <1>3 DEF OnProgress, FetchTypes, CallInv, Mains
<1>4. CASE OnProgress(FALSE)
  <2>1. /\ main = "progress" /\ main' = "collect" /\ index' = index + 1 /\ UNCHANGED spoilt
        /\ index \in 1 .. Len(Order) /\ Upto(index)
    BY <1>4 DEF OnProgress, CallInv, FetchTypes
  <2>2. index' - 1 = index /\ Upto(index)
    BY <2>1
  <2>3. Upto(index - 1)'
    BY <1>1, <2>2 DEF Upto
  <2>4. index' \in 1 .. Len(Order) + 1
    BY <2>1, OrderIs
  <2> QED  BY <1>1, <2>1, <2>3, <2>4 DEF FetchTypes, CallInv, Mains
<1>5. CASE Collected
  <2>1. /\ main = "collect" /\ index' = 1 /\ main' = IF failed THEN "leave" ELSE "append"
        /\ UNCHANGED spoilt /\ ~spoilt /\ target = <<>> /\ index = Len(Order) + 1 /\ Upto(index - 1)
    BY <1>5, OrderIs DEF Collected, CallInv, FetchTypes
  <2>2. Upto(Len(Order))'
    BY <1>2, <2>1, OrderIs
  <2>3. FetchTypes'
    BY <1>1, <2>1, OrderIs DEF FetchTypes, Mains
  <2>4. CASE failed
    BY <1>1, <2>1, <2>2, <2>3, <2>4 DEF CallInv
  <2>5. CASE ~failed
    <3>1. \A j \in 1 .. Len(Order) : get[Order[j]] = "done"
      BY <2>1, <2>5, OrderIs DEF Upto
    <3>2. \A j \in 1 .. Len(Order) : chunkFile[Name(Order[j])] = Order[j]
      BY <2>1, <3>1, OrderIs DEF FilesInv
    <3>3. target' = [j \in 1 .. index' - 1 |-> Order[j]]
      BY <1>1, <2>1
    <3> QED  BY <1>1, <2>1, <2>2, <2>3, <2>5, <3>2, <3>3 DEF CallInv
  <2> QED  BY <2>3, <2>4, <2>5
<1> QED  BY <1>3, <1>4, <1>5

\* The chunks are appended, one after the other; each file is there.
LEMMA AppendKeepsInv ==
  ASSUME NamesApart, DownloadInv, AppendChunk \/ Appended
  PROVE  DownloadInv'
<1> USE DEF DownloadInv
<1>1. /\ main = "append" /\ ~failed /\ Upto(Len(Order)) /\ target = [j \in 1 .. index - 1 |-> Order[j]]
      /\ \A j \in 1 .. Len(Order) : chunkFile[Name(Order[j])] = IF j < index THEN Gone ELSE Order[j]
      /\ UNCHANGED <<get, finished, failed, spoilt>> /\ finished = [j \in 1 .. Len(Order) |-> Name(Order[j])]
      /\ index \in 1 .. Len(Order) + 1
  BY DEF AppendChunk, Appended, CallInv, FetchTypes, Upto
<1>2. Len(finished) = Len(Order)
  BY <1>1, OrderIs DEF FetchTypes
<1>3. Upto(Len(Order))'
  BY <1>1 DEF Upto
<1>4. CASE Appended
  <2>1. main' = "returned" /\ UNCHANGED <<chunkFile, index, target>> /\ index = Len(Order) + 1
    BY <1>1, <1>2, <1>4, OrderIs DEF Appended
  <2> QED  BY <1>1, <1>3, <2>1 DEF FetchTypes, FilesInv, CallInv, Mains
<1>5. CASE AppendChunk
  <2> DEFINE s == Order[index]
  <2>1. index \in 1 .. Len(Order) /\ s \in Starts /\ finished[index] = Name(s) /\ chunkFile[Name(s)] = s /\ s # Gone /\ get[s] = "done"
    <3>1. index \in 1 .. Len(Order)
      BY <1>1, <1>2, <1>5 DEF AppendChunk
    <3>2. s \in Starts /\ s # Gone
      BY <3>1, OrderIs DEF Gone
    <3>3. get[s] = "done"
      BY <1>1, <3>1 DEF Upto
    <3>4. finished[index] = Name(s) /\ chunkFile[Name(s)] = s
      BY <1>1, <3>1
    <3> QED  BY <3>1, <3>2, <3>3, <3>4
  <2>2. /\ target' = Append(target, s) /\ chunkFile' = [chunkFile EXCEPT ![Name(s)] = Gone]
        /\ index' = index + 1 /\ UNCHANGED main
    BY <1>5, <2>1 DEF AppendChunk
  <2>3. target' = [j \in 1 .. index |-> Order[j]]
    BY <1>1, <2>1, <2>2, OrderIs
  <2>4. \A t \in Starts : chunkFile'[Name(t)] = IF t = s THEN Gone ELSE chunkFile[Name(t)]
    BY <2>1, <2>2, NamesAre DEF FetchTypes, NamesApart
  <2>5. FetchTypes'
    BY <1>1, <2>1, <2>2, OrderIs DEF FetchTypes
  <2>6. FilesInv'
    BY <1>1, <2>1, <2>2, <2>4 DEF FilesInv
  <2>7. ASSUME NEW j \in 1 .. Len(Order)
        PROVE  chunkFile'[Name(Order[j])] = IF j < index' THEN Gone ELSE Order[j]
    <3>1. CASE j = index
      BY <2>1, <2>2, <2>4, <3>1
    <3>2. CASE j # index
      <4>1. Order[j] # s /\ Order[j] \in Starts
        BY <2>1, <3>2, OrderIsInjective, OrderIs
      <4>2. j < index <=> j < index + 1
        BY <2>1, <3>2
      <4> QED  BY <1>1, <2>2, <2>4, <4>1, <4>2
    <3> QED  BY <3>1, <3>2
  <2>8. target' = [j \in 1 .. index' - 1 |-> Order[j]]
    BY <2>1, <2>2, <2>3
  <2> QED  BY <1>1, <1>3, <2>2, <2>5, <2>6, <2>7, <2>8 DEF CallInv
<1> QED  BY <1>4, <1>5

\* The pool is left, and what was collected is removed.
LEMMA LeaveKeepsInv ==
  ASSUME DownloadInv, LeavePool \/ Discard
  PROVE  DownloadInv'
<1> USE DEF DownloadInv
<1>1. UNCHANGED <<get, index, finished, failed, target, spoilt>>
  BY DEF LeavePool, Discard
<1>2. \A k : Upto(k)' <=> Upto(k)
  BY <1>1 DEF Upto
<1>3. CASE LeavePool
  BY <1>1, <1>2, <1>3 DEF LeavePool, FetchTypes, FilesInv, CallInv, Mains
<1>4. CASE Discard
  <2>1. /\ main = "discard" /\ main' = "raised"
        /\ chunkFile' = [n \in Names |-> IF n \in Range(finished) THEN Gone ELSE chunkFile[n]]
    BY <1>4 DEF Discard
  <2>2. FetchTypes'
    BY <1>1, <2>1 DEF FetchTypes, Mains
  <2>3. FilesInv'
    BY <1>1, <2>1, NamesAre DEF FilesInv, CallInv
  <2>4. ASSUME ~spoilt, NEW n \in Names PROVE chunkFile'[n] = Gone
    <3>1. PICK j \in 1 .. Len(Order) : n = Name(Order[j]) /\ Order[j] \in Starts
      BY OrderIs DEF Names
    <3>2. get[Order[j]] = "failed" => chunkFile[n] = Gone
      BY <3>1 DEF FilesInv
    <3>3. get[Order[j]] = "done" => n \in Range(finished)
      BY <2>1, <2>4, <3>1 DEF CallInv, Upto, Range
    <3> QED  BY <2>1, <3>1, <3>2, <3>3 DEF CallInv
  <2> QED  BY <1>1, <2>1, <2>2, <2>3, <2>4 DEF CallInv
<1> QED  BY <1>3, <1>4

LEMMA DownloadStepsKeepInv ==
  ASSUME NamesApart
  PROVE  DownloadInv /\ [DownloadNext]_downloadVars => DownloadInv'
<1> SUFFICES ASSUME DownloadInv, [DownloadNext]_downloadVars PROVE DownloadInv'
  OBVIOUS
<1>1. CASE Fetch \/ Collect \/ OnProgress(TRUE) \/ OnProgress(FALSE) \/ Collected
  BY <1>1, FetchKeepsInv, CollectKeepsInv, ProgressKeepsInv
<1>2. CASE AppendChunk \/ Appended \/ LeavePool \/ Discard
  BY <1>2, AppendKeepsInv, LeaveKeepsInv
<1>3. CASE \E s \in Starts : GetStart(s) \/ GetDone(s) \/ GetFails(s)
  BY <1>3, GetsKeepInv
<1>4. CASE UNCHANGED downloadVars
  BY <1>4 DEF downloadVars, DownloadInv, FetchTypes, FilesInv, CallInv, Upto
<1> QED  BY <1>1, <1>2, <1>3, <1>4 DEF DownloadNext, DownloadStep, DownloadFault

LEMMA DownloadIsOrder == DownloadInv => DownloadIsWhole
<1> SUFFICES ASSUME DownloadInv PROVE DownloadIsWhole
  OBVIOUS
<1>1. ASSUME main = "returned" PROVE target = Order /\ \A n \in Names : chunkFile[n] = Gone
  <2>1. /\ index = Len(Order) + 1 /\ target = [j \in 1 .. index - 1 |-> Order[j]]
        /\ \A j \in 1 .. Len(Order) : chunkFile[Name(Order[j])] = IF j < index THEN Gone ELSE Order[j]
    BY <1>1 DEF DownloadInv, CallInv
  <2>2. target = [j \in 1 .. Len(Order) |-> Order[j]]
    BY <2>1, OrderIs
  <2>3. Order = [j \in 1 .. Len(Order) |-> Order[j]]
    BY OrderIs
  <2>4. \A j \in 1 .. Len(Order) : chunkFile[Name(Order[j])] = Gone
    BY <2>1, OrderIs
  <2> QED  BY <2>2, <2>3, <2>4, OrderIs DEF Names
<1> QED  BY <1>1 DEF DownloadInv, CallInv, DownloadIsWhole

FetchCounted ==
  /\ \A s \in Starts : get[s] \in {"none", "queued"} => tries[s] < Retries
  /\ main = "off" => \A s \in Starts : get[s] = "none"
  /\ main \in {"off", "collect"} => Len(finished) <= index - 1
  /\ main = "progress" => index <= Len(Order) /\ Len(finished) <= index
  /\ main = "append" => Len(finished) <= Len(Order)

DownloadTypes == DownloadTypeOK /\ FetchCounted

LEMMA DownloadTypesInitially == DownloadInit => DownloadTypes
<1> SUFFICES ASSUME DownloadInit PROVE DownloadTypes
  OBVIOUS
<1>1. finished = <<>> /\ target = <<>> /\ Len(finished) = 0 /\ target \in Seq(Starts \cup {Partial}) /\ finished \in Seq(Names)
  BY DEF DownloadInit
<1>2. index = 1 /\ main = "off" /\ Retries \in Nat \ {0} /\ Len(Order) \in Nat \ {0}
  BY Parameters, OrderIs DEF DownloadInit
<1>3. FetchCounted
  BY <1>1, <1>2 DEF DownloadInit, FetchCounted
<1>4. /\ chunkFile \in [Names -> Starts \cup {Gone, Partial}] /\ tries \in [Starts -> 0 .. Retries]
      /\ get \in [Starts -> {"none", "queued", "getting", "done", "failed"}]
  BY <1>2 DEF DownloadInit
<1>5. index \in 1 .. Len(Order) + 1
  BY <1>2
<1> QED  BY <1>1, <1>2, <1>3, <1>4, <1>5 DEF DownloadInit, DownloadTypes, DownloadTypeOK, Mains

LEMMA DownloadTypesStay == DownloadTypes /\ [DownloadNext]_downloadVars => DownloadTypes'
<1> SUFFICES ASSUME DownloadTypes, [DownloadNext]_downloadVars PROVE DownloadTypes'
  OBVIOUS
<1> USE DEF DownloadTypes, DownloadTypeOK, FetchCounted
<1>1. CASE UNCHANGED downloadVars
  BY <1>1 DEF downloadVars
<1>2. CASE Fetch
  <2>1. get' = [s \in Starts |-> "queued"] /\ main' = "collect" /\ main = "off"
    BY <1>2 DEF Fetch
  <2>2. UNCHANGED <<chunkFile, tries, index, finished, failed, target, faulty, spoilt>>
    BY <1>2 DEF Fetch
  <2>3. \A s \in Starts : tries[s] < Retries
    BY <2>1
  <2> QED  BY <2>1, <2>2, <2>3 DEF Mains
<1>3. ASSUME NEW s \in Starts, GetStart(s) PROVE DownloadTypes'
  <2>1. tries[s] < Retries /\ get' = [get EXCEPT ![s] = "getting"] /\ tries' = [tries EXCEPT ![s] = @ + 1]
    BY <1>3 DEF GetStart
  <2>2. tries' \in [Starts -> 0 .. Retries]
    BY <2>1, Parameters
  <2>3. chunkFile' \in [Names -> Starts \cup {Gone, Partial}]
    BY <1>3 DEF GetStart
  <2>4. \A t \in Starts : get'[t] \in {"none", "queued"} => tries'[t] < Retries
    BY <2>1
  <2> QED  BY <1>3, <2>1, <2>2, <2>3, <2>4 DEF GetStart
<1>4. ASSUME NEW s \in Starts, GetDone(s) \/ GetFails(s) PROVE DownloadTypes'
  BY <1>4 DEF GetDone, GetFails
<1>5. CASE Collect
  <2>1. index \in 1 .. Len(Order) /\ Len(Order) \in Nat /\ Len(finished) \in Nat
    BY <1>5, OrderIs DEF Collect
  <2>2. Order[index] \in Starts
    BY <2>1, OrderIs
  <2>3. Name(Order[index]) \in Names
    BY <2>2, NamesAre
  <2>4. CASE finished' = Append(finished, Name(Order[index])) /\ main' = "progress" /\ UNCHANGED <<failed, index>>
    <3>1. finished' \in Seq(Names) /\ Len(finished') = Len(finished) + 1
      BY <2>3, <2>4
    <3> QED  BY <1>5, <2>1, <2>4, <3>1 DEF Collect, Mains
  <2>5. CASE failed' = TRUE /\ index' = index + 1 /\ UNCHANGED <<finished, main>>
    BY <1>5, <2>1, <2>5 DEF Collect, Mains
  <2> QED  BY <1>5, <2>4, <2>5 DEF Collect
<1>6. CASE OnProgress(TRUE) \/ OnProgress(FALSE)
  <2>1. main = "progress" /\ index \in 1 .. Len(Order) /\ Len(Order) \in Nat /\ Len(finished) \in Nat /\ Len(finished) <= index
    BY <1>6, OrderIs DEF OnProgress
  <2>2. UNCHANGED <<chunkFile, get, tries, finished, failed, target, faulty>>
    BY <1>6 DEF OnProgress
  <2>3. CASE main' = "leave" /\ spoilt' = TRUE /\ UNCHANGED index
    BY <2>1, <2>2, <2>3 DEF Mains
  <2>4. CASE main' = "collect" /\ index' = index + 1 /\ UNCHANGED spoilt
    <3>1. index' \in 1 .. Len(Order) + 1 /\ Len(finished) <= index' - 1
      BY <2>1, <2>4
    <3> QED  BY <2>1, <2>2, <2>4, <3>1 DEF Mains
  <2> QED  BY <1>6, <2>3, <2>4 DEF OnProgress
<1>7. CASE Collected
  BY <1>7, OrderIs DEF Collected, Mains
<1>8. CASE AppendChunk
  <2>1. index <= Len(finished) /\ Len(finished) <= Len(Order) /\ index \in 1 .. Len(finished) /\ Len(Order) \in Nat
    BY <1>8, OrderIs DEF AppendChunk
  <2>2. finished[index] \in Names
    BY <2>1
  <2>3. chunkFile[finished[index]] \in Starts \cup {Gone, Partial}
    BY <2>2
  <2>4. CASE main' = "leave" /\ UNCHANGED <<chunkFile, target, index>>
    BY <1>8, <2>4 DEF AppendChunk, Mains
  <2>5. CASE /\ chunkFile[finished[index]] # Gone /\ target' = Append(target, chunkFile[finished[index]])
             /\ chunkFile' = [chunkFile EXCEPT ![finished[index]] = Gone]
             /\ index' = index + 1 /\ UNCHANGED main
    <3>1. target' \in Seq(Starts \cup {Partial})
      BY <2>3, <2>5
    <3>2. chunkFile' \in [Names -> Starts \cup {Gone, Partial}] /\ index' \in 1 .. Len(Order) + 1
      BY <2>1, <2>5
    <3> QED  BY <1>8, <2>5, <3>1, <3>2 DEF AppendChunk
  <2> QED  BY <1>8, <2>4, <2>5 DEF AppendChunk
<1>9. CASE Appended \/ LeavePool \/ Discard
  BY <1>9 DEF Appended, LeavePool, Discard, Mains
<1> QED
  BY <1>1, <1>2, <1>3, <1>4, <1>5, <1>6, <1>7, <1>8, <1>9 DEF DownloadNext, DownloadStep, DownloadFault

-----------------------------------------------------------------------------
(* A progress subscription.                                                *)

Snapped == watcher \in {"show", "showLast"} => snapshot \in {"running", "final"}

\* The last look at the source is at one that is done, and what it gives is
\* final; so is what comes after a snapshot that was.
Lasting ==
  /\ watcher \in {"last", "showLast", "lastCallback"} => isDone
  /\ snapshot = "final" => isDone
  /\ watcher = "showLast" => snapshot = "final"
  /\ watcher = "lastCallback" => shown # <<>> /\ shown[Len(shown)] = "final"
  /\ \A i \in DOMAIN shown : shown[i] = "final" => isDone /\ (watcher = "show" => snapshot = "final")

ProgressInv == ProgressTypeOK /\ Snapped /\ Lasting /\ FinalShownLast

LEMMA ProgressInitially == ProgressInit => ProgressInv
<1> SUFFICES ASSUME ProgressInit PROVE ProgressInv
  OBVIOUS
<1>1. shown = <<>> /\ DOMAIN shown = {} /\ shown \in Seq({"running", "final"})
  BY DEF ProgressInit
<1> QED  BY <1>1 DEF ProgressInit, ProgressInv, ProgressTypeOK, Snapped, Lasting, FinalShownLast

LEMMA ShowKeepsInv ==
  ASSUME ProgressInv, Show
  PROVE  ProgressInv'
<1>1. shown \in Seq({"running", "final"})
  BY DEF ProgressInv, ProgressTypeOK
<1>2. CASE stopEvent
  BY <1>2 DEF Show, ProgressInv, ProgressTypeOK, Snapped, Lasting, FinalShownLast
<1>3. CASE ~stopEvent
  <2>1. snapshot \in {"running", "final"} /\ shown' = Append(shown, snapshot)
        /\ watcher' = (IF watcher = "show" THEN "callback" ELSE "lastCallback")
        /\ watcher \in {"show", "showLast"} /\ UNCHANGED <<isDone, snapshot, stopEvent, stopper>>
    BY <1>3 DEF Show, ProgressInv, Snapped
  <2>2. shown' \in Seq({"running", "final"}) /\ Len(shown') = Len(shown) + 1 /\ shown'[Len(shown')] = snapshot
        /\ \A i \in DOMAIN shown : shown'[i] = shown[i]
    BY <1>1, <2>1
  <2>3. Len(shown) \in Nat /\ DOMAIN shown = 1 .. Len(shown) /\ DOMAIN shown' = 1 .. Len(shown) + 1
    BY <1>1, <2>2
  <2>4. snapshot = "final" => isDone
    BY DEF ProgressInv, Lasting
  <2>5. Snapped' /\ ProgressTypeOK'
    BY <2>1, <2>2 DEF ProgressInv, ProgressTypeOK, Snapped
  <2>6. ASSUME NEW i \in DOMAIN shown', shown'[i] = "final" PROVE isDone /\ snapshot = "final"
    <3>1. CASE i \in DOMAIN shown
      BY <2>1, <2>2, <2>6, <3>1 DEF ProgressInv, Lasting
    <3>2. CASE i = Len(shown')
      BY <2>2, <2>4, <2>6, <3>2
    <3> QED  BY <2>2, <2>3, <3>1, <3>2
  <2>7. Lasting'
    <3>1. watcher' = "lastCallback" => isDone /\ snapshot = "final" /\ shown' # <<>>
      BY <2>1, <2>2, <2>3 DEF ProgressInv, Lasting
    <3> QED  BY <2>1, <2>2, <2>4, <2>6, <3>1 DEF Lasting
  <2>8. ASSUME NEW i \in DOMAIN shown', shown'[i] = "final", NEW j \in i .. Len(shown') PROVE shown'[j] = "final"
    <3>1. CASE j \in DOMAIN shown
      <4>1. i \in DOMAIN shown /\ j \in i .. Len(shown)
        BY <2>3, <3>1
      <4> QED  BY <2>2, <2>8, <3>1, <4>1 DEF ProgressInv, FinalShownLast
    <3>2. CASE j = Len(shown')
      BY <2>2, <2>6, <2>8, <3>2
    <3> QED  BY <2>2, <2>3, <3>1, <3>2
  <2>9. watcher' # "ended"
    BY <2>1
  <2> QED  BY <2>5, <2>7, <2>8, <2>9 DEF ProgressInv, FinalShownLast
<1> QED  BY <1>2, <1>3

LEMMA ProgressStepsKeepInv == ProgressInv /\ [ProgressStep \/ ProgressCall]_progressVars => ProgressInv'
<1> SUFFICES ASSUME ProgressInv, [ProgressStep \/ ProgressCall]_progressVars PROVE ProgressInv'
  OBVIOUS
<1> USE DEF ProgressInv, ProgressTypeOK, Snapped, Lasting, FinalShownLast
<1>1. CASE Subscribe \/ Settle \/ Stop \/ Joined \/ JoinTimesOut \/ UNCHANGED progressVars
  BY <1>1 DEF Subscribe, Settle, Stop, Joined, JoinTimesOut, progressVars
<1>2. CASE LookDone \/ TakeSnapshot
  BY <1>2 DEF LookDone, TakeSnapshot, Now
<1>3. CASE CallbackEnds(TRUE) \/ CallbackEnds(FALSE)
  BY <1>3 DEF CallbackEnds
<1>4. CASE Show
  BY <1>4, ShowKeepsInv
<1> QED  BY <1>1, <1>2, <1>3, <1>4 DEF ProgressStep, ProgressCall

-----------------------------------------------------------------------------
(* A list operation read in pages.                                         *)

Increasing(s) == \A i, j \in DOMAIN s : i < j => s[i] < s[j]

\* The entries taken from the batches so far.
Taken == IF pager = "batch" THEN batch.from - 1 ELSE pulled

InBatch ==
  /\ cursor = "none" => pager = "off"
  /\ pager = "batch" => batch.to = pulled /\ batch.from <= pulled + 1
  /\ pager = "batch" /\ batch.last # "no" => batch.last = ending /\ pulled = listed

\* What was yielded, and the page that is filled: all that was taken.
Filled ==
  /\ Increasing(Given \o page) /\ Range(Given \o page) = Accepted(Taken)
  /\ ending = "done" => listed = Items
  /\ pager = "returned" => pulled = Items /\ page = <<>>

StreamInv == StreamTypeOK /\ InBatch /\ Filled

StreamNext == StreamStep \/ StreamCall \/ StreamFault

LEMMA RangeIs == ASSUME NEW s PROVE Range(s) = {s[i] : i \in DOMAIN s}
  BY DEF Range

LEMMA PagesGive ==
  ASSUME pages \in Seq(Seq(1 .. Items)), NEW s \in Seq(1 .. Items)
  PROVE  Given \in Seq(1 .. Items) /\ FlattenSeq(Append(pages, s)) = Given \o s
  BY FlattenAppend DEF Given

\* One entry more.
LEMMA OneMore ==
  ASSUME NEW s \in Seq(Nat), NEW n \in Nat, Increasing(s), Range(s) = Accepted(n), n + 1 \notin Rejected
  PROVE  Increasing(Append(s, n + 1)) /\ Range(Append(s, n + 1)) = Accepted(n + 1)
<1> DEFINE t == Append(s, n + 1)
<1>1. DOMAIN t = 1 .. Len(s) + 1 /\ DOMAIN s = 1 .. Len(s) /\ Len(s) \in Nat
      /\ t[Len(s) + 1] = n + 1 /\ \A i \in DOMAIN s : t[i] = s[i] /\ s[i] \in Nat
  OBVIOUS
<1>2. Range(t) = Range(s) \cup {n + 1}
  <2> HIDE DEF t
  <2> QED  BY <1>1 DEF Range
<1>3. Accepted(n + 1) = Accepted(n) \cup {n + 1}
  BY DEF Accepted
<1>4. \A i \in DOMAIN s : s[i] < n + 1
  <2>1. \A x \in Accepted(n) : x < n + 1
    BY DEF Accepted
  <2> QED  BY <2>1 DEF Range
<1> HIDE DEF t
<1>5. Increasing(t)
  BY <1>1, <1>4 DEF Increasing
<1> QED  BY <1>2, <1>3, <1>5 DEF t

LEMMA StreamParameters ==
  Items \in Nat /\ Rejected \subseteq 1 .. Items /\ BatchSize \in Nat \ {0} /\ PageSize \in Nat \ {0}
  BY StreamAssumption

LEMMA StreamInitially == StreamInit => StreamInv
<1> SUFFICES ASSUME StreamInit PROVE StreamInv
  OBVIOUS
<1>1. pages = <<>> /\ page = <<>> /\ Given = <<>>
  BY DEF StreamInit, Given, FlattenSeq
<1>2. Given \o page = <<>> /\ DOMAIN (Given \o page) = {} /\ Range(Given \o page) = {}
  BY <1>1 DEF Range
<1>3. Taken = 0 /\ Accepted(0) = {}
  BY DEF StreamInit, Taken, Accepted
<1>4. StreamTypeOK
  BY <1>1, StreamParameters DEF StreamInit, StreamTypeOK, NoBatch
<1> QED  BY <1>2, <1>3, <1>4 DEF StreamInit, StreamInv, InBatch, Filled, Increasing

LEMMA RcloneKeepsInv ==
  ASSUME StreamInv, OpenStream \/ CloseStream \/ ListMore \/ ListEnds("done") \/ ListEnds("error") \/ NextBatch
  PROVE  StreamInv'
<1> USE DEF StreamInv
<1>1. UNCHANGED <<page, pages>> /\ (Given \o page)' = Given \o page
  BY DEF OpenStream, CloseStream, ListMore, ListEnds, NextBatch, Given
<1>2. StreamTypeOK'
  BY StreamParameters DEF OpenStream, CloseStream, ListMore, ListEnds, NextBatch, StreamTypeOK
<1>3. InBatch' /\ Taken' = Taken
  <2>1. CASE NextBatch
    <3>1. pager = "next" /\ Taken = pulled /\ UNCHANGED <<listed, ending, cursor>> /\ pulled \in Nat /\ listed \in Nat
      BY <2>1, StreamParameters DEF NextBatch, Taken, StreamTypeOK
    <3>2. CASE cursor # "open"
      BY <2>1, <3>1, <3>2 DEF NextBatch, InBatch, Taken
    <3>3. CASE cursor = "open"
      <4>1. PICK m : m = IF listed > pulled + BatchSize THEN pulled + BatchSize ELSE listed
        OBVIOUS
      <4>2. pulled' = m /\ pager' = "batch"
            /\ batch' = [from |-> pulled + 1, to |-> m, last |-> IF m = listed THEN ending ELSE "no"]
        BY <2>1, <3>3, <4>1 DEF NextBatch
      <4>3. m \in Nat /\ pulled <= m
        BY <3>1, <4>1, StreamParameters DEF StreamTypeOK
      <4>4. batch'.from = pulled + 1 /\ batch'.to = m /\ (batch'.last # "no" => batch'.last = ending /\ m = listed)
        BY <4>2
      <4>5. Taken' = pulled
        BY <3>1, <4>2, <4>4 DEF Taken
      <4> QED  BY <3>1, <3>3, <4>2, <4>3, <4>4, <4>5 DEF InBatch
    <3> QED  BY <3>2, <3>3
  <2>2. CASE OpenStream \/ CloseStream

    BY <2>2 DEF OpenStream, CloseStream, StreamTypeOK, InBatch, Taken
  <2>3. CASE ListMore \/ ListEnds("done") \/ ListEnds("error")
    BY <2>3 DEF ListMore, ListEnds, StreamTypeOK, InBatch, Taken
  <2> QED  BY <2>1, <2>2, <2>3
<1>4. (ending' = "done" => listed' = Items) /\ (pager' = "returned" => pulled' = Items /\ page' = <<>>)
  BY DEF OpenStream, CloseStream, ListMore, ListEnds, NextBatch, Filled
<1> QED  BY <1>1, <1>2, <1>3, <1>4 DEF Filled

LEMMA EndKeepsInv ==
  ASSUME StreamInv, BatchEnds
  PROVE  StreamInv'
<1> USE DEF StreamInv
<1>1. pages \in Seq(Seq(1 .. Items)) /\ page \in Seq(1 .. Items)
  BY DEF StreamTypeOK
<1>2. UNCHANGED <<listed, pulled, ending, cursor>> /\ batch' = NoBatch /\ pager' # "batch" /\ pager = "batch"
      /\ batch.from > batch.to
  BY DEF BatchEnds, StreamTypeOK, InBatch
<1>3. Taken' = Taken
  BY <1>2 DEF Taken, InBatch, StreamTypeOK
<1>4. pages' \in Seq(Seq(1 .. Items)) /\ page' \in Seq(1 .. Items) /\ Len(page') < PageSize
      /\ (Given \o page)' = Given \o page
  <2>1. CASE pages' = Append(pages, page) /\ page' = <<>>
    <3>1. Given' = Given \o page /\ Given \in Seq(1 .. Items)
      BY <1>1, <2>1, PagesGive DEF Given
    <3>2. Given' \o page' = Given \o page
      BY <1>1, <2>1, <3>1
    <3> QED  BY <1>1, <2>1, <3>2, StreamParameters
  <2>2. CASE UNCHANGED <<page, pages>>
    BY <1>1, <2>2 DEF Given, StreamTypeOK
  <2> QED  BY <2>1, <2>2 DEF BatchEnds, StreamTypeOK
<1>5. StreamTypeOK'
  <2>1. NoBatch \in [from : 1 .. Items + 1, to : 0 .. Items, last : {"no", "done", "error"}]
    BY StreamParameters DEF NoBatch
  <2>2. pager' \in {"next", "raised", "returned"}
    BY DEF BatchEnds, StreamTypeOK
  <2> QED  BY <1>2, <1>4, <2>1, <2>2 DEF StreamTypeOK
<1>6. pager' = "returned" => pulled' = Items /\ page' = <<>>
  BY <1>1, <1>2 DEF BatchEnds, InBatch, Filled, StreamTypeOK
<1>7. Filled'
  BY <1>2, <1>3, <1>4, <1>6 DEF Filled
<1> QED  BY <1>2, <1>5, <1>7 DEF InBatch

LEMMA TakeEntryKeepsInv ==
  ASSUME StreamInv, TakeItem
  PROVE  StreamInv'
<1> USE DEF StreamInv
<1> DEFINE x      == batch.from
           longer == IF x \in Rejected THEN page ELSE Append(page, x)
<1>1. pages \in Seq(Seq(1 .. Items)) /\ page \in Seq(1 .. Items) /\ Given \in Seq(1 .. Items)
  BY PagesGive DEF StreamTypeOK
<1>2. UNCHANGED <<listed, pulled, ending, cursor, pager>> /\ pager = "batch" /\ batch' = [batch EXCEPT !.from = x + 1]
      /\ x \in 1 .. Items /\ x <= batch.to
  BY StreamParameters DEF TakeItem, StreamTypeOK
<1>3. Taken = x - 1 /\ Taken' = x
  BY <1>2 DEF Taken, StreamTypeOK
<1>4. longer \in Seq(1 .. Items) /\ Increasing(Given \o longer) /\ Range(Given \o longer) = Accepted(x)
  <2>1. CASE x \in Rejected
    <3>1. Accepted(x) = Accepted(x - 1)
      BY <1>2, <2>1 DEF Accepted
    <3> QED  BY <1>1, <1>3, <2>1, <3>1 DEF Filled
  <2>2. CASE x \notin Rejected
    <3>1. Given \o Append(page, x) = Append(Given \o page, x)
      BY <1>1, <1>2
    <3>2. x - 1 \in Nat /\ (x - 1) + 1 = x
      BY <1>2, StreamParameters
    <3>5. Given \o page \in Seq(1 .. Items)
      BY <1>1
    <3>6. Given \o page \in Seq(Nat)
      BY <3>5, StreamParameters
    <3>3. Increasing(Given \o page) /\ Range(Given \o page) = Accepted(x - 1)
      BY <1>3 DEF Filled
    <3>4. Increasing(Append(Given \o page, x)) /\ Range(Append(Given \o page, x)) = Accepted(x)
      BY <2>2, <3>2, <3>3, <3>6, OneMore
    <3>7. longer = Append(page, x) /\ longer \in Seq(1 .. Items)
      BY <1>1, <1>2, <2>2
    <3> QED  BY <3>1, <3>4, <3>7
  <2> QED  BY <2>1, <2>2
<1>5. (Given \o page)' = Given \o longer /\ pages' \in Seq(Seq(1 .. Items)) /\ page' \in Seq(1 .. Items)
      /\ Len(page') < PageSize
  <2>1. CASE pages' = Append(pages, longer) /\ page' = <<>>
    <3> HIDE DEF longer
    <3>1. Given' = Given \o longer
      BY <1>1, <1>4, <2>1, PagesGive DEF Given
    <3>2. Given' \o page' = Given \o longer
      BY <1>1, <1>4, <2>1, <3>1
    <3> QED  BY <1>1, <1>4, <2>1, <3>2, StreamParameters
  <2>2. CASE page' = longer /\ UNCHANGED pages /\ ~(Len(longer) >= PageSize)
    <3> HIDE DEF longer
    <3> QED  BY <1>1, <1>4, <2>2, StreamParameters DEF Given
  <2> QED  BY <2>1, <2>2 DEF TakeItem
<1>6. StreamTypeOK' /\ InBatch'
  <2>1. batch \in [from : 1 .. Items + 1, to : 0 .. Items, last : {"no", "done", "error"}]
        /\ cursor # "none" /\ batch.to = pulled
    BY <1>2 DEF StreamTypeOK, InBatch
  <2>2. x + 1 \in 1 .. Items + 1
    BY <1>2, StreamParameters
  <2>3. batch' \in [from : 1 .. Items + 1, to : 0 .. Items, last : {"no", "done", "error"}]
        /\ batch'.from = x + 1 /\ batch'.to = batch.to /\ batch'.last = batch.last
    BY <1>2, <2>1, <2>2
  <2> HIDE DEF x
  <2>4. StreamTypeOK'
    BY <1>2, <1>5, <2>3 DEF StreamTypeOK
  <2>5. x \in Int /\ x <= pulled /\ pulled \in Int
    BY <1>2, <2>1, StreamParameters DEF StreamTypeOK
  <2> QED  BY <1>2, <2>1, <2>3, <2>4, <2>5 DEF InBatch
<1> HIDE DEF longer
<1>7. Filled'
  BY <1>2, <1>3, <1>4, <1>5 DEF Filled
<1> QED  BY <1>6, <1>7

LEMMA StreamStepsKeepInv == StreamInv /\ [StreamNext]_streamVars => StreamInv'
<1> SUFFICES ASSUME StreamInv, [StreamNext]_streamVars PROVE StreamInv'
  OBVIOUS
<1>1. CASE UNCHANGED streamVars
  BY <1>1 DEF streamVars, StreamInv, StreamTypeOK, InBatch, Filled, Taken, Given
<1> QED  BY <1>1, RcloneKeepsInv, EndKeepsInv, TakeEntryKeepsInv DEF StreamNext, StreamStep, StreamCall, StreamFault

LEMMA StreamIsAll == StreamInv => StreamIsWhole
<1> SUFFICES ASSUME StreamInv PROVE StreamIsWhole
  OBVIOUS
<1> DEFINE all == Given \o page
<1>1. Given \in Seq(1 .. Items) /\ page \in Seq(1 .. Items) /\ Increasing(all) /\ Range(all) = Accepted(Taken)
  BY PagesGive DEF StreamInv, StreamTypeOK, Filled
<1>2. Taken \in 0 .. Items
  BY StreamParameters DEF StreamInv, StreamTypeOK, InBatch, Taken
<1>3. /\ all \in Seq(1 .. Items) /\ Len(all) = Len(Given) + Len(page) /\ DOMAIN all = 1 .. Len(all)
      /\ DOMAIN Given = 1 .. Len(Given) /\ DOMAIN page = 1 .. Len(page) /\ Len(Given) \in Nat /\ Len(page) \in Nat
      /\ \A i \in DOMAIN Given : all[i] = Given[i]
      /\ \A i \in DOMAIN page : all[Len(Given) + i] = page[i]
  BY <1>1
<1> HIDE DEF all
<1>4. \A i, j \in DOMAIN Given : i < j => Given[i] < Given[j]
  BY <1>1, <1>3 DEF Increasing
<1>7. \A i \in DOMAIN Given : Given[i] \in 1 .. Items
  <2>1. ASSUME NEW S, NEW s \in Seq(S) PROVE \A i \in DOMAIN s : s[i] \in S
    BY ElementOfSeq
  <2> QED  BY <1>1, <2>1
<1>5. CASE page = <<>>
  <2>1. Range(Given) = Range(all)
    BY <1>3, <1>5 DEF Range
  <2>2. pager = "returned" => Taken = Items
    BY DEF StreamInv, Filled, Taken
  <2> QED  BY <1>1, <1>2, <1>4, <2>1, <2>2 DEF StreamIsWhole
<1>6. CASE page # <<>>
  <2> DEFINE n == page[1] - 1
  <2>1. 1 \in DOMAIN page /\ page[1] \in 1 .. Items /\ n \in 0 .. Items
    BY <1>1, <1>6, StreamParameters
  <2>2. page[1] = all[Len(Given) + 1] /\ Len(Given) + 1 \in DOMAIN all
    BY <1>3, <2>1
  <2>3. ASSUME NEW x \in Range(Given) PROVE x \in Accepted(n)
    <3>1. PICK i \in DOMAIN Given : x = Given[i]
      BY DEF Range
    <3>2. all[i] = x /\ i \in DOMAIN all /\ i < Len(Given) + 1
      BY <1>1, <1>3, <3>1
    <3>5. x \in 1 .. Items
      BY <1>7, <3>1
    <3>3. x < page[1]
      BY <1>1, <2>2, <3>2 DEF Increasing
    <3>4. x \in Accepted(Taken)
      BY <1>1, <3>2 DEF Range
    <3> QED  BY <2>1, <3>5, <3>3, <3>4 DEF Accepted
  <2>4. ASSUME NEW x \in Accepted(n) PROVE x \in Range(Given)
    <3>1. page[1] \in Accepted(Taken)
      BY <1>1, <2>2 DEF Range
    <3>2. x \in Accepted(Taken) /\ x < page[1] /\ x \in Nat
      BY <1>2, <2>1, <3>1 DEF Accepted
    <3>3. PICK i \in DOMAIN all : x = all[i]
      BY <1>1, <3>2 DEF Range
    <3>4. i < Len(Given) + 1
      <4> SUFFICES ASSUME i >= Len(Given) + 1 PROVE FALSE
        BY <1>3
      <4>1. page[1] <= x
        <5>1. CASE i = Len(Given) + 1
          BY <2>1, <2>2, <3>3, <5>1
        <5>2. CASE i > Len(Given) + 1
          <6>1. all[Len(Given) + 1] < all[i]
            BY <1>1, <1>3, <2>2, <5>2 DEF Increasing
          <6> QED  BY <2>1, <2>2, <3>2, <3>3, <6>1
        <5> QED  BY <1>3, <5>1, <5>2
      <4> QED  BY <2>1, <3>2, <4>1
    <3>5. i \in DOMAIN Given /\ Given[i] = x
      BY <1>3, <3>3, <3>4
    <3> QED  BY <3>5 DEF Range
  <2>5. Range(Given) = Accepted(n)
    BY <2>3, <2>4
  <2>6. pager # "returned"
    BY <1>6 DEF StreamInv, Filled
  <2> QED  BY <1>4, <2>1, <2>5, <2>6 DEF StreamIsWhole
<1> QED  BY <1>5, <1>6

-----------------------------------------------------------------------------
(* A list of files, in shallow groups.                                     *)

\* The groups of a list.
Groups ==
  UNION {{[dir |-> node, path |-> Subpath(node, e)] : e \in {n \in Nodes : IsPrefix(node, n) /\ Held(n) # {}}} :
         node \in {n \in Nodes : IsGroup(n)}}

GroupInv == listing \subseteq Homes /\ (groups = Pending \/ groups = Groups)

LEMMA GroupInitially == GroupInit => GroupInv
  BY DEF GroupInit, GroupInv

LEMMA GroupStepsKeepInv == GroupInv /\ [Group]_groupVars => GroupInv'
<1> SUFFICES ASSUME GroupInv, [Group]_groupVars PROVE GroupInv'
  OBVIOUS
<1>1. UNCHANGED listing
  BY DEF Group, groupVars
<1>2. Groups' = Groups
  BY <1>1 DEF Groups, Nodes, IsGroup, Merges, Held, ChildNodes
<1>3. CASE Group
  <2>1. groups' = Groups
    BY <1>3 DEF Group, Groups
  <2> QED  BY <1>1, <1>2, <2>1 DEF GroupInv
<1>4. CASE UNCHANGED groupVars
  BY <1>1, <1>2, <1>4 DEF GroupInv, groupVars
<1> QED  BY <1>3, <1>4

LEMMA AboveIs ==
  ASSUME NEW d \in Seq(Nat), NEW e
  PROVE  e \in Above(d) <=> e \in Seq(Nat) /\ IsPrefix(e, d)
<1>1. ASSUME NEW i \in 0 .. Len(d)
      PROVE  SubSeq(d, 1, i) \in Seq(Nat) /\ Len(SubSeq(d, 1, i)) = i /\ IsPrefix(SubSeq(d, 1, i), d)
  BY DEF IsPrefix
<1>2. ASSUME e \in Seq(Nat), IsPrefix(e, d) PROVE e = SubSeq(d, 1, Len(e)) /\ Len(e) \in 0 .. Len(d)
  BY <1>2 DEF IsPrefix
<1> QED  BY <1>1, <1>2 DEF Above

LEMMA ListedAre ==
  ASSUME listing \subseteq Homes
  PROVE  /\ listing \subseteq Seq(Nat) /\ listing \subseteq Nodes /\ Nodes \subseteq Seq(Nat)
         /\ \A d \in listing, e \in Seq(Nat) : IsPrefix(e, d) => e \in Nodes
<1>1. listing \subseteq Seq(Nat)
  BY HomesAssumption
<1>2. \A d \in Seq(Nat) : IsPrefix(d, d)
  BY DEF IsPrefix
<1> QED  BY <1>1, <1>2, AboveIs DEF Nodes

\* Where no directory is below one of its own name, a node holds itself only.
LEMMA HoldsItself ==
  ASSUME listing \subseteq Homes, Shallow, NEW e \in Nodes, Held(e) # {}
  PROVE  e \in listing
<1>1. PICK d \in listing : IF d = <<>> THEN e = <<>> ELSE e # <<>> /\ e \in Above(d) /\ Last(e) = Last(d)
  BY DEF Held
<1>2. d \in Seq(Nat) /\ e \in Seq(Nat)
  BY ListedAre
<1>3. CASE d # <<>>
  <2>1. IsPrefix(e, d) /\ e # <<>> /\ e[Len(e)] = d[Len(d)]
    BY <1>1, <1>2, <1>3, AboveIs DEF Last
  <2>2. Len(e) \in 1 .. Len(d) /\ Len(d) \in DOMAIN d /\ DOMAIN d = 1 .. Len(d) /\ e = SubSeq(d, 1, Len(e))
    BY <1>2, <2>1 DEF IsPrefix
  <2>3. e[Len(e)] = d[Len(e)]
    BY <1>2, <2>2
  <2>4. Len(e) = Len(d)
    BY <2>1, <2>2, <2>3 DEF Shallow
  <2> QED  BY <1>2, <2>2, <2>4
<1> QED  BY <1>1, <1>3

LEMMA EveryFileHasAGroup ==
  ASSUME listing \subseteq Homes, NEW d \in listing
  PROVE  \E node \in Nodes : IsGroup(node) /\ IsPrefix(node, d) /\ d \in Nodes /\ Held(d) # {}
<1>1. d \in Seq(Nat) /\ d \in Nodes
  BY ListedAre
<1>2. d \in Held(d)
  <2>1. d \in Above(d)
    BY <1>1, AboveIs DEF IsPrefix
  <2> QED  BY <2>1 DEF Held
<1> DEFINE top(i) == SubSeq(d, 1, i)
           T      == {i \in 0 .. Len(d) : Merges(top(i))}
<1>3. \A i \in 0 .. Len(d) : top(i) \in Seq(Nat) /\ Len(top(i)) = i /\ IsPrefix(top(i), d) /\ top(i) \in Nodes
  <2> SUFFICES ASSUME NEW i \in 0 .. Len(d)
               PROVE  top(i) \in Seq(Nat) /\ Len(top(i)) = i /\ IsPrefix(top(i), d) /\ top(i) \in Nodes
    OBVIOUS
  <2>1. top(i) \in Seq(Nat) /\ Len(top(i)) = i /\ IsPrefix(top(i), d)
    BY <1>1 DEF IsPrefix
  <2> QED  BY <2>1, ListedAre
<1>4. top(Len(d)) = d /\ Len(d) \in 0 .. Len(d)
  BY <1>1
<1>5. Len(d) \in T
  BY <1>2, <1>4 DEF Merges
<1>6. T \subseteq Nat /\ T # {}
  BY <1>5
<1> HIDE DEF top
<1>7. PICK i \in T : \A j \in T : i <= j
  <2> HIDE DEF T
  <2> QED  BY <1>6, SmallestNat
<1>8. IsGroup(top(i))
  <2>1. i \in 0 .. Len(d) /\ Merges(top(i))
    BY <1>7
  <2>2. ASSUME NEW e \in Above(top(i)) \ {top(i)} PROVE ~Merges(e)
    <3>1. PICK j \in 0 .. i : e = SubSeq(top(i), 1, j)
      BY <1>3, <2>1, <2>2 DEF Above
    <3>2. e = top(j) /\ j \in 0 .. Len(d)
      BY <1>1, <2>1, <3>1 DEF top
    <3>3. j # i
      BY <2>2, <3>2
    <3>4. j \notin T
      BY <1>7, <2>1, <3>1, <3>3
    <3> QED  BY <3>2, <3>4
  <2> QED  BY <2>1, <2>2 DEF IsGroup
<1> QED  BY <1>1, <1>2, <1>3, <1>7, <1>8

\* A group names a file it has by the way from its directory.
LEMMA NamedAsListed ==
  ASSUME listing \subseteq Homes, Shallow, NEW node \in Nodes, NEW e \in listing, IsGroup(node), IsPrefix(node, e)
  PROVE  node \o Subpath(node, e) = PathOf(e)
<1>1. node \in Seq(Nat) /\ e \in Seq(Nat)
  BY ListedAre
<1>2. CASE e = node
  BY <1>1, <1>2 DEF Subpath, PathOf
<1>3. CASE e # node
  <2>1. Len(e) <= Len(node) + 1 /\ Len(node) <= Len(e) /\ node = SubSeq(e, 1, Len(node))
    BY <1>1 DEF Shallow, IsPrefix
  <2>2. Len(e) # Len(node)
    BY <1>1, <1>3, <2>1
  <2>3. Len(e) = Len(node) + 1 /\ Len(node) \in Nat
    BY <1>1, <2>1, <2>2
  <2> DEFINE named == node \o <<e[Len(e)], 0>>
  <2>4. named \in Seq(Nat) /\ Len(named) = Len(e) + 1 /\ Append(e, 0) \in Seq(Nat) /\ Len(Append(e, 0)) = Len(e) + 1
    BY <1>1, <2>3
  <2>5. ASSUME NEW i \in 1 .. Len(e) + 1 PROVE named[i] = Append(e, 0)[i]
    <3>1. CASE i \in 1 .. Len(node)
      <4>1. named[i] = node[i] /\ node[i] = e[i]
        BY <1>1, <2>1, <2>3, <3>1
      <4> QED  BY <1>1, <2>3, <3>1, <4>1
    <3>2. CASE i = Len(e)
      BY <1>1, <2>3, <3>2
    <3>3. CASE i = Len(e) + 1
      BY <1>1, <2>3, <3>3
    <3> QED  BY <1>1, <2>3, <3>1, <3>2, <3>3
  <2> HIDE DEF named
  <2>6. named = Append(e, 0)
    BY <2>4, <2>5
  <2> QED  BY <1>3, <2>6 DEF named, Subpath, PathOf, Last
<1> QED  BY <1>2, <1>3

LEMMA GroupsNameFiles == GroupInv => ShallowGroupsAreTrue
<1> SUFFICES ASSUME listing \subseteq Homes, Shallow, groups = Groups PROVE Named = {PathOf(d) : d \in listing}
  BY DEF GroupInv, ShallowGroupsAreTrue, GroupsNameTheFiles
<1>1. ASSUME NEW g \in groups PROVE \E d \in listing : g.dir \o g.path = PathOf(d)
  <2>1. PICK node \in Nodes, e \in Nodes :
          IsGroup(node) /\ IsPrefix(node, e) /\ Held(e) # {} /\ g = [dir |-> node, path |-> Subpath(node, e)]
    BY <1>1 DEF Groups
  <2>2. e \in listing
    BY <2>1, HoldsItself
  <2>3. node \o Subpath(node, e) = PathOf(e)
    BY <2>1, <2>2, NamedAsListed
  <2> QED  BY <2>1, <2>2, <2>3
<1>2. ASSUME NEW d \in listing PROVE \E g \in groups : g.dir \o g.path = PathOf(d)
  <2>1. PICK node \in Nodes : IsGroup(node) /\ IsPrefix(node, d) /\ d \in Nodes /\ Held(d) # {}
    BY EveryFileHasAGroup
  <2>2. [dir |-> node, path |-> Subpath(node, d)] \in groups
    BY <2>1 DEF Groups
  <2>3. node \o Subpath(node, d) = PathOf(d)
    BY <2>1, NamedAsListed
  <2> QED  BY <2>2, <2>3
<1>3. \A x : x \in Named <=> \E g \in groups : x = g.dir \o g.path
  BY DEF Named
<1>4. Named \subseteq {PathOf(d) : d \in listing}
  <2> SUFFICES ASSUME NEW x \in Named PROVE \E d \in listing : x = PathOf(d)
    OBVIOUS
  <2>1. PICK g \in groups : x = g.dir \o g.path
    BY <1>3
  <2> QED  BY <1>1, <2>1
<1>5. {PathOf(d) : d \in listing} \subseteq Named
  <2> SUFFICES ASSUME NEW d \in listing PROVE PathOf(d) \in Named
    OBVIOUS
  <2> QED  BY <1>2, <1>3
<1> QED  BY <1>4, <1>5

LEMMA GroupTyped == GroupInv => GroupTypeOK
<1> SUFFICES ASSUME GroupInv PROVE GroupTypeOK
  OBVIOUS
<1> USE DEF GroupInv
<1>1. Nodes \subseteq Seq(Nat)
  BY ListedAre
<1>2. \A g \in Pending : g.dir \in Seq(Nat) /\ g.path \in Seq(Nat)
  <2>1. <<>> \in Seq(Nat)
    OBVIOUS
  <2>2. \A g \in Pending : g.dir = <<>> /\ g.path = <<>>
    BY DEF Pending
  <2> QED  BY <2>1, <2>2
<1>3. ASSUME NEW node \in Nodes, NEW e \in Nodes, IsPrefix(node, e) PROVE Subpath(node, e) \in Seq(Nat)
  <2>1. CASE e = node
    BY <2>1 DEF Subpath
  <2>2. CASE e # node
    <3>1. node \in Seq(Nat) /\ e \in Seq(Nat)
      BY <1>1
    <3>2. e # <<>>
      BY <1>3, <2>2, <3>1 DEF IsPrefix
    <3>3. Last(e) \in Nat
      BY <3>1, <3>2 DEF Last
    <3> QED  BY <2>2, <3>3 DEF Subpath
  <2> QED  BY <2>1, <2>2
<1>4. \A g \in Groups : g.dir \in Seq(Nat) /\ g.path \in Seq(Nat)
  BY <1>1, <1>3 DEF Groups
<1> QED  BY <1>2, <1>4 DEF GroupTypeOK

-----------------------------------------------------------------------------
(* The values upload_file_multipart() keeps.                               *)

\* An edit of the source is one of MaxEdits.
Edits == left \in [tries : Nat, deaths : Nat, mishaps : Nat, edits : Nat] /\ file \in Nat /\ file + left.edits = MaxEdits

InlineStored ==
  /\ {saved, state} \ {Nothing} \subseteq UploadStates
  /\ ctl \in Working \cup {"complete"} => state \in UploadStates
  /\ made \in [file : 0 .. MaxEdits, parts : SUBSET Part] \cup {Nothing}

InlineQueue ==
  /\ held \in Part \cup {Nothing} /\ limit \in 0 .. Chunks /\ next \in 1 .. Chunks + 1 \cup {Nothing}
  /\ fetch \in [Part -> Fetches] /\ queue \in Seq(Part \cup {EOS}) /\ Len(queue) <= 1

InlineTypes == Edits /\ InlineStored /\ InlineQueue

LEMMA InlineTyped == InlineInv /\ InlineTypes => InlineTypeOK
  BY InlineAssumption DEF InlineAssumption, InlineInv, InlineShapes, InlineUploads, InlineTypes, Edits, InlineStored, InlineQueue, InlineTypeOK

LEMMA InlineTypesInitially == InlineInit => InlineTypes
<1> SUFFICES ASSUME InlineInit PROVE InlineTypes
  OBVIOUS
<1>1. queue \in Seq(Part \cup {EOS}) /\ Len(queue) = 0
  BY DEF InlineInit
<1> QED  BY <1>1, InlineAssumption DEF InlineAssumption, InlineInit, InlineTypes, Edits, InlineStored, Working, InlineQueue, Idle, Fetches, Part

LEMMA LeastPart ==
  ASSUME NEW S \in SUBSET Part, S # {}
  PROVE  (CHOOSE n \in S : \A m \in S : n <= m) \in S
<1>1. \E n \in S : \A m \in S : n <= m
  <2>1. S \subseteq Nat
    BY DEF Part
  <2> QED  BY <2>1, SmallestNat
<1> QED  BY <1>1

LEMMA EditsCounted ==
  ASSUME Edits, [InlineNext]_inlineVars
  PROVE  Edits' /\ (file' = file \/ (ctl = "off" /\ file' = file + 1 /\ UNCHANGED <<saved, mpu, made, state>>))
<1>1. CASE Edit
  <2>1. file' = file + 1 /\ ctl = "off" /\ UNCHANGED <<saved, mpu, made, state>>
    BY <1>1 DEF Edit
  <2>2. left.edits > 0 /\ left' = [left EXCEPT !.edits = @ - 1]
    BY <1>1 DEF Edit, Take
  <2> QED  BY <2>1, <2>2 DEF Edits
<1>2. CASE ~Edit
  <2>1. UNCHANGED file
    BY <1>2 DEF InlineNext, InlineStep, Call, Die, Mishap, Finish, BeginNew, BeginResume, BeginChanged, ChunkerFetches,
                ChunkerEnds, RunnerGets, RunnerSubmits, RunnerEnds, FetchGives, Keep, FetchEnds, SendEnds, CompleteInline,
                storedVars, inlineVars
  <2>2. \/ UNCHANGED left
        \/ \E what \in {"tries", "deaths", "mishaps"} : Take(what)
    BY <1>2 DEF InlineNext, InlineStep, Call, Die, Mishap, Finish, BeginNew, BeginResume, BeginChanged, ChunkerFetches,
                ChunkerEnds, RunnerGets, RunnerSubmits, RunnerEnds, FetchGives, Keep, inlineVars
  <2>3. ASSUME NEW what \in {"tries", "deaths", "mishaps"}, Take(what) PROVE Edits'
    BY <2>1, <2>3 DEF Take, Edits
  <2> QED  BY <2>1, <2>2, <2>3 DEF Edits
<1> QED  BY <1>1, <1>2

\* Every multipart upload stays, and more may be opened.
LEMMA UploadsStay ==
  ASSUME InlineInv, InlineNext
  PROVE  DOMAIN mpu \subseteq DOMAIN mpu' /\ (mpu' = Fresh(mpu) => Len(mpu') \in DOMAIN mpu')
<1> USE DEF InlineInv, InlineShapes
<1>1. mpu \in Seq(InlineUploads)
  OBVIOUS
<1>2. ASSUME mpu' = Fresh(mpu) PROVE DOMAIN mpu \subseteq DOMAIN mpu' /\ Len(mpu') \in DOMAIN mpu'
  BY <1>2, FreshHoldsMore
<1>3. ASSUME NEW ids, mpu' = Fresh(Abort(Fresh(mpu), ids)) PROVE DOMAIN mpu \subseteq DOMAIN mpu'
  <2> DEFINE u == Fresh(mpu)
             v == Abort(u, ids)
  <2>1. u \in Seq(InlineUploads) /\ Len(u) = Len(mpu) + 1 /\ Len(mpu) \in Nat
    BY FreshHoldsMore
  <2>2. v \in Seq(InlineUploads) /\ Len(v) = Len(u)
    BY <2>1, AbortHoldsSame
  <2>3. DOMAIN mpu' = 1 .. Len(v) + 1 /\ DOMAIN mpu = 1 .. Len(mpu)
    BY <1>3, <2>2, FreshHoldsMore
  <2> HIDE DEF u, v
  <2> QED  BY <2>1, <2>2, <2>3
<1>4. \/ mpu' = Fresh(mpu) \/ DOMAIN mpu' = DOMAIN mpu
      \/ \E ids : mpu' = Fresh(Abort(Fresh(mpu), ids))
  BY DEF InlineNext, InlineStep, Call, Edit, Die, Mishap, Finish, BeginNew, BeginResume, BeginChanged, ChunkerFetches,
         ChunkerEnds, RunnerGets, RunnerSubmits, RunnerEnds, FetchGives, Keep, FetchEnds, SendEnds, CompleteInline, storedVars
<1> QED  BY <1>2, <1>3, <1>4

LEMMA StoredTyped ==
  ASSUME InlineInv, InlineTypes, InlineNext
  PROVE  InlineStored'
<1> USE DEF InlineInv, InlineShapes, InlineTypes
<1>1. file \in 0 .. MaxEdits /\ file' \in 0 .. MaxEdits
  BY EditsCounted, InlineAssumption DEF InlineAssumption, Edits
<1>2. UploadStates \subseteq UploadStates'
  BY UploadsStay DEF UploadStates
<1>3. made' \in [file : 0 .. MaxEdits, parts : SUBSET Part] \cup {Nothing}
  <2>1. CASE UNCHANGED made
    BY <2>1 DEF InlineStored
  <2>2. CASE ctl = "complete" /\ made' = [file |-> file, parts |-> state.parts]
    BY <1>1, <2>2 DEF Ready
  <2> QED
    BY <2>1, <2>2
      DEF InlineNext, InlineStep, Call, Edit, Die, Mishap, Finish, BeginNew, BeginResume, BeginChanged, ChunkerFetches,
          ChunkerEnds, RunnerGets, RunnerSubmits, RunnerEnds, FetchGives, Keep, FetchEnds, SendEnds, CompleteInline, storedVars
<1>4. CASE BeginNew
  <2>1. PICK chosen : chosen = Empty(Len(mpu'))
    OBVIOUS
  <2>2. chosen \in UploadStates'
    BY <1>1, <1>4, <2>1, UploadsStay DEF BeginNew, Empty, UploadStates
  <2> QED  BY <1>3, <1>4, <2>1, <2>2 DEF BeginNew, Proceed, InlineStored
<1>5. CASE BeginResume
  BY <1>2, <1>3, <1>5 DEF BeginResume, Proceed, InlineStored
<1>6. ASSUME NEW n \in Part, Keep(n) PROVE InlineStored'
  <2>1. ctl \in Working
    BY <1>6 DEF Keep, Quiet
  <2>2. state \in UploadStates /\ state' = [state EXCEPT !.parts = @ \cup {n}] /\ saved' = state' /\ ctl' = ctl
    BY <1>6, <2>1 DEF Keep, InlineStored
  <2>3. state' \in UploadStates
    BY <2>2 DEF UploadStates
  <2> QED  BY <1>2, <1>3, <2>2, <2>3 DEF InlineStored
<1>7. CASE ~ BeginNew /\ ~ BeginResume /\ ~ \E n \in Part : Keep(n)
  <2>1. saved' = saved /\ state' \in {state, Nothing}
    BY <1>7
      DEF InlineNext, InlineStep, Call, Edit, Die, Mishap, Finish, BeginChanged, ChunkerFetches, Forget,
          ChunkerEnds, RunnerGets, RunnerSubmits, RunnerEnds, FetchGives, FetchEnds, SendEnds, CompleteInline, storedVars
  <2>2. ctl' \in Working \cup {"complete"} => ctl \in Working \cup {"complete"} /\ state' = state
    BY <1>7
      DEF InlineNext, InlineStep, Call, Edit, Die, Mishap, Finish, BeginChanged, ChunkerFetches, Working, Controls,
          ChunkerEnds, RunnerGets, RunnerSubmits, RunnerEnds, FetchGives, FetchEnds, SendEnds, CompleteInline, storedVars
  <2> QED  BY <1>2, <1>3, <2>1, <2>2 DEF InlineStored
<1> QED  BY <1>4, <1>5, <1>6, <1>7

LEMMA QueueTyped ==
  ASSUME InlineInv, InlineTypes, InlineNext
  PROVE  InlineQueue'
<1> USE DEF InlineInv, InlineShapes, InlineTypes, InlineQueue
<1>1. Chunks \in Nat \ {0} /\ Suspensions \subseteq 1 .. Chunks
  BY InlineAssumption DEF InlineAssumption
<1>2. queue' \in Seq(Part \cup {EOS}) /\ Len(queue') <= 1
  <2>1. ASSUME NEW x \in Part \cup {EOS}, queue' = <<x>> PROVE queue' \in Seq(Part \cup {EOS}) /\ Len(queue') <= 1
    BY <2>1
  <2>2. CASE queue' = <<>>
    BY <2>2
  <2>3. CASE queue # <<>> /\ queue' = Tail(queue)
    BY <2>3
  <2>4. CASE UNCHANGED queue
    BY <2>4
  <2> QED
    BY <2>1, <2>2, <2>3, <2>4
      DEF InlineNext, InlineStep, Call, Edit, Die, Mishap, Finish, BeginNew, BeginResume, BeginChanged, ChunkerFetches,
          ChunkerEnds, RunnerGets, RunnerSubmits, RunnerEnds, FetchGives, Keep, FetchEnds, SendEnds, CompleteInline, Forget,
          chunkVars, EOS
<1>3. fetch' \in [Part -> Fetches]
  BY DEF InlineNext, InlineStep, Call, Edit, Die, Mishap, Finish, BeginNew, BeginResume, BeginChanged, ChunkerFetches,
         ChunkerEnds, RunnerGets, RunnerSubmits, RunnerEnds, FetchGives, Keep, FetchEnds, SendEnds, CompleteInline, Forget,
         chunkVars, Fetches, Idle
<1>4. held' \in Part \cup {Nothing}
  <2>1. CASE RunnerGets
    <3>1. queue # <<>> => Head(queue) \in Part \cup {EOS}
      OBVIOUS
    <3> QED  BY <2>1, <3>1 DEF RunnerGets
  <2>2. CASE ~RunnerGets
    BY <2>2
      DEF InlineNext, InlineStep, Call, Edit, Die, Mishap, Finish, BeginNew, BeginResume, BeginChanged, ChunkerFetches,
          ChunkerEnds, RunnerSubmits, RunnerEnds, FetchGives, Keep, FetchEnds, SendEnds, CompleteInline, Forget
  <2> QED  BY <2>1, <2>2
<1>5. limit' \in 0 .. Chunks
  <2>1. CASE limit > 0 /\ limit' = limit - 1
    BY <1>1, <2>1
  <2>2. CASE limit' \in Suspensions \cup {Chunks, limit}
    BY <1>1, <2>2
  <2> QED
    BY <2>1, <2>2
      DEF InlineNext, InlineStep, Call, Edit, Die, Mishap, Finish, BeginNew, BeginResume, BeginChanged, ChunkerFetches,
          ChunkerEnds, RunnerGets, RunnerSubmits, RunnerEnds, FetchGives, Keep, FetchEnds, SendEnds, CompleteInline, Forget,
          chunkVars
<1>6. next' \in 1 .. Chunks + 1 \cup {Nothing}
  <2>1. ASSUME NEW chosen, chosen.parts \subseteq Part, Proceed(chosen) PROVE next' \in 1 .. Chunks + 1 \cup {Nothing}
    <3>1. CASE chosen.parts = Part
      BY <2>1, <3>1 DEF Proceed
    <3>2. CASE chosen.parts # Part
      <4>1. Part \ chosen.parts # {}
        BY <2>1, <3>2
      <4>2. PICK S \in SUBSET Part : S = Part \ chosen.parts
        OBVIOUS
      <4>3. next' = CHOOSE n \in S : \A m \in S : n <= m
        BY <2>1, <3>2, <4>2 DEF Proceed
      <4>4. next' \in Part
        BY <4>1, <4>2, <4>3, LeastPart
      <4> QED  BY <1>1, <4>4 DEF Part
    <3> QED  BY <3>1, <3>2
  <2>2. CASE BeginNew
    <3>1. PICK chosen : chosen = Empty(Len(mpu'))
      OBVIOUS
    <3>2. chosen.parts = {}
      BY <3>1 DEF Empty
    <3> QED  BY <2>1, <2>2, <3>1, <3>2 DEF BeginNew
  <2>3. CASE BeginResume
    <3>1. saved.parts \subseteq Part
      BY <2>3 DEF BeginResume, InlineStored, UploadStates
    <3> QED  BY <2>1, <2>3, <3>1 DEF BeginResume
  <2>4. CASE ChunkerFetches
    <3> DEFINE others == {n \in Part \ state.parts : n > next}
    <3>1. others # {} => (CHOOSE n \in others : \A m \in others : n <= m) \in Part
      BY LeastPart
    <3>2. next' \in Part \cup {Chunks + 1}
      BY <2>4, <3>1 DEF ChunkerFetches
    <3> QED  BY <1>1, <3>2 DEF Part
  <2>5. CASE next' \in {next, Nothing}
    BY <2>5
  <2> QED
    BY <2>2, <2>3, <2>4, <2>5
      DEF InlineNext, InlineStep, Call, Edit, Die, Mishap, Finish, BeginChanged,
          ChunkerEnds, RunnerGets, RunnerSubmits, RunnerEnds, FetchGives, Keep, FetchEnds, SendEnds, CompleteInline, Forget,
          chunkVars
<1> QED  BY <1>2, <1>3, <1>4, <1>5, <1>6

\* Every value upload_file_multipart() keeps is one of those it can have: what
\* it stores is of an upload that was opened, and the queue has one place.
THEOREM InlineTypeCorrect == InlineSpec => []InlineTypeOK
<1>1. InlineInv /\ InlineTypes /\ [InlineNext]_inlineVars => (InlineInv /\ InlineTypes)'
  <2> SUFFICES ASSUME InlineInv, InlineTypes, [InlineNext]_inlineVars PROVE (InlineInv /\ InlineTypes)'
    OBVIOUS
  <2>1. CASE UNCHANGED inlineVars
    BY <2>1, InlineStepsKeepInv DEF inlineVars, InlineTypes, Edits, InlineStored, InlineQueue, UploadStates
  <2>2. CASE InlineNext
    <3>1. Edits'
      BY EditsCounted DEF InlineTypes
    <3> QED  BY <2>2, <3>1, InlineStepsKeepInv, StoredTyped, QueueTyped DEF InlineTypes
  <2> QED  BY <2>1, <2>2
<1> QED  BY <1>1, InlineInitially, InlineTypesInitially, InlineTyped, PTL DEF InlineSpec

-----------------------------------------------------------------------------
(* The operations, each by itself.                                         *)

MCNext == MCStep \/ MCCall \/ MCFault

\* What a mode does not name it leaves alone.
LEMMA EachByItself ==
  ASSUME [MCNext]_vars
  PROVE  /\ [Next]_copyVars /\ [InlineNext]_inlineVars /\ [ClientNext]_clientVars
         /\ [WalkNext]_walkVars /\ [FsNext]_fsVars /\ [ProgressStep \/ ProgressCall]_progressVars
         /\ [DownloadNext]_downloadVars /\ [StreamNext]_streamVars /\ [Group]_groupVars
<1>1. CASE UNCHANGED vars
  BY <1>1 DEF vars
<1>2. CASE MCStep
  BY <1>2 DEF MCStep, OthersUnchanged, Next, InlineNext, ClientNext, WalkNext, FsNext, DownloadNext, StreamNext
<1>3. CASE MCCall
  BY <1>3 DEF MCCall, OthersUnchanged, Next, InlineNext, ClientNext, WalkNext, FsNext, DownloadNext, StreamNext
<1>4. CASE MCFault
  BY <1>4 DEF MCFault, OthersUnchanged, ClientNext, WalkNext, FsNext, DownloadNext, StreamNext
<1> QED  BY <1>1, <1>2, <1>3, <1>4 DEF MCNext

\* Every behavior of the whole is, seen from the variables of one operation, a
\* behavior of that operation: calls of others do not show in it.
THEOREM EachImplements ==
  MCSpec =>
    /\ Init /\ [][Next]_copyVars /\ InlineSpec /\ ClientSpec
    /\ WalkInit /\ [][WalkNext]_walkVars /\ FsInit /\ [][FsNext]_fsVars
    /\ ProgressInit /\ [][ProgressStep \/ ProgressCall]_progressVars
    /\ DownloadInit /\ [][DownloadNext]_downloadVars
    /\ StreamInit /\ [][StreamNext]_streamVars /\ GroupInit /\ [][Group]_groupVars
  BY EachByItself, PTL DEF MCSpec, MCInit, MCNext, InlineSpec, ClientSpec

(* What the two resumable uploads make is all the parts in their order, or   *)
(* all but the first that the directory check does not look for, and all the *)
(* chunks (finish_multipart_upload, upload_file_multipart).                  *)
THEOREM ObjectsWhole == MCSpec => []ObjectsAreWhole
<1>1. CopyInv => MergedInOrder
  BY DEF CopyInv, WholeInv, Runs, MergedInOrder
<1>2. MergedInOrder /\ MadeWhole => ObjectsAreWhole
  BY DEF ObjectsAreWhole
<1> QED  BY <1>1, <1>2, EachImplements, CopyInductive, MadeOfAllChunks, PTL

\* A download whose chunk files have names of their own returns with every
\* chunk in its place, or raises and leaves no file (download_multi_threaded).
THEOREM DownloadsAreWhole ==
  ASSUME NamesApart
  PROVE  DownloadInit /\ [][DownloadNext]_downloadVars => []DownloadIsWhole
<1>1. DownloadInv /\ [DownloadNext]_downloadVars => DownloadInv'
  BY DownloadStepsKeepInv
<1> QED  BY <1>1, DownloadInitially, DownloadIsOrder, PTL

\* A listing gives each accepted entry once, in the order of the listing, and
\* whole or not as it says; the pages are full but the last (_stream_pages).
THEOREM StreamsAreWhole == StreamInit /\ [][StreamNext]_streamVars => []StreamIsWhole
  BY StreamInitially, StreamStepsKeepInv, StreamIsAll, PTL

\* A subscription shows the final snapshot last and once, and a subscription
\* that ended without a stop has shown it (_ProgressSubscription).
THEOREM FinalIsLast == ProgressInit /\ [][ProgressStep \/ ProgressCall]_progressVars => []FinalShownLast
<1>1. ProgressInv => FinalShownLast
  BY DEF ProgressInv
<1> QED  BY <1>1, ProgressInitially, ProgressStepsKeepInv, PTL

\* The groups of a list name the files of the list and no other, while no file
\* is deeper than the groups can say (group_files).
THEOREM GroupsAreTrue == GroupInit /\ [][Group]_groupVars => []ShallowGroupsAreTrue
  BY GroupInitially, GroupStepsKeepInv, GroupsNameFiles, PTL

(* A caller is given all of a walk, a scan, a listing, a download, a list of *)
(* files or a progress subscription, in order, or an error; of a download it *)
(* must be known that no two of its chunks are kept in one file.             *)
THEOREM AllDelivered ==
  ASSUME NamesApart
  PROVE  MCSpec => []Delivered
<1>1. DownloadInit /\ [][DownloadNext]_downloadVars => []DownloadIsWhole
  BY DownloadsAreWhole
<1>2. /\ WalkIsWhole /\ ScanFindsMissing /\ FsWalkIsOrdered /\ StreamIsWhole
      /\ DownloadIsWhole /\ ShallowGroupsAreTrue /\ FinalShownLast
      => Delivered
  BY DEF Delivered
<1> QED
  BY <1>1, <1>2, EachImplements, Walks, Scans, FsWalks, StreamsAreWhole, FinalIsLast, GroupsAreTrue, PTL

(* What is proved of one operation holds while others are called: the state  *)
(* files of both uploads stay true, the parts are purged only when whole,    *)
(* the local disk is bounded, close() is total, and no handle is lost.       *)
THEOREM EachIsKept ==
  MCSpec => [](RecordIsTrue /\ SavedIsTrue /\ StagingBounded /\ CloseIsTotal /\ TrackedUntilStopped) /\ PurgedWhenWhole
<1>1. Init /\ [][Next]_copyVars => []RecordIsTrue
  <2>1. MergeInv => RecordIsTrue
    BY DEF MergeInv, Records, Claims, TrueIn, RecordIsTrue
  <2>2. MergeInv /\ [Next]_copyVars => MergeInv'
    BY MergeStepsKeepInv
  <2> QED  BY <2>1, <2>2, MergeInitially, PTL
<1>2. Init /\ [][Next]_copyVars => []StagingBounded
  <2>1. TasksInv /\ [Next]_copyVars => TasksInv'
    BY TaskStepsKeepInv
  <2> QED  BY <2>1, TasksBound, TasksInitially, PTL
<1>3. Init /\ [][Next]_copyVars => PurgedWhenWhole
  BY CopyInductive, PurgeSteps, PTL DEF PurgedWhenWhole
<1> QED
  BY <1>1, <1>2, <1>3, EachImplements, SavedStaysTrue, CloseReleasesAll, TrackedAsLongAsOpen, PTL

(* Every operation keeps its values, whatever is called and fails.           *)
THEOREM OperationsTypeCorrect == MCSpec => []OperationsTypeOK
<1>1. DownloadInit /\ [][DownloadNext]_downloadVars => []DownloadTypeOK
  <2>1. DownloadTypes => DownloadTypeOK
    BY DEF DownloadTypes
  <2> QED  BY <2>1, DownloadTypesInitially, DownloadTypesStay, PTL
<1>2. WalkInit /\ [][WalkNext]_walkVars => []WalkTypeOK
  <2>1. WalkInv => WalkTypeOK
    BY DEF WalkInv
  <2> QED  BY <2>1, WalkInitially, WalkStepsKeepInv, PTL
<1>3. FsInit /\ [][FsNext]_fsVars => []FsTypeOK
  <2>1. FsInv => FsTypeOK
    BY DEF FsInv
  <2> QED  BY <2>1, FsInitially, FsStepsKeepInv, PTL
<1>4. ProgressInit /\ [][ProgressStep \/ ProgressCall]_progressVars => []ProgressTypeOK
  <2>1. ProgressInv => ProgressTypeOK
    BY DEF ProgressInv
  <2> QED  BY <2>1, ProgressInitially, ProgressStepsKeepInv, PTL
<1>5. StreamInit /\ [][StreamNext]_streamVars => []StreamTypeOK
  <2>1. StreamInv => StreamTypeOK
    BY DEF StreamInv
  <2> QED  BY <2>1, StreamInitially, StreamStepsKeepInv, PTL
<1>6. GroupInit /\ [][Group]_groupVars => []GroupTypeOK
  BY GroupInitially, GroupStepsKeepInv, GroupTyped, PTL
<1>7. /\ TypeOK /\ InlineTypeOK /\ ClientTypeOK /\ WalkTypeOK /\ FsTypeOK /\ ProgressTypeOK
      /\ DownloadTypeOK /\ StreamTypeOK /\ GroupTypeOK
      => OperationsTypeOK
  BY DEF OperationsTypeOK
<1> QED
  BY <1>1, <1>2, <1>3, <1>4, <1>5, <1>6, <1>7, EachImplements, CopyTypes, InlineTypeCorrect, ClientTypeCorrect, PTL
=============================================================================
