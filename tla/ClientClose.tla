---------------------------- MODULE ClientClose ----------------------------
(***************************************************************************)
(* An Rclone client and what it owns: the servers, mounts, listing streams *)
(* and authorization sessions it tracks until they are disposed of, by the *)
(* caller or by close(), and the job monitor its first jobs make.  close() *)
(* is meant to release all of it, whatever fails, before the runtime.      *)
(***************************************************************************)
EXTENDS Integers, Sequences, FiniteSets, SequencesExt

CONSTANTS
  Serves, Mounts, Streams, Sessions, \* the handles the caller may ask for
  Starters,                          \* threads that start one job each
  OwnsRuntime,                       \* _owns_embedded_runtime
  MaxCloses                          \* bound: calls of close()

Kinds   == <<Serves, Mounts, Streams, Sessions>> \* in the order of close()
Handles == UNION Range(Kinds)

ASSUME ClientAssumption ==
  /\ \A i, j \in DOMAIN Kinds : i # j => Kinds[i] \cap Kinds[j] = {}
  /\ IsFiniteSet(Handles) /\ IsFiniteSet(Starters) /\ OwnsRuntime \in BOOLEAN /\ MaxCloses \in Nat

VARIABLES
  born,    \* how far the call that makes each handle has come
  tracked, \* the four sets of tracked handles
  flagged, \* _closed of each handle
  asked,   \* history: the handles whose stop call has been made
  at,      \* where the caller's dispose() and close()'s are in each handle
  monitor, \* the number of the client's _job_monitor, 0 if none
  starter, \* where each thread is in _ensure_job_monitor() and start_job()
  under,   \* the monitor that has its job
  clientJob,     \* its job
  closer,  \* the thread in close()
  turn,    \* the kind it takes the snapshot of
  seen,    \* how many handles of that kind there were as it began
  rest,    \* the handles left to dispose of
  errors,  \* those that raised
  owed,    \* history: what was tracked as close() had its snapshot
  waits,   \* the jobs the monitor was asked to end
  closes,  \* the calls of close() so far
  runtime  \* whether the native runtime is open

handleVars == <<born, tracked, flagged, asked, at>>
jobVars    == <<monitor, starter, under, clientJob>>
closerVars == <<closer, turn, seen, rest, errors, owed, waits, closes>>
clientVars == <<handleVars, jobVars, closerVars, runtime>>

Whos    == {"caller", "close"}
Ends    == {"returned", "group", "broken", "unsettled"}
Closers == {"out", "snapshot", "iterating", "dispose", "jobs", "settle", "runtime"} \cup Ends

ClientInit ==
  /\ born = [h \in Handles |-> "no"] /\ tracked = {} /\ flagged = {} /\ asked = {}
  /\ at = [w \in Whos |-> [h \in Handles |-> "out"]]
  /\ monitor = 0 /\ starter = [t \in Starters |-> "out"]
  /\ under = [t \in Starters |-> 0] /\ clientJob = [t \in Starters |-> "none"]
  /\ closer = "out" /\ turn = 1 /\ seen = 0 /\ rest = <<>> /\ errors = {} /\ owed = {} /\ waits = {} /\ closes = 0
  /\ runtime = TRUE

\* serve/start, mount/mount, liststream/open or the start of a session.
Open(h) ==
  /\ runtime /\ born[h] = "no" /\ born' = [born EXCEPT ![h] = "opened"]
  /\ UNCHANGED <<tracked, flagged, asked, at, jobVars, closerVars, runtime>>

\* _track_*: the handle enters its set, then gets its hook and is returned.
Track(h) ==
  /\ born[h] = "opened" /\ born' = [born EXCEPT ![h] = "tracked"]
  /\ tracked' = tracked \cup {h}
  /\ UNCHANGED <<flagged, asked, at, jobVars, closerVars, runtime>>

InstallHook(h) ==
  /\ born[h] = "tracked" /\ born' = [born EXCEPT ![h] = "hooked"]
  /\ UNCHANGED <<tracked, flagged, asked, at, jobVars, closerVars, runtime>>

Goto(w, h, place) == at' = [at EXCEPT ![w][h] = place]

\* Only a session looks at no flag: its dispose() may be repeated.
Disposed(h) == h \in flagged \ Sessions

\* The caller disposes of a handle, or its with block ends (bound: not again
\* of a session, which would be cancelled twice).
CallerDisposes(h) ==
  /\ born[h] = "hooked" /\ at["caller"][h] = "out" /\ h \notin flagged
  /\ Goto("caller", h, "checked")
  /\ UNCHANGED <<born, tracked, flagged, asked, jobVars, closerVars, runtime>>

\* Mutant: whoever finds the handle disposed of untracks it too.
CloseTakesAndUntracks(h) ==
  /\ closer = "dispose" /\ rest # <<>> /\ h = Head(rest) /\ at["close"][h] = "out"
  /\ IF Disposed(h) THEN rest' = Tail(rest) /\ tracked' = tracked \ {h} /\ UNCHANGED at
     ELSE Goto("close", h, "checked") /\ UNCHANGED <<rest, tracked>>
  /\ UNCHANGED <<born, flagged, asked, jobVars, closer, turn, seen, errors, owed, waits, closes, runtime>>

\* close() takes the next of its list.
CloseTakes(h) ==
  /\ closer = "dispose" /\ rest # <<>> /\ h = Head(rest) /\ at["close"][h] = "out"
  /\ IF Disposed(h) THEN rest' = Tail(rest) /\ UNCHANGED at
     ELSE Goto("close", h, "checked") /\ UNCHANGED rest
  /\ UNCHANGED <<born, tracked, flagged, asked, jobVars, closer, turn, seen, errors, owed, waits, closes, runtime>>

Flag(w, h) ==
  /\ at[w][h] = "checked" /\ flagged' = flagged \cup {h} /\ Goto(w, h, "asking")
  /\ UNCHANGED <<born, tracked, asked, jobVars, closerVars, runtime>>

Left(w) == IF w = "close" THEN rest' = Tail(rest) ELSE UNCHANGED rest

\* Mutant: what one handle raises ends the whole of close().
AskEscapes(w, h, ok) ==
  /\ at[w][h] = "asking" /\ (ok => runtime) /\ asked' = asked \cup {h}
  /\ IF ok \/ h \notin Streams THEN Goto(w, h, "hook") /\ UNCHANGED <<rest, errors, closer>>
     ELSE /\ Goto(w, h, "out") /\ Left(w)
          /\ errors' = IF w = "close" THEN errors \cup {h} ELSE errors
          /\ closer' = IF w = "close" THEN "group" ELSE closer
  /\ UNCHANGED <<born, tracked, flagged, jobVars, turn, seen, owed, waits, closes, runtime>>

\* The stop call.  A server's or a mount's may fail unnoticed, as a session may
\* outlast the wait for it; a stream's raises, before its hook.
Ask(w, h, ok) ==
  /\ at[w][h] = "asking" /\ (ok => runtime) /\ asked' = asked \cup {h}
  /\ IF ok \/ h \notin Streams THEN Goto(w, h, "hook") /\ UNCHANGED <<rest, errors>>
     ELSE /\ Goto(w, h, "out") /\ Left(w)
          /\ errors' = IF w = "close" THEN errors \cup {h} ELSE errors
  /\ UNCHANGED <<born, tracked, flagged, jobVars, closer, turn, seen, owed, waits, closes, runtime>>

\* _on_dispose or _on_close, if the hook is there yet.
Untrack(w, h) ==
  /\ at[w][h] = "hook" /\ Goto(w, h, "out") /\ Left(w)
  /\ tracked' = IF born[h] = "hooked" THEN tracked \ {h} ELSE tracked
  /\ UNCHANGED <<born, flagged, asked, jobVars, closer, turn, seen, errors, owed, waits, closes, runtime>>

\* _ensure_job_monitor: the look, the assignment, and the attribute read again
\* for start_job(), which fails once the runtime is closed.
LookForMonitor(t) ==
  /\ starter[t] = "out"
  /\ starter' = [starter EXCEPT ![t] = IF monitor = 0 THEN "make" ELSE "start"]
  /\ UNCHANGED <<handleVars, monitor, under, clientJob, closerVars, runtime>>

MakeMonitor(t) ==
  /\ starter[t] = "make" /\ monitor' = monitor + 1
  /\ starter' = [starter EXCEPT ![t] = "start"]
  /\ UNCHANGED <<handleVars, under, clientJob, closerVars, runtime>>

StartJob(t) ==
  /\ starter[t] = "start" /\ starter' = [starter EXCEPT ![t] = "done"]
  /\ IF runtime THEN /\ under' = [under EXCEPT ![t] = monitor]
                     /\ clientJob' = [clientJob EXCEPT ![t] = "running"]
     ELSE UNCHANGED <<under, clientJob>>
  /\ UNCHANGED <<handleVars, monitor, closerVars, runtime>>

\* A job ends and the monitor settles it, as a cancelled one must.
JobSettles(t) ==
  /\ clientJob[t] = "running" /\ clientJob' = [clientJob EXCEPT ![t] = "settled"]
  /\ UNCHANGED <<handleVars, monitor, starter, under, closerVars, runtime>>

CallClose ==
  /\ closer \in {"out"} \cup Ends /\ closes < MaxCloses /\ closes' = closes + 1
  /\ closer' = "snapshot" /\ turn' = 1 /\ rest' = <<>> /\ errors' = {} /\ owed' = {} /\ waits' = {}
  /\ UNCHANGED <<handleVars, jobVars, seen, runtime>>

\* _tracked_resource_closers: one loop per set.
BeginIteration ==
  /\ closer = "snapshot"
  /\ IF turn \in DOMAIN Kinds
     THEN closer' = "iterating" /\ seen' = Cardinality(tracked \cap Kinds[turn]) /\ UNCHANGED owed
     ELSE closer' = "dispose" /\ owed' = Range(rest) /\ UNCHANGED seen
  /\ UNCHANGED <<handleVars, jobVars, turn, rest, errors, waits, closes, runtime>>

\* A set that changed its size under the iteration raises, out of close().
EndIteration ==
  /\ closer = "iterating"
  /\ LET now == tracked \cap Kinds[turn] IN
     IF Cardinality(now) # seen THEN closer' = "broken" /\ UNCHANGED <<turn, rest>>
     ELSE /\ closer' = "snapshot" /\ turn' = turn + 1
          /\ \E s \in SetToSeqs(now) : rest' = rest \o s
  /\ UNCHANGED <<handleVars, jobVars, seen, errors, owed, waits, closes, runtime>>

\* The monitor's shutdown(): every job it has is cancelled.
ShutdownJobs ==
  /\ closer = "dispose" /\ rest = <<>>
  /\ waits' = IF monitor = 0 THEN {} ELSE {t \in Starters : under[t] = monitor}
  /\ closer' = "settle"
  /\ UNCHANGED <<handleVars, jobVars, turn, seen, rest, errors, owed, closes, runtime>>

Unsettled == {t \in waits : clientJob[t] # "settled"}

\* It returns: True, or False at the deadline, and then close() raises.
JobsAwaited(settled) ==
  /\ closer = "settle" /\ settled = (Unsettled = {})
  /\ closer' = IF settled THEN "runtime" ELSE "unsettled"
  /\ UNCHANGED <<handleVars, jobVars, turn, seen, rest, errors, owed, waits, closes, runtime>>

\* The runtime is closed if it is the client's, and only then the failures are
\* raised in a group.
CloseRuntime ==
  /\ closer = "runtime" /\ runtime' = (runtime /\ ~OwnsRuntime)
  /\ closer' = IF errors = {} THEN "returned" ELSE "group"
  /\ UNCHANGED <<handleVars, jobVars, turn, seen, rest, errors, owed, waits, closes>>

ClientStep ==
  \/ \E h \in Handles :
       \/ Track(h) \/ InstallHook(h) \/ CloseTakes(h)
       \/ \E w \in Whos : Flag(w, h) \/ Ask(w, h, runtime) \/ Untrack(w, h)
  \/ \E t \in Starters : MakeMonitor(t) \/ StartJob(t)
  \/ \E t \in waits : JobSettles(t)
  \/ BeginIteration \/ EndIteration \/ ShutdownJobs \/ JobsAwaited(TRUE) \/ CloseRuntime

\* What the caller, other threads and rclone may do.
ClientCall == CallClose \/ \E h \in Handles : Open(h) \/ CallerDisposes(h)
JobCall    == CallClose \/ \E t \in Starters : LookForMonitor(t) \/ JobSettles(t)

ClientFault ==
  \/ runtime /\ \E h \in Handles, w \in Whos : Ask(w, h, FALSE)
  \/ JobsAwaited(FALSE)

ClientNext == ClientStep \/ ClientCall \/ JobCall \/ ClientFault
ClientSpec == ClientInit /\ [][ClientNext]_clientVars

ClientTypeOK ==
  /\ born \in [Handles -> {"no", "opened", "tracked", "hooked"}]
  /\ tracked \subseteq Handles /\ flagged \subseteq Handles /\ asked \subseteq Handles
  /\ at \in [Whos -> [Handles -> {"out", "checked", "asking", "hook"}]]
  /\ monitor \in 0 .. Cardinality(Starters) /\ under \in [Starters -> 0 .. monitor]
  /\ starter \in [Starters -> {"out", "make", "start", "done"}]
  /\ clientJob \in [Starters -> {"none", "running", "settled"}]
  /\ closer \in Closers /\ turn \in 1 .. Len(Kinds) + 1 /\ seen \in 0 .. Cardinality(Handles)
  /\ rest \in Seq(Handles) /\ errors \subseteq Handles /\ owed \subseteq Handles
  /\ waits \subseteq Starters /\ closes \in 0 .. MaxCloses /\ runtime \in BOOLEAN

(* A close() that returns, or raises the group of failures, has made or left *)
(* to its caller's own dispose() the stop of every handle in its snapshot,   *)
(* has seen every job of the monitor it found settled, and has closed the    *)
(* runtime if it is the client's: no failure of one costs another its turn.  *)
CloseIsTotal ==
  closer \in {"returned", "group"} =>
    /\ owed \subseteq asked \cup {h \in Handles : at["caller"][h] = "asking"}
    /\ Unsettled = {} /\ (OwnsRuntime => ~runtime)

(* A handle stays tracked until its stop call has been made, so that close() *)
(* can still find it: disposal by two threads must not lose a running server. *)
TrackedUntilStopped ==
  \A h \in Handles : born[h] \in {"tracked", "hooked"} /\ h \notin asked => h \in tracked

(* Every close() ends, and every disposal.                                   *)
ClientBusy == closer \notin {"out"} \cup Ends \/ \E w \in Whos, h \in Handles : at[w][h] # "out"
=============================================================================
