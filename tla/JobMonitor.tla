----------------------------- MODULE JobMonitor -----------------------------
(***************************************************************************)
(* job.py and the part of rc/jobs.py it calls: JobHandle, _JobRecord and   *)
(* _JobMonitor, above rclone's own job table.                              *)
(*                                                                         *)
(* A step is what one thread does between two points where another thread  *)
(* may run: one critical section, or one RC call.  Three kinds of thread   *)
(* poll a job: the monitor, the short-lived thread request_cancel() starts *)
(* for the job (named here by the job itself), and an application thread   *)
(* inside status().  A status is fetched before poll_lock is taken, so the *)
(* answer may be stale when it is applied.                                 *)
(***************************************************************************)
EXTENDS Integers, FiniteSets

CONSTANTS
  Jobs,        \* the records (_JobRecord) the client may create
  Clients,     \* application threads calling the client and its handles
  Monitor,     \* the rclone-kit-job-monitor thread
  None,        \* Python's None
  MaxBytes,    \* bound: the bytes a job transfers
  MaxFaults,   \* bound: RC calls that fail for no lasting reason
  MaxRestarts, \* bound: executions of rclone after the first
  Allowed      \* what the environment of the record may do, out of Features

\* The calls of the application, and the misfortunes of rclone and the host,
\* an instance allows:
\*   status, stats, cancel, shutdown  - the calls of those names;
\*   lateStart - start_job() overlapping or following shutdown();
\*   expire    - rclone dropping a finished job before it was observed;
\*   close     - another owner closing the shared runtime;
\*   loseStop  - the job/stop call being among the calls that may fail;
\*   skew      - the wall clock being stepped back while a job runs.
Features == {"status", "stats", "cancel", "shutdown", "lateStart",
             "expire", "close", "loseStop", "skew"}

VARIABLES
  (* rclone, behind the RC boundary *)
  job,       \* what each job has really done so far
  bytes,     \* what it has really transferred
  groups,    \* the jobs whose core/stats group exists
  stopping,  \* the jobs that received a job/stop
  expired,   \* finished jobs dropped from the job table
  ref,       \* RcJobRef of each started job: [run (execute_id), id (job_id)]
  run,       \* the current execution of rclone
  nextId,    \* the next job id of this execution
  closed,    \* RcloneRuntime._closed
  faults,    \* RC calls failed so far
  (* _JobRecord *)
  cancelReq, \* cancel_requested
  status,    \* latest_status
  snap,      \* latest_stats
  terminal,  \* terminal_result or terminal_exception
  (* _JobMonitor *)
  tracked,   \* the values of _records
  batching,  \* _batch_client is not None
  stop,      \* _stop_event
  todo,      \* pending records of the current tick not yet handled
  batch,     \* the outcomes one job/batch call returned for them
  (* threads *)
  pc, on, seen, fin, \* control point, record, outcome, stats in hand
  sd,        \* the thread running shutdown()
  snapshot   \* the records shutdown() saw

rcloneVars  == <<job, bytes, groups, stopping, expired, ref, run, nextId, closed>>
recordVars  == <<cancelReq, status, snap, terminal>>
monitorVars == <<tracked, batching, stop, todo, batch>>
threadVars  == <<pc, on, seen, fin>>
closerVars  == <<sd, snapshot>>
vars == <<rcloneVars, faults, recordVars, monitorVars, threadVars, closerVars>>

Threads == Jobs \cup Clients \cup {Monitor}

\* How a job ends inside rclone.  "interrupted" is a failure whose error
\* contains "context canceled"; a "skewed" job carries an end time before its
\* start time, which OperationResult rejects.
Endings   == {"succeeded", "failed", "interrupted", "skewed"}
Results   == {"succeeded", "failed", "cancelled"}
Lost      == {"expired", "mismatch", "closed"}
Verdicts  == Results \cup Lost
Outcomes  == Endings \cup Lost \cup {"running", "transient"}
States    == Results \cup {"running", "lost"}
Bytes     == 0 .. MaxBytes

ASSUME JobMonitorAssumption ==
  /\ MaxBytes \in Nat /\ MaxFaults \in Nat /\ MaxRestarts \in Nat
  /\ Allowed \subseteq Features
  /\ Jobs \cap Clients = {} /\ Monitor \notin Jobs \cup Clients
  /\ None \notin Jobs \cup Clients \cup {Monitor}
  /\ None \notin Outcomes \cup Verdicts \cup States \cup Nat \cup [run : Nat, id : Nat]

Controls  == {"off", "register", "ensure", "store", "cancel", "stop", "ended", "idle",
              "exited", "crashed", "fetch", "apply", "settle", "purge", "publish", "forget"}

Settled(j) == terminal[j] # None
Handed(j)  == ref[j] # None /\ \A c \in Clients : ~(on[c] = j /\ pc[c] \in {"register", "ensure"})
Locked     == {"settle", "purge", "publish", "forget"}
Holds(t, j) == on[t] = j /\ pc[t] \in Locked
Here(j)    == ref[j] # None /\ ref[j].run = run

\* The job rclone runs under the id j's reference carries.
Answering(j) == {k \in Jobs \ expired : Here(k) /\ ref[k].id = ref[j].id}

\* Mutant: the check of execute_id is missing.
OutcomeAnyRun(j) ==
  IF closed THEN "closed"
  ELSE IF Answering(j) = {} THEN "expired"
  ELSE job[CHOOSE k \in Answering(j) : TRUE]

\* What job/status says about j: RcloneRcJobClient.status and
\* _validated_job_status, with its check of execute_id.
Outcome(j) ==
  IF closed THEN "closed"
  ELSE IF Answering(j) = {} THEN "expired"
  ELSE IF j \in Answering(j) THEN job[j]
  ELSE "mismatch"

\* What core/stats says: a group that does not exist reads as zeros.
Reading(j) == IF j \in groups THEN bytes[j] ELSE 0

Fault == faults < MaxFaults /\ faults' = faults + 1

Goto(t, l) == pc' = [pc EXCEPT ![t] = l]
After(t)   == CASE t = Monitor -> "idle" [] t \in Jobs -> "ended" [] OTHER -> "off"
Died(t)    == IF t = Monitor THEN "crashed" ELSE After(t)
Leave(t, l) ==
  /\ Goto(t, l)
  /\ on'   = [on EXCEPT ![t] = None]
  /\ seen' = [seen EXCEPT ![t] = None]
  /\ fin'  = [fin EXCEPT ![t] = None]
Return(t)  == Leave(t, After(t))

Init ==
  /\ job       = [j \in Jobs |-> "none"]
  /\ bytes     = [j \in Jobs |-> 0]
  /\ groups = {} /\ stopping = {} /\ expired = {}
  /\ ref       = [j \in Jobs |-> None]
  /\ run = 0 /\ nextId = 1 /\ closed = FALSE /\ faults = 0
  /\ cancelReq = [j \in Jobs |-> FALSE]
  /\ status    = [j \in Jobs |-> None]
  /\ snap      = [j \in Jobs |-> None]
  /\ terminal  = [j \in Jobs |-> None]
  /\ tracked = {} /\ batching = TRUE /\ stop = FALSE /\ todo = {}
  /\ batch     = [j \in Jobs |-> None]
  /\ pc        = [t \in Threads |-> "off"]
  /\ on        = [t \in Threads |-> None]
  /\ seen      = [t \in Threads |-> None]
  /\ fin       = [t \in Threads |-> None]
  /\ sd = "never" /\ snapshot = {}

-----------------------------------------------------------------------------
(* rclone *)

Progress(j) ==
  /\ Here(j) /\ job[j] = "running" /\ bytes[j] < MaxBytes /\ ~closed
  /\ bytes' = [bytes EXCEPT ![j] = @ + 1]
  /\ UNCHANGED <<job, groups, stopping, expired, ref, run, nextId, closed,
                 faults, recordVars, monitorVars, threadVars, closerVars>>

Finish(j) ==
  /\ Here(j) /\ job[j] = "running" /\ ~closed
  /\ \E e \in Endings :
       /\ e = "skewed" => "skew" \in Allowed
       /\ job' = [job EXCEPT ![j] = e]
  /\ UNCHANGED <<bytes, groups, stopping, expired, ref, run, nextId, closed,
                 faults, recordVars, monitorVars, threadVars, closerVars>>

Expire(j) ==
  /\ "expire" \in Allowed /\ job[j] \in Endings /\ j \notin expired
  /\ expired' = expired \cup {j}
  /\ UNCHANGED <<job, bytes, groups, stopping, ref, run, nextId, closed,
                 faults, recordVars, monitorVars, threadVars, closerVars>>

\* A new execution of rclone: no jobs, no stats groups, ids from one again.
Restart ==
  /\ run < MaxRestarts
  /\ run' = run + 1 /\ nextId' = 1 /\ groups' = {}
  /\ UNCHANGED <<job, bytes, stopping, expired, ref, closed,
                 faults, recordVars, monitorVars, threadVars, closerVars>>

CloseRuntime ==
  /\ "close" \in Allowed /\ ~closed
  /\ closed' = TRUE
  /\ UNCHANGED <<job, bytes, groups, stopping, expired, ref, run, nextId,
                 faults, recordVars, monitorVars, threadVars, closerVars>>

-----------------------------------------------------------------------------
(* Application threads *)

\* start_job(): the RC call that starts the job.  When it fails nothing is
\* registered and the caller sees the exception.
StartRc(c, j) ==
  /\ pc[c] = "off" /\ ref[j] = None /\ ~closed
  /\ "lateStart" \in Allowed \/ sd = "never"
  /\ ref' = [ref EXCEPT ![j] = [run |-> run, id |-> nextId]]
  /\ nextId' = nextId + 1
  /\ job' = [job EXCEPT ![j] = "running"]
  /\ groups' = groups \cup {j}
  /\ Goto(c, "register") /\ on' = [on EXCEPT ![c] = j]
  /\ UNCHANGED <<bytes, stopping, expired, run, closed, faults, recordVars,
                 monitorVars, seen, fin, closerVars>>

\* _records is keyed by job_id alone: a reused id displaces the old record.
SameId(j) == {k \in tracked : ref[k].id = ref[j].id}

Register(c) ==
  /\ pc[c] = "register"
  /\ tracked' = (tracked \ SameId(on[c])) \cup {on[c]}
  /\ Goto(c, "ensure")
  /\ UNCHANGED <<rcloneVars, faults, recordVars, batching, stop, todo, batch,
                 on, seen, fin, closerVars>>

\* _ensure_thread_started(): the thread is created once and never again.
EnsureThread(c) ==
  /\ pc[c] = "ensure"
  /\ pc' = [pc EXCEPT ![c] = "off",
                      ![Monitor] = IF @ = "off" THEN "idle" ELSE @]
  /\ on' = [on EXCEPT ![c] = None]
  /\ UNCHANGED <<rcloneVars, faults, recordVars, monitorVars, seen, fin, closerVars>>

\* status() before any status was cached: poll_now().
StatusCall(c, j) ==
  /\ "status" \in Allowed /\ pc[c] = "off" /\ Handed(j) /\ status[j] = None
  /\ Goto(c, "fetch") /\ on' = [on EXCEPT ![c] = j]
  /\ UNCHANGED <<rcloneVars, faults, recordVars, monitorVars, seen, fin, closerVars>>

\* stats() on a job without a final snapshot: the core/stats call.
StatsCall(c, j) ==
  /\ "stats" \in Allowed /\ pc[c] = "off" /\ Handed(j) /\ ~(Settled(j) /\ snap[j] # None)
  /\ \/ /\ ~closed
        /\ fin' = [fin EXCEPT ![c] = Reading(j)]
        /\ UNCHANGED faults
     \/ /\ closed \/ Fault
        /\ closed => UNCHANGED faults
        /\ snap[j] = None
        /\ fin' = [fin EXCEPT ![c] = 0]
  /\ Goto(c, "store") /\ on' = [on EXCEPT ![c] = j]
  /\ UNCHANGED <<rcloneVars, recordVars, monitorVars, seen, closerVars>>

\* Mutant: the record is not looked at again before the store.
StatsStoreBlind(c) ==
  /\ pc[c] = "store"
  /\ snap' = [snap EXCEPT ![on[c]] = fin[c]]
  /\ Return(c)
  /\ UNCHANGED <<rcloneVars, faults, cancelReq, status, terminal, monitorVars, closerVars>>

\* stats_now() keeps the reading unless the final one came first.
StatsStore(c) ==
  /\ pc[c] = "store"
  /\ LET j == on[c] IN
       IF ~Settled(j) \/ snap[j] = None
       THEN snap' = [snap EXCEPT ![j] = fin[c]]
       ELSE UNCHANGED snap
  /\ Return(c)
  /\ UNCHANGED <<rcloneVars, faults, cancelReq, status, terminal, monitorVars, closerVars>>

\* Mutant: a second request is dispatched like the first.
RequestCancelAgain(j) ==
  /\ ~Settled(j)
  /\ cancelReq' = [cancelReq EXCEPT ![j] = TRUE]

\* request_cancel(): the flag flips once, and the flip starts the thread
\* that calls job/stop.
RequestCancel(j) ==
  /\ ~Settled(j) /\ ~cancelReq[j]
  /\ cancelReq' = [cancelReq EXCEPT ![j] = TRUE]

\* JobHandle.cancel() looks at the record, lets go of its lock, and asks.
CancelCall(c, j) ==
  /\ "cancel" \in Allowed /\ pc[c] = "off" /\ Handed(j) /\ ~Settled(j)
  /\ Goto(c, "cancel") /\ on' = [on EXCEPT ![c] = j]
  /\ UNCHANGED <<rcloneVars, faults, recordVars, monitorVars, seen, fin, closerVars>>

\* Mutant: the flag flips but no thread is started.
CancelAskQuietly(c) ==
  /\ pc[c] = "cancel"
  /\ Leave(c, "off")
  /\ cancelReq' = [cancelReq EXCEPT ![on[c]] = @ \/ ~Settled(on[c])]
  /\ UNCHANGED <<rcloneVars, faults, status, snap, terminal, monitorVars, closerVars>>

CancelAsk(c) ==
  /\ pc[c] = "cancel"
  /\ on' = [on EXCEPT ![c] = None]
  /\ \/ /\ RequestCancel(on[c])
        /\ pc' = [pc EXCEPT ![c] = "off", ![on[c]] = "stop"]
     \/ /\ Settled(on[c]) \/ cancelReq[on[c]]
        /\ Goto(c, "off")
        /\ UNCHANGED cancelReq
  /\ UNCHANGED <<rcloneVars, faults, status, snap, terminal, monitorVars,
                 seen, fin, closerVars>>

-----------------------------------------------------------------------------
(* The cancel thread of a job: _dispatch_cancel() *)

\* job/stop names a job by id only.
Stop(j) ==
  /\ pc[j] = "stop"
  /\ \/ /\ ~closed
        /\ stopping' = stopping \cup Answering(j)
        /\ UNCHANGED faults
     \/ /\ closed \/ ("loseStop" \in Allowed /\ Fault)
        /\ closed => UNCHANGED faults
        /\ UNCHANGED stopping
  /\ Goto(j, "fetch") /\ on' = [on EXCEPT ![j] = j]
  /\ UNCHANGED <<job, bytes, groups, expired, ref, run, nextId, closed,
                 recordVars, monitorVars, seen, fin, closerVars>>

-----------------------------------------------------------------------------
(* Polling: _poll_record(), _apply_poll_outcome() and the settle methods *)

\* The status call, made without poll_lock.
Fetch(t) ==
  /\ pc[t] = "fetch"
  /\ \/ /\ Settled(on[t])
        /\ Return(t)
        /\ UNCHANGED faults
     \/ /\ ~Settled(on[t])
        /\ \/ seen' = [seen EXCEPT ![t] = Outcome(on[t])] /\ UNCHANGED faults
           \/ seen' = [seen EXCEPT ![t] = "transient"] /\ Fault /\ ~closed
        /\ Goto(t, "apply")
        /\ UNCHANGED <<on, fin>>
  /\ UNCHANGED <<rcloneVars, recordVars, monitorVars, closerVars>>

Acquire(t) == pc[t] = "apply" /\ \A u \in Threads : ~Holds(u, on[t])

\* Mutant: a closed runtime is taken for one more transient error.
DiscardClosed(t) ==
  /\ Acquire(t)
  /\ Settled(on[t]) \/ seen[t] \in {"transient", "closed"}
  /\ Return(t)
  /\ UNCHANGED <<rcloneVars, faults, recordVars, monitorVars, closerVars>>

\* Nothing to act on: the record settled meanwhile, or the call failed.
Discard(t) ==
  /\ Acquire(t)
  /\ Settled(on[t]) \/ seen[t] = "transient"
  /\ Return(t)
  /\ UNCHANGED <<rcloneVars, faults, recordVars, monitorVars, closerVars>>

\* Mutant: is_settled is not looked at again under poll_lock.
RefreshBlind(t) ==
  /\ Acquire(t) /\ seen[t] = "running"
  /\ status' = [status EXCEPT ![on[t]] = "running"]
  /\ Return(t)
  /\ UNCHANGED <<rcloneVars, faults, cancelReq, snap, terminal, monitorVars, closerVars>>

Refresh(t) ==
  /\ Acquire(t) /\ ~Settled(on[t]) /\ seen[t] = "running"
  /\ status' = [status EXCEPT ![on[t]] = "running"]
  /\ Return(t)
  /\ UNCHANGED <<rcloneVars, faults, cancelReq, snap, terminal, monitorVars, closerVars>>

\* Mutant: a second poller settles a settled record again.
BeginSettleBlind(t) ==
  /\ Acquire(t) /\ seen[t] \in Endings
  /\ Goto(t, "settle")
  /\ UNCHANGED <<rcloneVars, faults, recordVars, monitorVars, on, seen, fin, closerVars>>

BeginSettle(t) ==
  /\ Acquire(t) /\ ~Settled(on[t]) /\ seen[t] \in Endings
  /\ Goto(t, "settle")
  /\ UNCHANGED <<rcloneVars, faults, recordVars, monitorVars, on, seen, fin, closerVars>>

\* _settle_unobservable(): raises when the clock puts now before the start.
BeginLost(t) ==
  /\ Acquire(t) /\ ~Settled(on[t]) /\ seen[t] \in Lost
  /\ \/ Goto(t, "publish") /\ UNCHANGED <<on, seen, fin>>
     \/ "skew" \in Allowed /\ status[on[t]] # None /\ Leave(t, Died(t))
  /\ UNCHANGED <<rcloneVars, faults, recordVars, monitorVars, closerVars>>

\* Mutant: any failure after a cancel request counts as the cancellation.
VerdictAnyFailure(j, e) ==
  CASE e = "succeeded" -> "succeeded"
    [] e # "succeeded" /\ cancelReq[j] -> "cancelled"
    [] OTHER -> "failed"

\* The verdict _settle_terminal() reaches from the ending it was given.
Verdict(j, e) ==
  CASE e = "succeeded" -> "succeeded"
    [] e = "interrupted" /\ cancelReq[j] -> "cancelled"
    [] OTHER -> "failed"

\* The final core/stats call, or the cached snapshot when it fails; then the
\* result is built, which raises for a skewed job.
Judge(t) ==
  /\ pc[t] = "settle"
  /\ LET j == on[t] IN
       IF seen[t] = "skewed" THEN Leave(t, Died(t)) /\ UNCHANGED faults
       ELSE
         /\ \/ /\ ~closed
               /\ fin' = [fin EXCEPT ![t] = Reading(j)]
               /\ UNCHANGED faults
            \/ /\ closed \/ Fault
               /\ closed => UNCHANGED faults
               /\ fin' = [fin EXCEPT ![t] = IF snap[j] = None THEN 0 ELSE snap[j]]
         /\ seen' = [seen EXCEPT ![t] = Verdict(j, seen[t])]
         /\ Goto(t, "purge") /\ UNCHANGED on
  /\ UNCHANGED <<rcloneVars, recordVars, monitorVars, closerVars>>

\* core/stats-delete, best effort.
Purge(t) ==
  /\ pc[t] = "purge"
  /\ \/ ~closed /\ groups' = groups \ {on[t]} /\ UNCHANGED faults
     \/ /\ closed \/ Fault
        /\ closed => UNCHANGED faults
        /\ UNCHANGED groups
  /\ Goto(t, "publish")
  /\ UNCHANGED <<job, bytes, stopping, expired, ref, run, nextId, closed,
                 recordVars, monitorVars, on, seen, fin, closerVars>>

StatusOf(v) == IF v \in Lost THEN "lost" ELSE v

Publish(t) ==
  /\ pc[t] = "publish"
  /\ LET j == on[t] IN
       /\ status'   = [status EXCEPT ![j] = StatusOf(seen[t])]
       /\ snap'     = [snap EXCEPT ![j] = IF seen[t] \in Results THEN fin[t] ELSE @]
       /\ terminal' = [terminal EXCEPT ![j] = seen[t]]
  /\ Goto(t, "forget")
  /\ UNCHANGED <<rcloneVars, faults, cancelReq, monitorVars, on, seen, fin, closerVars>>

\* Mutant: a settled record is never popped.
ForgetNothing(t) ==
  /\ pc[t] = "forget"
  /\ Return(t)
  /\ UNCHANGED <<rcloneVars, faults, recordVars, monitorVars, closerVars>>

\* _forget() pops whatever record the id now maps to.
Forget(t) ==
  /\ pc[t] = "forget"
  /\ tracked' = tracked \ SameId(on[t])
  /\ Return(t)
  /\ UNCHANGED <<rcloneVars, faults, recordVars, batching, stop, todo, batch, closerVars>>

Poll(t) ==
  \/ Fetch(t) \/ Discard(t) \/ Refresh(t) \/ BeginSettle(t) \/ BeginLost(t)
  \/ Judge(t) \/ Purge(t) \/ Publish(t) \/ Forget(t)

-----------------------------------------------------------------------------
(* The monitor thread: _run() and _poll_once() *)

Pending == {j \in tracked : ~Settled(j)}
AtTick  == pc[Monitor] = "idle" /\ todo = {}

\* A tick that gets every pending job's status from one job/batch call; an
\* entry that failed on its own is a transient outcome of that job.
TickBatch ==
  /\ AtTick /\ ~stop /\ Pending # {} /\ batching /\ ~closed
  /\ todo' = Pending
  /\ \/ /\ batch' = [j \in Jobs |-> IF j \in Pending THEN Outcome(j) ELSE None]
        /\ UNCHANGED faults
     \/ \E bad \in Pending :
        /\ batch' = [j \in Jobs |-> IF j = bad THEN "transient"
                                    ELSE IF j \in Pending THEN Outcome(j) ELSE None]
        /\ Fault
  /\ UNCHANGED <<rcloneVars, recordVars, tracked, batching, stop, threadVars, closerVars>>

\* The whole call failed, or there is no batch transport any more.
TickSingly ==
  /\ AtTick /\ ~stop /\ Pending # {}
  /\ IF batching THEN (IF closed THEN UNCHANGED faults ELSE Fault) ELSE UNCHANGED faults
  /\ batching' = FALSE
  /\ todo' = Pending
  /\ batch' = [j \in Jobs |-> None]
  /\ UNCHANGED <<rcloneVars, recordVars, tracked, stop, threadVars, closerVars>>

NextRecord ==
  /\ pc[Monitor] = "idle"
  /\ \E j \in todo :
       /\ todo' = todo \ {j}
       /\ on' = [on EXCEPT ![Monitor] = j]
       /\ seen' = [seen EXCEPT ![Monitor] = batch[j]]
       /\ batch' = [batch EXCEPT ![j] = None]
       /\ Goto(Monitor, IF batch[j] = None THEN "fetch" ELSE "apply")
  /\ UNCHANGED <<rcloneVars, faults, recordVars, tracked, batching, stop, fin, closerVars>>

ExitThread ==
  /\ AtTick /\ stop
  /\ Goto(Monitor, "exited")
  /\ UNCHANGED <<rcloneVars, faults, recordVars, monitorVars, on, seen, fin, closerVars>>

-----------------------------------------------------------------------------
(* shutdown(), by the thread that closes the client *)

ShutdownCall ==
  /\ "shutdown" \in Allowed /\ sd \in {"never", "failed", "done"}
  /\ "lateStart" \in Allowed \/ \A c \in Clients : pc[c] \notin {"register", "ensure"}
  /\ snapshot' = tracked
  /\ sd' = "cancelling"
  /\ UNCHANGED <<rcloneVars, faults, recordVars, monitorVars, threadVars>>

ShutdownCancel(j) ==
  /\ sd = "cancelling" /\ j \in snapshot
  /\ RequestCancel(j)
  /\ Goto(j, "stop")
  /\ UNCHANGED <<rcloneVars, faults, status, snap, terminal, monitorVars,
                 on, seen, fin, closerVars>>

ShutdownWait ==
  /\ sd = "cancelling"
  /\ \A j \in snapshot : Settled(j) \/ cancelReq[j]
  /\ sd' = "waiting"
  /\ UNCHANGED <<rcloneVars, faults, recordVars, monitorVars, threadVars, snapshot>>

ShutdownTimeout ==
  /\ sd = "waiting" /\ \E j \in snapshot : ~Settled(j)
  /\ sd' = "failed"
  /\ UNCHANGED <<rcloneVars, faults, recordVars, monitorVars, threadVars, snapshot>>

\* Mutant: the poller is stopped at the deadline, whatever is unsettled.
ShutdownStopAnyway ==
  /\ sd = "waiting"
  /\ stop' = TRUE
  /\ sd' = "joining"
  /\ UNCHANGED <<rcloneVars, faults, recordVars, tracked, batching, todo, batch,
                 threadVars, snapshot>>

ShutdownStop ==
  /\ sd = "waiting" /\ \A j \in snapshot : Settled(j)
  /\ stop' = TRUE
  /\ sd' = "joining"
  /\ UNCHANGED <<rcloneVars, faults, recordVars, tracked, batching, todo, batch,
                 threadVars, snapshot>>

\* Mutant: the liveness of the joined thread is not looked at.
ShutdownJoinBlind ==
  /\ sd = "joining"
  /\ sd' = "done"
  /\ UNCHANGED <<rcloneVars, faults, recordVars, monitorVars, threadVars, snapshot>>

\* thread.join(timeout=1.0), whose bound may pass with the thread alive.
ShutdownJoin ==
  /\ sd = "joining"
  /\ IF pc[Monitor] \in {"off", "exited", "crashed"}
     THEN sd' = "done" ELSE sd' \in {"joining", "failed"}
  /\ UNCHANGED <<rcloneVars, faults, recordVars, monitorVars, threadVars, snapshot>>

-----------------------------------------------------------------------------
Environment ==
  \/ \E j \in Jobs : Progress(j) \/ Finish(j) \/ Expire(j)
  \/ Restart \/ CloseRuntime

Call(c) ==
  \/ \E j \in Jobs : StartRc(c, j) \/ StatusCall(c, j) \/ StatsCall(c, j) \/ CancelCall(c, j)
Continue(c) == Register(c) \/ EnsureThread(c) \/ StatsStore(c) \/ CancelAsk(c)

MonitorStep == TickBatch \/ TickSingly \/ NextRecord \/ ExitThread

Shutdown ==
  \/ ShutdownCall \/ ShutdownWait \/ ShutdownTimeout \/ ShutdownStop \/ ShutdownJoin
  \/ \E j \in Jobs : ShutdownCancel(j)

Next ==
  \/ Environment
  \/ \E c \in Clients : Call(c) \/ Continue(c)
  \/ \E j \in Jobs : Stop(j)
  \/ \E t \in Threads : Poll(t)
  \/ MonitorStep
  \/ Shutdown

Spec == Init /\ [][Next]_vars

\* Every started thread keeps running; nobody promises that the application
\* calls anything, that a job ends on its own, or that shutdown() is called.
Running ==
  /\ WF_vars(MonitorStep)
  /\ \A t \in Threads : WF_vars(Poll(t))
  /\ \A c \in Clients : WF_vars(Continue(c))
  /\ \A j \in Jobs : WF_vars(Stop(j))

\* rclone honours a job/stop: the job it reached ends.
Obedient == \A j \in Jobs : WF_vars(j \in stopping /\ Finish(j))

FairSpec == Spec /\ Running /\ Obedient
-----------------------------------------------------------------------------
(* Properties *)

\* Every variable keeps its type.
TypeOK ==
  /\ job \in [Jobs -> Endings \cup {"none", "running"}]
  /\ bytes \in [Jobs -> Bytes]
  /\ groups \subseteq Jobs /\ stopping \subseteq Jobs /\ expired \subseteq Jobs
  /\ ref \in [Jobs -> [run : 0 .. MaxRestarts, id : Nat] \cup {None}]
  /\ run \in 0 .. MaxRestarts /\ nextId \in Nat /\ closed \in BOOLEAN
  /\ faults \in 0 .. MaxFaults
  /\ cancelReq \in [Jobs -> BOOLEAN]
  /\ status \in [Jobs -> States \cup {None}]
  /\ snap \in [Jobs -> Bytes \cup {None}]
  /\ terminal \in [Jobs -> Verdicts \cup {None}]
  /\ tracked \subseteq Jobs /\ todo \subseteq Jobs
  /\ batching \in BOOLEAN /\ stop \in BOOLEAN
  /\ batch \in [Jobs -> Outcomes \cup {None}]
  /\ pc \in [Threads -> Controls]
  /\ on \in [Threads -> Jobs \cup {None}]
  /\ seen \in [Threads -> Outcomes \cup Verdicts \cup {None}]
  /\ fin \in [Threads -> Bytes \cup {None}]
  /\ sd \in {"never", "cancelling", "waiting", "joining", "failed", "done"}
  /\ snapshot \subseteq Jobs

\* The result a caller is given is true of the job: success is success, and
\* CANCELLED needs both this client's request and an ending that shows it
\* (_settle_terminal; operation.py on JobState).
TruthfulVerdict ==
  \A j \in Jobs :
    /\ terminal[j] \in Results => (terminal[j] = "succeeded" <=> job[j] = "succeeded")
    /\ terminal[j] = "failed" => job[j] \in {"failed", "interrupted"}
    /\ terminal[j] = "cancelled" => cancelReq[j] /\ job[j] = "interrupted"

\* A settled record keeps its verdict and its last snapshot, however many
\* pollers and stats() callers were under way when it settled.
SettledForGood ==
  [][\A j \in Jobs : Settled(j) =>
       /\ terminal'[j] = terminal[j]
       /\ snap[j] # None => snap'[j] = snap[j]]_vars

\* status() and wait() never tell two stories: the cached status of a settled
\* job is its verdict, and no status is terminal before the job settles, even
\* though every status is fetched outside poll_lock.
StatusAgrees ==
  \A j \in Jobs : IF Settled(j) THEN status[j] = StatusOf(terminal[j])
                               ELSE status[j] \in {None, "running"}

\* The final snapshot is the whole transfer: nobody's reading of a deleted
\* stats group replaces it.  (Without failed calls, which fall back to the
\* last snapshot.)
FinalSnapshotComplete ==
  \A j \in Jobs : terminal[j] \in Results /\ faults = 0 /\ ~closed /\ run = 0
                   => snap[j] = bytes[j]

MonitorGone == pc[Monitor] \in {"off", "exited", "crashed"}

\* A handle whose wait() can still block is watched: its record is in
\* _records and the monitor thread lives.
UnsettledIsWatched ==
  \A j \in Jobs : Handed(j) /\ ~Settled(j) =>
    j \in tracked /\ ~MonitorGone

\* A settled record leaves _records: only the thread that settled it, on its
\* way to _forget(), may still find it there.
SettledIsForgotten ==
  \A j \in tracked : Settled(j) => \E t \in Threads : on[t] = j /\ pc[t] = "forget"

\* When shutdown() returns True every job started before it is settled and
\* the polling thread is gone.
ShutdownConfirms ==
  sd = "done" =>
    /\ \A j \in Jobs : Handed(j) => Settled(j)
    /\ MonitorGone

\* request_cancel() "never stops the same job twice": the thread that calls
\* job/stop for a record runs at most once.
StopsOnce == [][\A j \in Jobs : pc[j] = "ended" => pc'[j] = "ended"]_vars

\* wait() returns: a job that ended, or that rclone can no longer answer for,
\* is settled.
Unobservable(j) == closed \/ j \in expired \/ ref[j].run # run
Vanished == {j \in Jobs : ref[j] # None /\ Unobservable(j)}
Over(j) == Unobservable(j) \/ job[j] \in Endings \ {"skewed"}
EndedIsReported == \A j \in Jobs : (Handed(j) /\ Over(j)) ~> Settled(j)

\* As long as the monitor thread lives, that is all it takes.
EndedIsReportedWhileMonitored ==
  \A j \in Jobs : (Handed(j) /\ Over(j)) ~> (Settled(j) \/ MonitorGone)

\* A requested cancellation ends in a settled record, unless its one job/stop
\* call failed or the job's ending is one no result can be made of.
StopLost(j) == pc[j] \notin {"off", "stop"} /\ j \notin stopping
CancelTakesEffect ==
  \A j \in Jobs : cancelReq[j] ~> (Settled(j) \/ StopLost(j) \/ MonitorGone \/ job[j] = "skewed")

\* What the handles promise, and how the monitor's state shows it.
Promise == INSTANCE JobPromise WITH
  truth <- job, asked <- cancelReq, told <- terminal,
  vanished <- Vanished
KeepsPromise == Promise!Spec
-----------------------------------------------------------------------------
(* The inductive invariant behind the theorems of JobMonitor_proofs *)

\* A verdict that is true of what job j did.
TrueOf(j, v) ==
  /\ v = "succeeded" => job[j] = "succeeded"
  /\ v = "failed"    => job[j] \in {"failed", "interrupted"}
  /\ v = "cancelled" => job[j] = "interrupted" /\ cancelReq[j]
  /\ v \in Lost      => j \in Vanished

Busy == {"register", "ensure", "store", "cancel", "fetch", "apply"} \cup Locked

\* What a thread has in hand at each control point.
InHand ==
  \A t \in Threads :
    /\ pc[t] \in Busy => on[t] \in Jobs /\ ref[on[t]] # None
    /\ pc[t] = "store" => fin[t] \in Bytes
    /\ pc[t] = "apply" => seen[t] \in Outcomes
    /\ pc[t] = "settle" => seen[t] \in Endings
    /\ pc[t] = "purge" => seen[t] \in Results
    /\ pc[t] = "publish" => seen[t] \in Verdicts
    /\ pc[t] \in {"purge", "publish"} /\ seen[t] \in Results => fin[t] \in Bytes

\* Only started jobs are known to anybody, no reference is from the future,
\* and only a request starts a cancel thread.
OnlyStarted ==
  /\ \A j \in Jobs : ref[j] = None <=> job[j] = "none"
  /\ \A j \in Jobs : ref[j] # None => ref[j].run <= run
  /\ \A j \in tracked \cup todo \cup snapshot : ref[j] # None
  /\ \A j \in expired : ref[j] # None
  /\ \A j \in Jobs : (cancelReq[j] => ref[j] # None) /\ (pc[j] # "off" => cancelReq[j])

\* An outcome in flight is stale at worst, never wrong.
StaleNotWrong ==
  /\ \A t \in Threads : pc[t] \in {"apply", "settle"} /\ seen[t] \in Endings
                        => job[on[t]] = seen[t]
  /\ \A t \in Threads : pc[t] = "apply" /\ seen[t] \in Lost => on[t] \in Vanished
  /\ \A t \in Threads : pc[t] \in {"purge", "publish"} => TrueOf(on[t], seen[t])
  /\ \A j \in Jobs : batch[j] \in Endings => job[j] = batch[j]
  /\ \A j \in Jobs : batch[j] \in Lost => j \in Vanished

\* poll_lock: one settler a record, which has not settled it yet.
OneSettler ==
  /\ \A t, u \in Threads : pc[t] \in Locked /\ Holds(u, on[t]) => t = u
  /\ \A t \in Threads : pc[t] \in {"settle", "purge", "publish"} => ~Settled(on[t])

ToldTrue == \A j \in Jobs : Settled(j) => TrueOf(j, terminal[j])

CoreInv == InHand /\ OnlyStarted /\ StaleNotWrong /\ OneSettler /\ ToldTrue

\* start_job() holds a record nobody else has heard of until it is in _records,
\* and a record is forgotten only once it is settled.
KnownInOrder ==
  /\ \A c \in Clients : pc[c] = "register" =>
       /\ ~Settled(on[c]) /\ ~cancelReq[on[c]]
       /\ on[c] \notin tracked \cup todo \cup snapshot
       /\ \A t \in Threads \ {c} : pc[t] \in Busy => on[t] # on[c]
  /\ \A t \in Threads : pc[t] = "forget" => Settled(on[t])

\* No call has failed, and rclone is the one that was there at first.
Undisturbed == faults = 0 /\ ~closed /\ run = 0

\* The stats group of a job stands until its settler has read it, and what
\* the settler then has in hand is all the job transferred.
ReadBeforePurge ==
  Undisturbed =>
    /\ \A j \in Jobs : ref[j] # None /\ ~Settled(j) /\ j \notin groups
                      => \E t \in Threads : on[t] = j /\ pc[t] = "publish"
    /\ \A t \in Threads : pc[t] \in {"purge", "publish"} /\ seen[t] \in Results
                          => fin[t] = bytes[on[t]]

RecordInv == KnownInOrder /\ ReadBeforePurge /\ FinalSnapshotComplete /\ SettledIsForgotten

\* One execution of rclone never gives two jobs the same id.
IdsDiffer ==
  \A j, k \in Jobs : ref[j] # None /\ ref[k] # None =>
    /\ ref[j].id < nextId
    /\ ref[j].id = ref[k].id => j = k

\* A job that is not settled is in _records, or about to be.
UnsettledIsKnown ==
  \A j \in Jobs : ref[j] # None /\ ~Settled(j) =>
    j \in tracked \/ \E c \in Clients : on[c] = j /\ pc[c] = "register"

\* shutdown() saw every job that is not settled, and the poller is told to
\* stop when there is none left.
ShutdownSawAll ==
  /\ sd # "never" => /\ \A c \in Clients : pc[c] \notin {"register", "ensure"}
                     /\ \A j \in Jobs : ref[j] # None /\ ~Settled(j) => j \in snapshot
  /\ stop => sd # "never" /\ \A j \in Jobs : ref[j] # None => Settled(j)
  /\ sd \in {"joining", "done"} => stop
  /\ sd = "done" => MonitorGone

\* The monitor thread starts before a job is handed out, no ending kills it,
\* and it leaves only when told to stop.
MonitorLives ==
  /\ \A j \in Jobs : job[j] # "skewed"
  /\ pc[Monitor] # "crashed"
  /\ pc[Monitor] = "exited" => stop
  /\ pc[Monitor] = "off" => \A j \in Jobs : ref[j] # None =>
       \E c \in Clients : on[c] = j /\ pc[c] \in {"register", "ensure"}

\* What holds besides as long as rclone has not been replaced and no start
\* overlaps shutdown(); and, of the monitor thread, where the clock is not
\* stepped back.
NoLateStart == "lateStart" \notin Allowed
SteadyClock == "skew" \notin Allowed
WatchInv    == run = 0 /\ NoLateStart => IdsDiffer /\ UnsettledIsKnown /\ ShutdownSawAll
LivesInv    == SteadyClock => MonitorLives

Inv == CoreInv /\ RecordInv /\ WatchInv /\ LivesInv
=============================================================================
