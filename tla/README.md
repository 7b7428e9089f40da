# Verification of rclone-kit

rclone-kit is a synchronous, thread-safe Python client of rclone. rclone runs
inside the process, as a library reached by JSON remote calls ("RC calls").
The Python side adds what rclone does not have: handles of jobs, servers and
mounts, a monitor thread that settles jobs, a single-flight queue of OAuth
authorizations, resumable multipart uploads, threaded walkers. This project
models that side in TLA+, checks it with TLC and proves theorems about it with
TLAPS. Paths below are under `src/src/rclone_kit/` unless they say otherwise.

## Running it

    tlc -workers 2 -config MCJobRecord.cfg MCJobMonitor     # any MC*.cfg with its module
    tlapm JobMonitor_proofs.tla                              # any *_proofs.tla

`PROJECT.json` lists the runs, the code each definition models (`map`), a
mutation of the code that each property catches (`mutants`), the findings, the
hazards and the theorems. An operator whose comment says *Mutant* is one of
those mutations, and no specification uses it. `PROJECT.json` has one mutation a
property; where a property is a conjunction over several components, the modules
hold one for each of the others as well: `TakeAnyListing`, `SubpathFromRoot`,
`TakeSnapshotButLast`, `VisitAppended`, `YieldUnjoined`, `GetFailsMessily` and
`CollectedAnyhow` break `Delivered`, `DrainNothing` and `UploadEndWhenAllDone`
break `EverythingEnds`, `RunnerEndsDone` and `ExpectedFromTheList` break
`ObjectsAreWhole`.

# Part 1. The system

## How the parts fit

    application threads
      |  Rclone (client.py) ........ owns or is given an RcloneRuntime
      |    |- JobHandle -> _JobMonitor (job.py) -- one polling thread a client
      |    |- PartitionedJobHandle (partitioned_job.py) -- several JobHandles
      |    |- ServeHandle, MountHandle, AuthorizationSession -- tracked, closed by close()
      |    `- operations/*, s3/multipart/*, fs/* -- built of RC calls, jobs and threads
      |  AuthorizationManager (authorization/) -- one a runtime, shared by its clients
      v
    RC clients (rc/*.py): build a request, parse a response
      v
    RcloneRuntime (native/runtime.py): counts calls, initializes and finalizes
      v
    librclone: job table, stats groups, one OAuth flow, one config file

Everything shares the one library of the process. A runtime closed by one
client is closed under all of them; a job id means something only in the
execution of rclone that gave it; `config/oauthstop` stops whichever flow runs.

## The inventory

**Job monitor and handles** (`job.py`, `rc/jobs.py`, `operation.py`).
*State*: `_JobRecord` (cancel_requested, latest_status, latest_stats,
terminal_result, terminal_exception; `condition` guards them, `poll_lock`
serializes settling), `_JobMonitor` (_records, _batch_client, _stop_event,
_thread), and in rclone the job table and the core/stats groups.
*Operations*: start_job, status, stats, wait, cancel, close, shutdown, the tick
(_poll_once by job/batch, or singly), settling, losing a job.
*Interaction*: the monitor, a one-shot cancel thread a job and any caller of
status() poll the same record; the status is fetched before `poll_lock` is
taken, so it may be out of date when applied.
*Hard*: two pollers settling one record, a stats reading of a deleted group, a
cancel racing the job's own end, a restart that gives an old id to a new job,
an expired job, a runtime closed by somebody else, an exception in the
polling thread, shutdown racing start.
*Correct when*: a verdict is true and final, status() and wait() agree, every
ended or unobservable job is settled, job/stop is sent once, shutdown() says
True only when nothing runs.

**Native runtime** (`native/runtime.py`).
*State*: _initialized, _closed, _active_calls under `_state_lock`; the
process-wide shared instance under its own lock; the library itself, which can
be initialized once.
*Operations*: initialize, call, build_info, close (wait for calls, finalize),
shared_runtime.
*Hard*: close() against calls in flight, initialize() against close(),
concurrent creation of the shared runtime.
*Correct when*: finalize runs alone, no call runs in a library that is not up,
close() ends, one shared runtime is created.

**Authorization** (`authorization/`, `rc/auth.py`).
*State*: manager (_active, _pending, caps), `_SessionRecord` (status,
cancel_requested, expire_requested, url, timer, generation), and in rclone the
one OAuth flow and the config sections.
*Operations*: start, cancel, close, relay, _admit, _promote_next, _on_settled,
_on_deadline; the driver and watcher threads, the stop threads, the timers.
*Interaction*: up to five threads a session and those of every other session
meet in the manager's lock, the record's condition and rclone.
*Hard*: stale timers, promotion from three places, a watcher that outlives its
driver, a stop that finds nothing to stop, cleanup that must not delete a token.
*Correct when*: one session drives rclone at a time, the slot never idles while
someone waits, outcomes are true and final, tokens survive, everybody leaves
the queue and the slot.

**Client** (`client.py`). *State*: tracked serves, mounts, listing streams and
authorization sessions, the lazily made monitor, owned or injected runtime.
*Operations*: track/untrack, _ensure_job_monitor, close(). *Hard*: handles
disposed of while close() walks their set, two first starts making two monitors,
one closer failing. *Correct when*: close() tries every resource once, ends its
jobs, closes only an owned runtime, and reports every failure.

**Serve and mount handles** (`serve_handle.py`, `mount_handle.py`,
`operations/serve_ops_embedded.py`, `operations/mount_ops_embedded.py`).
*State*: disposed flag and callback. *Operations*: stop/unmount, close.
*Hard*: the handle is marked before the call that may fail. *Correct when*: a
handle stays where close() finds it until its stop call is made.

**Transfers and partitioned jobs** (`partitioned_job.py`,
`operations/transfer_ops_embedded.py`, `group_files.py`). *State*: the tuple of
child handles, a temporary directory of FilesFrom lists. *Operations*: grouping
the files by directory, start_* (one job a partition), the blocking copy_files
and delete_files (batches, and a rmdirs job after each successful deletion),
wait, cancel, close, aggregate. *Hard*: a later start failing, a lost job,
children ending differently, several threads in wait() and one in close().
*Correct when*: the groups name the files listed, the aggregate is the truth
about all children, no list goes while a job may read it, no more jobs are
outstanding than allowed.

**S3 resumable multipart upload** (`s3/multipart/upload_parts_resumable.py`,
`info_json.py`, `finished_piece.py`, `types.py`,
`operations/copy_file_parts_resumable.py`). *State*: info.json and the part
files at the destination; two pools and the semaphore that paces them.
*Operations*: find the missing parts, stage and copy them, finish. *Hard*: a
crash or failure between parts, a second run, a staging disk that fills.
*Correct when*: what is missing is exactly what is not there, and done means all
of it.

**S3 server-side merge** (`s3/multipart/upload_parts_server_side_merge.py`,
`merge_state.py`). *State*: merge.json, finished pieces, a pool and the thread
that writes merge.json. *Operations*: begin, resume, merge, clean up. *Hard*:
resuming a half-merged upload, a writer behind or beyond its workers, lost
answers of S3. *Correct when*: merge.json claims nothing S3 does not hold, the
object is all parts in order, nothing is purged before.

**S3 inline multipart upload** (`s3/multipart/upload_parts_inline.py`,
`upload_state.py`, `s3/chunk_task.py`, `file_part.py`, `chunk_store.py`).
*State*: the upload state file, a queue of one place between the chunker and the
uploaders. *Hard*: the end of the stream with fetches outstanding, suspension,
interruption, resumption, a source that changed. *Correct when*: the state file
claims nothing S3 does not hold, and a completed object has every chunk.

**Walkers and producers** (`background_producer.py`, `fs/walk_threaded*.py`,
`operations/walk.py`, `scan_missing_folders.py`, `diff.py`). *State*: a bounded
queue, a sentinel, a stop flag, listings in flight. *Hard*: a consumer that
stops early, an error in the producer, a drained sentinel, listings that end
out of order. *Correct when*: directories come in order and all of them, or an
error does, and no thread is left behind.

**Progress** (`progress.py`). *State*: a thread that polls stats and calls
back. *Hard*: stop() inside the callback, the last snapshot.

**HTTP range downloads** (`http_server.py`). Parallel range requests with retries, each to
a file of its own, and their reassembly.

**Listings** (`rc/list_stream.py`, `embedded_file_stream.py`,
`operations/listing_ops_embedded.py`, `operations/db_ops.py`). *State*: a cursor over a listing in rclone, the batch and the page
in hand. *Hard*: a cursor closed under its reader, a listing that fails behind a
full batch. *Correct when*: an incomplete listing never ends like a complete one.

**Without state of their own**: the native binding and library discovery
(`native/abi.py`, `library.py`), the other RC envelopes (`rc/*.py`), S3 client
construction, listing parsers, the filesystem facade, configuration and
settings, SQL, the command line, platform checks. `PROJECT.json` lists every
one with its reason.

# Part 2. The plan

| # | module | models | state |
|---|--------|--------|-------|
| 1 | `JobPromise`, `JobMonitor`, `JobMonitor_proofs` | jobs, and what a handle promises | done |
| 2 | `NativeRuntime`, `NativeRuntime_proofs` | the runtime and the shared instance | done |
| 3 | `Authorization`, `Authorization_proofs` | the authorization manager | done |
| 4 | `PartitionedJob`, `PartitionedJob_proofs` | partitioned copies and deletions over jobs that keep `JobPromise`; the whole keeps it too | done |
| 5 | `ClientClose` | handles and their disposal, the lazy monitor, close() with its isolated closers | done |
| 6 | `PartsDir`, `PartsUpload`, `PartsMerge`, `MultipartCopy`, `MultipartCopy_proofs` | the resumable copy: upload of the parts, their merge, and both together over crashes and repeated calls | done |
| 7 | `InlineUpload`, `InlineUpload_proofs` | the multipart upload of a local file with its state file | done |
| 8 | `TreeWalk`, `FsWalk`, `TreeWalk_proofs`, `Progress`, `Download`, `ListStream` | what runs a thread or a queue towards its caller | done |
| 9 | `GroupFiles` | the grouping of a list of files | done |
| 10 | `MCOperations`, `Operations_proofs` | 5 to 9 as one model, each with its own bounds; the theorems of 5, of the small modules of 8, of 9 and of the whole | done |

Abstract specifications: `JobPromise`, which `JobMonitor` implements for one job
and `PartitionedJob` for many. What a walk, a scan, a stream or a download
promises is a value (`Expected`, `Accepted`, `Order`), with which its output is
compared.

Composition: `PartitionedJob` uses `JobPromise` for its children and implements
it again; `MultipartCopy` composes `PartsUpload` and `PartsMerge` over the
directory `PartsDir`; `FsWalk` walks the tree of `TreeWalk`. `ClientClose` takes
of the job monitor that a shutdown settles its jobs or times out (`ShutdownConfirms`)
and of the runtime that a closed one fails every call.

Instances stay at one to three actors of each kind and one or two faults: every
hazard listed needs at most three threads and one failure.

Left: the atomicity of the state files (a crash inside a write), and `diff.py`,
once it does more than parse; the other operations keep no state between two
calls. Every safety property that a passing run checks has its theorem.

# Part 3. The models

An action is what one thread does between two points where another may run:
one section under a lock, or one RC call. The value of `pc`-like variables
says where a thread stands; guards come from the code's conditions. RC calls
are nondeterministic in what they answer, as far as rclone may answer it.

## JobMonitor (and JobPromise)

| code | model |
|------|-------|
| rclone's job table, `RcJobRef` | `job`, `bytes`, `groups`, `expired`, `ref`, `run`, `nextId`, `closed` |
| `_JobRecord` | `cancelReq`, `status`, `snap`, `terminal` |
| `_JobMonitor` | `tracked`, `batching`, `stop`, `todo`, `batch`; `sd`, `snapshot` for a running shutdown() |
| the threads | `pc`, `on`, `seen`, `fin`: control point, record, outcome and stats in hand |
| `start_job` | `StartRc`, `Register`, `EnsureThread` |
| `status`, `stats`, `cancel` | `StatusCall`, `StatsCall`/`StatsStore`, `CancelCall`/`CancelAsk`/`Stop` |
| `_poll_record`, `_apply_poll_outcome` | `Fetch`, `Acquire`, `Discard`, `Refresh`, `BeginSettle`, `BeginLost` |
| `_settle_terminal`, `_settle_unobservable` | `Judge`, `Purge`, `Publish`, `Forget` |
| `_poll_once` | `TickBatch` or `TickSingly`, `NextRecord` |
| `shutdown` | `ShutdownCall` ... `ShutdownJoin` |

`terminal` stands for terminal_result and terminal_exception together, so
`terminal # None` is `is_settled`. Byte counts stand for all of a stats
reading. A `skewed` job carries an end time before its start, the one ending
`OperationResult` refuses. wait() only blocks until `terminal` is set: it is the
liveness properties. watch() and on_progress() belong to the progress
component.

`JobPromise` is the job as its caller sees it: at most one verdict, true of the
job, CANCELLED only for a caller who asked. `KeepsPromise` is the refinement:
`truth <- job, asked <- cancelReq, told <- terminal`, and `vanished` the jobs
rclone can no longer answer for.

## NativeRuntime

`initialized`, `closed`, `active` are the fields of each `RcloneRuntime`;
`native` is the library ("cold", "up", "down"); `instance` and `creating` are
`_SharedRuntimeHolder`. `_state_lock` is held across a step only by
initialize(), which enters the library with it, so `Free(r)` is the guard of
everything that takes it. close() reads `was_initialized` under the lock and
waits, then finalizes, with the lock let go, as the code does. The interpreter's
own guarantees (a lock is a lock, reading one attribute is atomic) are assumed.

## Authorization

| code | model |
|------|-------|
| `_active`, `_pending`, `_pending_cap` | `active`, `ticket` (place in the deque, 0 outside it), `cap` |
| `_SessionRecord` | `status`, `cancelReq`, `expireReq`, `url`, `gen`, `timer` |
| rclone's OAuth listener, shared config | `flow` (whose listener is bound), `section` (absent, partial, token) |
| start, `_admit` | `StartCheck`, `StartAdmitted` / `StartQueued` / `StartRefused`, `AdmitStatus`, `AdmitStart` |
| cancel, close_session | `CancelCall`, `CancelQueued`, `CancelLook`, `CancelAsk`; `CloseCall`, `CloseRemove`, `CloseMark` |
| `_stop_oauth_until_acknowledged` | `StopFlow`, `StopNothing`, `StopFails`, `StopLook`, `StopGivesUp` |
| `_run_driver`, `drive` | `Create`, `Answer`, `Bind`, `Built`, `Failed`, `Cleanup`, `Delete`, `Release`, `DriverPromote` |
| `_run_watcher` | `WatchPoll`, `WatchEnd`, `WatchTell` |
| relay | `RelayCheck`, `RelayMark` |
| `_arm_timer`, `_on_deadline` | `Fire`, `LateLock`, `LateAsk`, `LateExpire`, `LatePromote` |

The user and the provider are the external action `Consent`: it may save a
token and end the flow well, save one and be followed by a question the driver
does not know, or fail. The oauthstop call ends the flow of whichever session
has one. relay()'s look at the slot and at the record is one step, its mark
another; a callback is always one whose state matches. At most one stop thread
a session and cause is a bound: a second one would do what the first does.
A watcher that raises or reads "stopped" polls again, which is a stutter. The
HTTP forward of a relayed request changes nothing here.

## PartitionedJob

| code | model |
|------|-------|
| the constituent `JobHandle`s | `truth`, `asked`, `vanished`, `told`: `JobPromise` over the pairs (partition, "work" or "rmdirs") |
| the thread in copy_files, delete_files or start_* | `main`, `next` (partitions started), `cur` (the one waited for), `mode`, `size` |
| the directory of FilesFrom lists | `lists` |
| the aggregate given | `answer` |
| the callers of a `PartitionedJobHandle` | `pc`, `idx` (the child a loop is at) |
| starting the partitions | `StartPartition`, `StartRefused` |
| collecting the results | `CollectWork`, `StartRmdirs`, `CollectRmdirs`, `CollectLost` |
| wait, cancel, close | `Call`, `WaitOne`, `WaitLost`, `WaitTimesOut`, `CancelOne` |

`mode` is "handle" (start_copy_files, start_delete_files), "copy" (copy_files and
delete_files without rmdirs) or "rmdirs". A result is a verdict; `Aggregate`
folds the verdicts as aggregate_results() does. An empty list of files starts
nothing and is left out (`N` is positive), and so is what a `Sequence` of results
carries besides ok and cancelled. An operation that raised (a start refused, a job
lost) ends in "raised": the code leaves the jobs it began running, a
`TemporaryDirectory` is removed under them and one made by mkdtemp() stays. The
model has all of that; `ListsOutlastJobs` excepts it.

`KeepsPromise` is `JobPromise` once more, of the one job "whole": it has not ended
before every partition has, it failed if one failed, and its verdict is `answer`.

## ClientClose

| code | model |
|------|-------|
| `_track_*`, the hook a handle untracks itself by | `born`, `tracked`; `Open`, `Track`, `InstallHook` |
| `dispose()` / `close()` of a handle, by its owner and by close() | `flagged`, `at[who][handle]`; `Flag`, `Ask`, `Untrack` |
| `_ensure_job_monitor`, `start_job` | `monitor`, `starter`, `under`; `LookForMonitor`, `MakeMonitor`, `StartJob` |
| `_tracked_resource_closers` | `BeginIteration`, `EndIteration` (a set that changed its size raises) |
| the closers, the monitor's shutdown, the runtime | `CloseTakes`, `ShutdownJobs`, `JobsAwaited`, `CloseRuntime` |

Serves, mounts, streams and sessions differ in what a failing stop call does: a
server's or a mount's is swallowed, a stream's raises before its hook, a session
has no flag and may be cancelled twice. The histories `asked` (stop calls made)
and `owed` (what close() found) are only for the properties. `closer` ends in
"returned", "group" (failures collected), "unsettled" (jobs left, RuntimeError
before the runtime is closed) or "broken" (a set changed under the iteration,
a finding). The name of an installed hook and the logging are left out.

## The resumable copy: PartsDir, PartsUpload, PartsMerge, MultipartCopy

| code | model |
|------|-------|
| `<dst>-parts/`, info.json, `PartInfo`, `InfoJson` | `parts`, `info`; `SplitParts`, `ExpectedParts`, `FetchIsDone` (`PartsDir`) |
| `upload_parts_resumable` | `up`, `todo`; `UploadBegin`, `Submit`, `UploadEnd` (`PartsUpload`) |
| its two pools and semaphore | `task`; `ReadStart`, `ReadEnd`, `CopyStart`, `CopyEnd`; `Outstanding` |
| S3, merge.json | `uploads`, `object`, `mergeJson` (`PartsMerge`) |
| `_begin_or_resume_merge` | `MergeResume`, `MergeNew`, `MergeRefused` |
| `S3MultiPartMerger.merge`, its futures and `final_fut` | `mg`, `job`, `fin`; `JobSubmit` ... `JobTell`, `FinalRuns`, `PoolFails`, `Complete` |
| `MergeState`, `WriteMergeStateThread` | `st`, `wq`, `wr`, `snap`; `WriterGets`, `WriterWrites`, `Closed`; `late` for a write its close() gave up on |
| `_cleanup_merge`, the purge | `Cleanup`, `PurgePart`, `PurgeState`, `Purged` |
| `copy_file_parts_resumable`, `copy_large_s3_finish` | `StartCopy`, `StartFinish`, `Uploaded`, `Return` (`MultipartCopy`) |

`Crash` takes the process away between any two steps and leaves the directory,
merge.json and S3. A request that fails may have done its work all the same
(`\E made \in BOOLEAN`). A part is its number, its content is its range; bytes
are `Size` and `Chunk`, so that the short last part and the size check before the
purge mean what they mean in the code. Expected parts are computed as the code
does, first part forgotten: `ObjectsAreWhole` therefore allows for an object
without it, and the finding says so. Tries of one request are one step with
its final outcome.

## InlineUpload

| code | model |
|------|-------|
| the upload state file, S3, the object, the source's size | `saved`, `mpu`, `made`, `file` |
| `upload_file_multipart` | `ctl`, `state`; `BeginNew`, `BeginResume`, `BeginChanged`, `CompleteInline` |
| `file_chunker` and its fetches | `next`, `limit`, `fetch`; `ChunkerFetches`, `FetchEnds`, `FetchGives`, `ChunkerEnds` |
| `queue_upload`, one place | `queue`, with `EOS` for `EndOfStream` |
| `upload_runner`, `upload_task` | `held`, `send`; `RunnerGets`, `RunnerSubmits`, `SendEnds`, `Keep`, `RunnerEnds` |

`Keep` is `UploadState.add_finished`, append and save under its lock. The
chunker may end the queue while fetches are out: their chunks then wait in
put() for ever, outside the call, and `RunnerEnds` sees parts missing
("suspended"). `Edit` gives the source another size between two calls.
`max_chunks_before_suspension` is chosen at each call from `Suspensions`.

## TreeWalk and FsWalk

`TreeWalk` is walk() and scan_missing_folders() over `background_producer.py`:
`Visit`, `Diff`, `Subtree` and `Report` are the producer's work items in the order
the recursion takes them, `Put`, `PutSentinel` and `Record` the bounded queue, the
sentinel and the exception recorded behind it, `Yield`, `BreakOff`, `Drain` and
`Join` the generator and its finally. A directory is the path of child numbers
from the root, a listing its sorted children. `FsWalk` is `FSWalkThread`:
listings submitted to the pool up to `Backlog` (`Submitting`, `Listed`), their results
taken from the head (`TakeHeadListing`), put with a look at the stop event
(`Yielded`, `FsPut`, `FsPutNone`), and the owner's with block (`Read`, `Exit`,
`FsDrain`). A failed listing of this one skips its directory, as the code does.
The order of a walk (`Precedes`, `InOrder`) and the layout of parts (`Ascending` in
`PartsMerge`, `Order` in `Download`) are defined by what they are, the one sequence
of a set in its order, and not by a sorting operator, since the theorems are
about them. The destination of a scan is assumed to have its root.

## Progress, Download, ListStream, GroupFiles

`Progress`: `LookDone` reads source.done before `TakeSnapshot`, `Show` looks at
the stop event before the callback, `CallbackEnds` may have called stop(), `Stop`
and `Joined` or `JoinTimesOut` are a stop() from another thread.

`Download`: `GetStart`, `GetDone`, `GetFails` are `attempt()` of a pool thread,
`chunkFile` the files by their names; `Collect`, `OnProgress` and `Collected` the loop
over the futures, `AppendChunk` the concatenation, `LeavePool` and `Discard` the
way out of a failure. `Name` is the suffix a start is formatted to, from one `Unit`
on in tenths of it, as `SizeSuffix` does.

`ListStream`: `ListMore` and `ListEnds` are rclone's listing, `NextBatch`
liststream/next, `TakeItem` and `BatchEnds` the generator with its pages,
`CloseStream` a close() from anywhere.

`GroupFiles`: `Group` is group_files() for one list, by the tree `_make_tree()`
builds and the merging of `_merge()`; `Subpath` is `get_child_subpaths()` with the
directories it forgets, which is a finding. A directory holds one file of a list
at most, since files of one directory always share their group.

## MCOperations

These operations share no state with each other, so one model has them
all: its initial states choose a `mode`, an operation, and every later step is
one of that operation. That makes one type invariant, one liveness property and
one `Delivered` of what is the same question for each, and it is the sum of the
instances, not their product.

# Part 4. What is checked

| run | instance | shows |
|-----|----------|-------|
| `job_record` | 1 job, 1 caller (besides monitor, cancel thread, shutdown), 1 byte, 1 failed RC call | `SettledForGood`, `StatusAgrees`, `FinalSnapshotComplete`, `SettledIsForgotten`, `UnsettledIsWatched`, `ShutdownConfirms`, `StopsOnce` |
| `job_misfortune` | 1 job, expiry, closed runtime, lost stop, clock skew; fair | `TruthfulVerdict`, and the liveness `EndedIsReportedWhileMonitored`, `CancelTakesEffect` |
| `job_restart` | 2 jobs, 1 restart that reuses ids | `Inv`, `KeepsPromise`: no job takes another's ending for its own |
| `runtime` | 3 threads, 2 runtimes, fair | `TypeOK`, `FinalizeAlone`, `RpcInLiveLibrary`, `SharedIsTheOne`, `CloseEnds` |
| `auth` | 2 sessions of one name, the second a reconnect; queue of 0 or 1; one cancel or close call; every failure | `Inv`, `SingleFlight`, `NoLostWakeup`, `TruthfulOutcome`, `SettledForGood`, `TokenKept` |
| `auth_live` | the same two sessions, one failing oauthstop, relay, deadlines; fair | `QueueWaitEnds`, `ActiveIsFreed` |
| `partitioned` | 2 partitions, batches of 1 or 2, 2 threads on the handle, refused starts, lost jobs, shutdown; fair | `Inv`, `ListsOutlastJobs`, `WithinBatch`, `KeepsPromise`, `CancelEndsWaits` |
| `operations` | each of the operations of `MCOperations`, two calls where a second one matters, at most two failures; fair | `OperationsTypeOK`, `RecordIsTrue`, `SavedIsTrue`, `StagingBounded`, `ObjectsAreWhole`, `CloseIsTotal`, `TrackedUntilStopped`, `Delivered`, `PurgedWhenWhole`, `EverythingEnds` |

Runs that show a disagreement (each a finding of `PROJECT.json`):

| run | violated | what happens |
|-----|----------|--------------|
| `job_skew` | `EndedIsReported` | a job whose end precedes its start raises out of the polling thread; its sibling is never settled |
| `auth_lost_cancel` | `CancelSettles` | a cancel before the listener is bound counts as done and is forgotten |
| `group_files` | `GroupsNameTheFiles` | a file two directories below its group is named without the first of them |
| `http_chunks` | `CleanDownloadReturns` | beyond a unit two chunks have one file name, and the download raises with no request failing |

Four more counterexamples have a configuration to look at and no run:

| configuration | violated | what happens |
|---------------|----------|--------------|
| `MCJobLateStart.cfg` | `EndedIsReported` | a job started as shutdown() succeeds has no poller, and wait() blocks for ever |
| `MCRuntimeLateInit.cfg` | `ClosedStaysDown` | initialize(), past its check, brings the library up on a runtime closed meanwhile |
| `MCAuthSameName.cfg` | `TokenKept` | two REJECT sessions of one name: the second deletes the token of the first |
| `MCUploadResume.cfg` | `ResumeCompletes` | a second call with only the short last part to do writes its size as the chunk size, and the merge refuses for ever |

The other findings were met while modelling and are in the models as the code
has them: a property about them is stated so as to allow for them, and the
finding names it.

**Why the bounds are enough.** One job has four threads at it (monitor, cancel
thread, caller, closer), all the pollers the code can make for a record; the
second job matters only for ids (`job_restart`) and for a polling thread that
dies (`job_skew`). One byte tells a full snapshot from an empty one. One failed
call is enough to reach each error path; two in a row repeat the same state.
Two runtimes and three threads let one thread close, one call and one race the
creation. Two sessions are one in the slot and one waiting, which is what every
guard of the manager distinguishes; the order of three waiters is the deque's.
Two partitions have a first and a last, a batch that is full and one that is not,
and results that differ; two threads on the handle let one cancel what the other
waits for.
The bounds are named in the modules: `MaxBytes`, `MaxFaults`, `MaxRestarts`,
`MaxCalls`, `PendingCaps`, `OwnerCap`, and those of the operations below. relay() is left out of `auth` for the
size of the instance; it is in `auth_live`, and the theorems cover it.
Deadlock checking is off because every instance really may stop: all jobs
settled, all threads idle.


**The bounds of the operations.** Three parts (`Size` 5, `Chunk` 2: two whole
ones and a short one) have a first, a middle and a last, which is what resuming,
numbering and the size check tell apart; two calls with one crash and one fault
between them are a merge interrupted anywhere and resumed (`MaxCalls`, `MaxCrashes`,
`MaxFaults`). `Workers` is 2, so that a piece and the end of the stream can pass
one another; `Threads` is 1, which lets one part be read while another is
copied, since the two pools overlap. Three chunks, two uploaders, one death, one
mishap and one edit (`Chunks`, `Uploaders`, `MaxDeaths`, `MaxMishaps`, `MaxEdits`)
let one chunk be in the queue, one in an upload and one in a fetch; a call may
suspend after the first. A queue of one place (`QueueSize`, `FsQueueSize`) is the
fullest queue there is; the tree has seven directories on three levels, so that
two levels at once, a missing folder below a missing folder and listings out of
order occur, with depths -1, 0, 1 and 2. A download of seven bytes is four
chunks, the last short, through two threads with a second try (`RangeChunk`,
`PoolSize`, `Retries`). Four entries, one rejected, are more than a batch and more
than a page. One server, one stream and one close() (`MaxCloses`), and two threads
that start jobs: a second handle of a kind is one more turn of the same loop,
and the theorems of `Operations_proofs` have any number. At most `MaxFailures`
(2) further failures, so that a second one comes while the first is handled.

**Fairness.** Weak fairness of the monitor's steps, of every poll and call once
begun, of a dispatched job/stop, and of an obedient rclone (a job that received
job/stop ends). For the runtime, of every thread inside an operation. For the
manager, of its threads, its timers and the RC calls. For a partitioned
operation, of the thread inside it, of a caller inside wait(), cancel() or close(),
and of what `JobMonitor` shows of each child: an ending is reported, a job asked to
stop ends (so an rclone that gets the job/stop). Nowhere is it assumed that an
application calls anything, that a job ends by itself or that a user answers:
`Consent`, `Finish` of a job nobody stopped, `Ask` and every call are unfair. For
the operations, weak fairness of `MCStep`: whatever threads, rclone and the
network of the one operation do next, something of it happens. Calls, crashes,
faults, a loop broken off and a source that settles are not in it. A process has
nothing else to run, and the fairness names no thread; so `EverythingEnds` means
that no step leaves all of them waiting and none of them turns in a circle. The
code's threads are daemon threads without priorities, each in a loop with a
bounded wait, which weak fairness describes; a lock that is always free
again in the end is all that it asks of the interpreter.

**What the liveness properties except.** `CancelTakesEffect` holds unless the
single job/stop call failed (the code sends no second), the monitor is gone or
the ending is skewed. `ActiveIsFreed` holds unless a stop found no flow
(`auth_lost_cancel`), a stop gave up after five seconds, or close() settled a
session that had just been promoted: mark_closed() then leaves a settled
session in the slot, without a stop and with its timer taken for stale, until the
user answers. `EverythingEnds` is of the call: the fetch threads an inline upload
leaves in put() when it ends early, and a subscription whose source is not done,
go on outside it.

# Part 5. What is proved

For every set of jobs, threads, runtimes, sessions, names and handles, every
object, file and number of parts, and every bound,
under the named assumptions of the modules (constants disjoint, finite where
counted).

**JobMonitor_proofs.** `InvHolds`: `Spec => []Inv`, where `Inv` is four invariants:
`CoreInv`, inductive with `TypeOK` (`Inductive`), and `RecordInv`, `WatchInv` and
`LivesInv`, inductive over these. `CoreInv` is

- `InHand`: what a thread holds at each control point;
- `OnlyStarted`: nobody knows a job that was not started, and only a request
  starts a cancel thread;
- `StaleNotWrong`: what a thread fetched may be out of date but is not false,
  because a job's ending and rclone's forgetting it are final;
- `OneSettler`: `poll_lock` and the second look at is_settled let one thread
  settle a record;
- `ToldTrue`: the verdict given is true.

`ToldTrue` is what matters and is not inductive alone: publication writes what was
fetched steps earlier, so `StaleNotWrong` carries its truth from `Fetch` to
`Publish`, and `OneSettler` sees that nobody else published between. From it:
`Truthful`, `SettledOnce`, `StatusFollowsVerdict`, `StoppedOnce`, and `Keeps`,
that the monitor implements `JobPromise`: each action maps to one action of the
promise or to a stutter.

`RecordInv` is about a record's way through `_records`: it is known to nobody before
it is registered (`KnownInOrder`), and its last stats are read before the group is
deleted (`ReadBeforePurge`, up to the first failed call, close or restart).
`Complete` and `Forgotten` follow for every environment and restart: a settler
holds its record until `Forget` (`LockedStays`), and the snapshot it publishes is
of a job that has ended and transfers no more.
`WatchInv` is about who is watched before rclone is replaced: ids differ, an
unsettled job is in `_records` or about to be, and a shutdown() that ended saw all of
them. `LivesInv` is about the monitor thread. From them `ShutdownTruthful` and
`WaitersAreWatched`. These two have hypotheses, and each is needed: `NoLateStart`
(no start_job() overlaps shutdown(); otherwise `MCJobLateStart.cfg` is the
counterexample), `run = 0` (with a reused id a new record displaces an unsettled
one), and for the second `SteadyClock` (`job_skew` shows the thread dying without
it).

**NativeRuntime_proofs.** `Inv`: `_active_calls` is the number of threads inside
a call (`CountIsRight`, by the theorems on finite sets), a thread's control
point agrees with its runtime's fields (`Placed`), one object at most
initialized the library (`OneOwner`), and one thread at a time initializes or
closes a runtime (`OneInside`). `FinalizeHasItAlone` and `RpcSafe` follow: at a
count of zero nobody is inside, and `closed` lets nobody in. `OneShared` is
`SharedIsTheOne`: whoever is about to store the shared runtime holds the holder's
lock and has initialized it (`Shared`), and with `OneOwner` no second can have been.

**Authorization_proofs.** `InvHolds` proves `TypeOK` and

- `SingleFlight` itself, with `QueueShape` (a session is queued, admitted or in
  its driver, and only one of these) to make it inductive;
- `WorkersInStep`, `LatecomersInStep`: what each driver, watcher, timer, close()
  and relay() in flight may still believe;
- `OutcomeEarned`, which is `TruthfulOutcome` with how each outcome came about;
- `SectionsInStep`, for sessions whose names differ.

From it: `OneAtATime`, `Truthful`, `SlotIsNoticed` (every step that frees the slot or
queues a session leaves a promoter behind), `SettledOnce`, and `TokensKept`, under
`NamesApart`. That hypothesis is what start() does not ensure: without it
`auth_same_name` is the counterexample.

**PartitionedJob_proofs.** `InvHolds` proves `TypeOK` and

- `ChildrenTrue`, `Started`: what the children told is true of them, and which
  of them there are;
- `Progress`, `Calls`: everything behind the operation's, or a caller's, place in
  its loop is through;
- `AnswerRight`: an answer is the fold of all the results, and lists are gone only
  when all partitions are through.

The argument is that a child's verdict is final (`ChildFinal`): what a loop has
passed stays passed, so its last step folds all of them, and the fold never
changes (`AggregateStays`), which is why a second wait() gives the same. From it:
`ListsStay`, and `Keeps`, that the whole implements `JobPromise` if its jobs do.
`BatchesAreBounded` is `WithinBatch`: the partitions started and not waited for lie
between `cur` and `next`, whose distance is `next % size` while a batch fills
(`Window`), and of each only one of its two jobs runs.

**InlineUpload_proofs.** `SavedStaysTrue` and `MadeOfAllChunks` (the object's
conjunct of `ObjectsAreWhole`). What S3 holds of an upload only grows
(`InlineHoldsMore`), so that a saved part stays true across calls and deaths; a chunk
is sent and kept by one call only, to the upload of its own state (`Worked`), and
nothing is sent any more when its runner has ended (`Quiet`); only a full state
completes (`Ready`).

**MultipartCopy_proofs.** `RecordStaysTrue`: each of the four copies of the
MergeState (the call's, the writer's, the abandoned writer's, merge.json) claims no
more than S3 holds (`Records`), by `HoldsMore`, since a piece is noted only
after its answer (`Answered`). `MergedParts`: every copy of the MergeState lists all
parts or all but the first (`WholeInv`), since info.json is never of larger chunks
than the object's and `FetchIsDone` lets pass nothing smaller (`FetchedParts`); so
the object is one of the two, in order. `PurgesAreSafe`: a purge compares sizes only,
and the object without its first part is shorter, by what the layout of parts and
the fold `ObjectSize` come to; the fold's value is derived from its recursive
equation with a minimal counterexample. `StagingStaysBounded`: the parts submitted
and not yet through both pools are at most `Threads + 1`, by counting
(`TasksInv`), and the staged files are among them. `TypeCorrect` has the types.

**TreeWalk_proofs.** The order of a walk is strict and total (`PathOrder`), so a set
of directories has one sequence in it (`InOrderIs`), and a sequence in order that
misses only what comes after it is a beginning of that one (`Beginning`). The
invariant is a frontier: what was passed on and then what is still to do are in
order, and every directory was passed on or lies below one to do (`Frontier`).
Breadth first that needs `Found`: what is to do was found in what was passed on, so
it is at most a level deeper than the next. Depth first it needs `Apart`: no two
directories to do lie one below the other. For a scan, which has no order,
`Awaited`: every missing directory was passed on, or a work item will come to it.
`Walks` and `Scans` follow, for any tree, depth and queue, whatever fails and
whenever the loop is broken off. `FsWalks` has the frontier made of the listings in
flight and the pending directories, less what lies below a failed one (`Ordered`):
the order does not depend on which listing ends first.

**Operations_proofs.** The theorems of the smaller modules, and those of all
operations together.

- *close()*: `CloseReleasesAll`, `TrackedAsLongAsOpen`. The flag of a handle is set by
  whoever makes its stop call (`FlaggedIsAsked`), so close(), which skips a flagged
  handle, leaves it to a dispose() under way or over; whatever is behind close()
  in its list is stopped or being stopped (`Passed`), and the jobs it waits for
  cannot start again (`Waited`).
- *Downloads*: `DownloadsAreWhole`, under `NamesApart`: no two chunks have one file
  name. Without it `http_chunks` is the counterexample. It is not an empty
  hypothesis: `ShortRangesAreApart` (a range that ends within a unit) and
  `LargeChunksAreApart` (chunks of a tenth of a unit or more) say when it holds.
- *Streams, progress, groups*: `StreamsAreWhole` (pages and the one being filled are
  what was accepted of the batches, `Filled`), `FinalIsLast` (a final snapshot
  is of a source that is done, `Lasting`), `GroupsAreTrue`.
- *Together*: the operations share no state, so each step of `MCSpec` is a step of
  one and leaves the others alone (`EachByItself`); `EachImplements` makes every
  behavior of the whole one of each operation, and with it `AllDelivered`,
  `ObjectsWhole`, `EachIsKept` and `OperationsTypeCorrect` have of `MCSpec` what was
  proved of the parts. The types need a little more than themselves: the monitors
  made are counted by the threads past the look at `_job_monitor`
  (`MonitorsCounted`), and the size of the edited file counts its edits (`Edits`).

# Part 6. What is not

**Checked but not proved**: every liveness property (`EndedIsReportedWhileMonitored`,
`CancelTakesEffect`, `CloseEnds`, `QueueWaitEnds`, `ActiveIsFreed`, `CancelEndsWaits`,
`EverythingEnds`), since fairness and ENABLED are out of the prover's reach. So the
`AllDelivered` of an operation is of what it gives when it ends, and that it ends
is checked on the instances.

**Proved under a condition**: `TokensKept` (two sessions do not create one name),
`ShutdownTruthful` and `WaitersAreWatched` (no late start, before a restart, and a
steady clock for the latter), `DownloadsAreWhole` and `AllDelivered` (file names
differ). Each condition has its counterexample in Part 4 or above, and the
properties as the runs check them hold on instances that meet it.

**Not modelled**: time itself (a timeout may always pass, a timer fires when it
likes), the text of errors and logs, the parsing of RC payloads beyond the
outcomes it separates, memory of the native library. Of the inline upload: a
state file torn by a crash inside its write, the timeout with which the chunker
is joined, an interrupt of the main thread. Of the merge: the tries of one
request one by one. Of the walks: `diff.py` and `check.py`, which parse the output of
`rclone check`. The components marked not modelled in `PROJECT.json` keep no state
between two calls, and what they compute is text: the native binding, the RC
envelopes, the filesystem facade, configuration, the command line, SQL.
