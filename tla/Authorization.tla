---------------------------- MODULE Authorization ----------------------------
(***************************************************************************)
(* authorization/: AuthorizationManager, the driver and watcher threads of *)
(* its sessions, and the config/oauth calls of rclone they drive.          *)
(*                                                                         *)
(* A step is what one thread does between two points where another thread  *)
(* may run: one section under the manager's lock or under a record's       *)
(* condition, or one RC call.  rclone keeps one OAuth flow a process, and  *)
(* config/oauthstop names no flow: it stops the one that is running.       *)
(***************************************************************************)
EXTENDS Integers, FiniteSets

CONSTANTS
  Sessions,    \* the requests the application may start()
  Names,       \* remote names
  Name,        \* request.remote_name of each session
  Owner,       \* the owner key of each session
  Reconnect,   \* the sessions under RemoteConflictPolicy.RECONNECT
  Existing,    \* the remotes that hold a token to begin with
  PendingCaps, \* the values of pending_cap the manager may be built with
  OwnerCap,    \* per_owner_cap
  None,        \* Python's None
  MaxFaults,   \* bound: oauthstop calls that fail for no lasting reason
  MaxCalls,    \* bound: cancel() and close() calls
  Allowed      \* what an instance may do, out of Features

\*   cancel, close, relay - the calls of those names;
\*   expire  - a deadline passing;
\*   consent - the user answering the provider;
\*   prompt  - a backend asking an unknown question;
\*   refuse  - any other RC call of a session failing.
Features == {"cancel", "close", "relay", "expire", "consent", "prompt", "refuse"}

VARIABLES
  (* rclone *)
  flow,       \* the session whose OAuth listener is bound
  section,    \* the section of each name in the shared config
  faults,     \* oauthstop calls failed so far
  (* AuthorizationManager *)
  active,     \* _active
  ticket,     \* place of a session in _pending, 0 when it is not there
  lastTicket, \* the last place given
  cap,        \* _pending_cap
  (* _SessionRecord *)
  status, cancelReq, expireReq,
  url,        \* the session whose flow authorization_url leads to
  gen,        \* generation
  timer,      \* the generation the armed timer will fire for, 0 when none is
  (* threads *)
  calls,      \* cancel() and close() calls so far
  app,        \* the application thread calling start(), cancel(), close()
  adm,        \* the progress of _admit()
  driver,     \* the driver thread
  saved,      \* whether the driver's calls saved a token
  watch, got, \* the watcher thread, and the flow it was told of
  stopper,    \* the _stop_oauth_until_acknowledged threads, by session and cause
  late,       \* the _on_deadline threads, by session and generation
  relaying    \* the session relay() is about to mark

rcloneVars  == <<flow, section, faults>>
queueVars   == <<active, ticket, lastTicket, cap>>
recordVars  == <<status, cancelReq, expireReq, url>>
timerVars   == <<gen, timer>>
workerVars  == <<driver, saved, watch, got>>
appVars     == <<app, calls>>
vars == <<rcloneVars, queueVars, recordVars, timerVars, appVars, adm, workerVars,
          stopper, late, relaying>>

Terminals == {"succeeded", "failed", "cancelled", "expired", "closed"}
Statuses  == {"queued", "starting", "waiting", "completing"} \cup Terminals
Causes    == {"cancel", "expire"}
Gens      == {1, 2}
Sections  == {"absent", "partial", "token"}

Apps     == {"new", "lock", "refused", "ready", "cancel", "ask", "close", "closing"}
Drivers  == {"off", "create", "ask", "blocking", "saved", "stopped", "refused",
             "cleanup", "delete", "release", "promote", "done"}
Watches  == {"off", "poll", "told", "gone"}
Stoppers == {"off", "try", "look", "vain"}
Lates    == {"off", "fired", "active", "expire", "promote"}

ASSUME AuthorizationAssumption ==
  /\ IsFiniteSet(Sessions) /\ None \notin Sessions
  /\ Name \in [Sessions -> Names] /\ DOMAIN Owner = Sessions
  /\ Reconnect \subseteq Sessions /\ Existing \subseteq Names
  /\ PendingCaps \subseteq Nat /\ OwnerCap \in Nat /\ MaxFaults \in Nat /\ MaxCalls \in Nat
  /\ Allowed \subseteq Features

Over(s)     == status[s] \in Terminals
Queued      == {s \in Sessions : ticket[s] # 0}
Returned(s) == app[s] = "ready" /\ gen[s] # 0

\* Mutant: a terminal record is not looked at before it is written.
AdvanceBlind(s, to) == status' = [status EXCEPT ![s] = to]

\* _advance(): no-op once terminal.
Advance(s, to) == status' = [status EXCEPT ![s] = IF Over(s) THEN @ ELSE to]

Init ==
  /\ flow = None /\ faults = 0
  /\ section = [n \in Names |-> IF n \in Existing THEN "token" ELSE "absent"]
  /\ active = None /\ lastTicket = 0 /\ cap \in PendingCaps
  /\ ticket = [s \in Sessions |-> 0]
  /\ status = [s \in Sessions |-> "queued"]
  /\ cancelReq = [s \in Sessions |-> FALSE]
  /\ expireReq = [s \in Sessions |-> FALSE]
  /\ url = [s \in Sessions |-> None]
  /\ gen = [s \in Sessions |-> 0] /\ timer = [s \in Sessions |-> 0]
  /\ calls = 0 /\ app = [s \in Sessions |-> "new"] /\ adm = [s \in Sessions |-> "off"]
  /\ driver = [s \in Sessions |-> "off"] /\ saved = [s \in Sessions |-> FALSE]
  /\ watch = [s \in Sessions |-> "off"] /\ got = [s \in Sessions |-> None]
  /\ stopper = [s \in Sessions |-> [k \in Causes |-> "off"]]
  /\ late = [s \in Sessions |-> [g \in Gens |-> "off"]]
  /\ relaying = None

-----------------------------------------------------------------------------
(* start() *)

\* A REJECT request looks the name up first, outside every lock.
StartCheck(s) ==
  /\ app[s] = "new"
  /\ app' = [app EXCEPT ![s] =
       IF s \notin Reconnect /\ section[Name[s]] # "absent" THEN "refused" ELSE "lock"]
  /\ UNCHANGED <<calls, rcloneVars, queueVars, recordVars, timerVars, adm, workerVars,
                 stopper, late, relaying>>

Owned(s)    == Cardinality({r \in Queued \cup {active} : r \in Sessions /\ Owner[r] = Owner[s]})
Full(s)     == \/ Cardinality(Queued) >= cap
               \/ Owner[s] # None /\ Owned(s) >= OwnerCap

\* Under the lock: take the free slot, or queue with a timer, or be refused.
StartAdmitted(s) ==
  /\ app[s] = "lock" /\ active = None
  /\ active' = s
  /\ adm' = [adm EXCEPT ![s] = "admit"]
  /\ app' = [app EXCEPT ![s] = "ready"]
  /\ UNCHANGED <<calls, rcloneVars, ticket, lastTicket, cap, recordVars, timerVars, workerVars,
                 stopper, late, relaying>>

StartQueued(s) ==
  /\ app[s] = "lock" /\ active # None /\ ~Full(s)
  /\ ticket' = [ticket EXCEPT ![s] = lastTicket + 1]
  /\ lastTicket' = lastTicket + 1
  /\ gen' = [gen EXCEPT ![s] = 1] /\ timer' = [timer EXCEPT ![s] = 1]
  /\ app' = [app EXCEPT ![s] = "ready"]
  /\ UNCHANGED <<calls, rcloneVars, active, cap, recordVars, adm, workerVars, stopper, late, relaying>>

StartRefused(s) ==
  /\ app[s] = "lock" /\ active # None /\ Full(s)
  /\ app' = [app EXCEPT ![s] = "refused"]
  /\ UNCHANGED <<calls, rcloneVars, queueVars, recordVars, timerVars, adm, workerVars,
                 stopper, late, relaying>>

\* _admit(): by the thread that took the slot for the session.
AdmitStatus(s) ==
  /\ adm[s] = "admit"
  /\ timer' = [timer EXCEPT ![s] = 0]
  /\ Advance(s, "starting")
  /\ adm' = [adm EXCEPT ![s] = "arm"]
  /\ UNCHANGED <<rcloneVars, queueVars, cancelReq, expireReq, url, gen, appVars, workerVars,
                 stopper, late, relaying>>

AdmitStart(s) ==
  /\ adm[s] = "arm"
  /\ gen' = [gen EXCEPT ![s] = @ + 1]
  /\ timer' = [timer EXCEPT ![s] = gen[s] + 1]
  /\ driver' = [driver EXCEPT ![s] = "create"]
  /\ adm' = [adm EXCEPT ![s] = "done"]
  /\ UNCHANGED <<rcloneVars, queueVars, recordVars, appVars, saved, watch, got,
                 stopper, late, relaying>>

-----------------------------------------------------------------------------
(* cancel() and close() on a session its application was given *)

\* Both return at once on a settled session; close() chooses by the status.
CancelCall(s) ==
  /\ "cancel" \in Allowed /\ calls < MaxCalls /\ Returned(s) /\ ~Over(s)
  /\ calls' = calls + 1
  /\ app' = [app EXCEPT ![s] = "cancel"]
  /\ UNCHANGED <<rcloneVars, queueVars, recordVars, timerVars, adm, workerVars,
                 stopper, late, relaying>>

CloseCall(s) ==
  /\ "close" \in Allowed /\ calls < MaxCalls /\ Returned(s) /\ ~Over(s)
  /\ calls' = calls + 1
  /\ app' = [app EXCEPT ![s] = IF status[s] = "queued" THEN "close" ELSE "cancel"]
  /\ UNCHANGED <<rcloneVars, queueVars, recordVars, timerVars, adm, workerVars,
                 stopper, late, relaying>>

\* cancel() under the manager's lock.
CancelQueued(s) ==
  /\ app[s] = "cancel" /\ s \in Queued
  /\ ticket' = [ticket EXCEPT ![s] = 0]
  /\ timer' = [timer EXCEPT ![s] = 0]
  /\ Advance(s, "cancelled")
  /\ app' = [app EXCEPT ![s] = "ready"]
  /\ UNCHANGED <<calls, rcloneVars, active, lastTicket, cap, cancelReq, expireReq, url, gen, adm,
                 workerVars, stopper, late, relaying>>

CancelLook(s) ==
  /\ app[s] = "cancel" /\ s \notin Queued
  /\ app' = [app EXCEPT ![s] = IF active = s THEN "ask" ELSE "ready"]
  /\ UNCHANGED <<calls, rcloneVars, queueVars, recordVars, timerVars, adm, workerVars,
                 stopper, late, relaying>>

\* One stop thread a session and cause at a time is a bound of the model.
Dispatch(s, k) ==
  stopper' = [stopper EXCEPT ![s][k] = IF @ \in {"try", "look"} THEN @ ELSE "try"]

\* cancel() under the record's condition, then the thread that calls oauthstop.
CancelAsk(s) ==
  /\ app[s] = "ask"
  /\ app' = [app EXCEPT ![s] = "ready"]
  /\ IF Over(s) THEN UNCHANGED <<cancelReq, stopper>>
     ELSE cancelReq' = [cancelReq EXCEPT ![s] = TRUE] /\ Dispatch(s, "cancel")
  /\ UNCHANGED <<calls, rcloneVars, queueVars, status, expireReq, url, timerVars, adm, workerVars,
                 late, relaying>>

\* Mutant: the session is marked but stays in _pending.
CloseRemoveNothing(s) ==
  /\ app[s] = "close"
  /\ app' = [app EXCEPT ![s] = "closing"]
  /\ UNCHANGED <<calls, rcloneVars, queueVars, recordVars, timerVars, adm, workerVars,
                 stopper, late, relaying>>

\* close_session() of a session it found queued.
CloseRemove(s) ==
  /\ app[s] = "close"
  /\ ticket' = [ticket EXCEPT ![s] = 0]
  /\ app' = [app EXCEPT ![s] = "closing"]
  /\ UNCHANGED <<calls, rcloneVars, active, lastTicket, cap, recordVars, timerVars, adm, workerVars,
                 stopper, late, relaying>>

CloseMark(s) ==
  /\ app[s] = "closing"
  /\ timer' = [timer EXCEPT ![s] = 0]
  /\ Advance(s, "closed")
  /\ app' = [app EXCEPT ![s] = "ready"]
  /\ UNCHANGED <<calls, rcloneVars, queueVars, cancelReq, expireReq, url, gen, adm, workerVars,
                 stopper, late, relaying>>

-----------------------------------------------------------------------------
(* _stop_oauth_until_acknowledged() *)

\* oauthstop ends the running flow; its session's blocked call then fails.
StopFlow(s, k) ==
  /\ stopper[s][k] = "try" /\ flow # None
  /\ driver' = [driver EXCEPT ![flow] = "stopped"]
  /\ flow' = None
  /\ stopper' = [stopper EXCEPT ![s][k] = "off"]
  /\ UNCHANGED <<section, faults, queueVars, recordVars, timerVars, appVars, adm, saved, watch, got,
                 late, relaying>>

\* oauth_stop() swallows "no oauth authentication is in progress".
StopNothing(s, k) ==
  /\ stopper[s][k] = "try" /\ flow = None
  /\ stopper' = [stopper EXCEPT ![s][k] = "vain"]
  /\ UNCHANGED <<rcloneVars, queueVars, recordVars, timerVars, appVars, adm, workerVars,
                 late, relaying>>

\* Mutant: a failed stop is not tried again.
StopFailsOnce(s, k) ==
  /\ stopper[s][k] = "try" /\ faults < MaxFaults
  /\ faults' = faults + 1
  /\ stopper' = [stopper EXCEPT ![s][k] = "off"]
  /\ UNCHANGED <<flow, section, queueVars, recordVars, timerVars, appVars, adm, workerVars,
                 late, relaying>>

StopFails(s, k) ==
  /\ stopper[s][k] = "try" /\ faults < MaxFaults
  /\ faults' = faults + 1
  /\ stopper' = [stopper EXCEPT ![s][k] = "look"]
  /\ UNCHANGED <<flow, section, queueVars, recordVars, timerVars, appVars, adm, workerVars,
                 late, relaying>>

\* After a failure: settled meanwhile, or out of time (5 s), or once more.
StopLook(s, k) ==
  /\ stopper[s][k] = "look"
  /\ stopper' = [stopper EXCEPT ![s][k] = IF Over(s) THEN "off" ELSE "try"]
  /\ UNCHANGED <<rcloneVars, queueVars, recordVars, timerVars, appVars, adm, workerVars,
                 late, relaying>>

StopGivesUp(s, k) ==
  /\ stopper[s][k] = "look" /\ ~Over(s)
  /\ stopper' = [stopper EXCEPT ![s][k] = "vain"]
  /\ UNCHANGED <<rcloneVars, queueVars, recordVars, timerVars, appVars, adm, workerVars,
                 late, relaying>>

Stop(s, k) == StopFlow(s, k) \/ StopNothing(s, k) \/ StopFails(s, k)
              \/ StopLook(s, k) \/ StopGivesUp(s, k)

-----------------------------------------------------------------------------
(* The driver thread: _run_driver() and drive() *)

\* The first call of a session, which must find the remote to update one and
\* deletes what it finds to create one.
Create(s) ==
  /\ driver[s] = "create"
  /\ LET n == Name[s] IN
     \/ /\ s \notin Reconnect \/ section[n] # "absent"
        /\ section' = [section EXCEPT ![n] = IF s \in Reconnect THEN @ ELSE "partial"]
        /\ driver' = [driver EXCEPT ![s] = "ask"]
     \/ /\ s \in Reconnect /\ section[n] = "absent"
        /\ driver' = [driver EXCEPT ![s] = "refused"] /\ UNCHANGED section
     \/ /\ "refuse" \in Allowed
        /\ section' \in {section, [section EXCEPT ![n] = IF s \in Reconnect THEN @ ELSE "partial"]}
        /\ driver' = [driver EXCEPT ![s] = "refused"]
  /\ UNCHANGED <<flow, faults, queueVars, recordVars, timerVars, appVars, adm, saved, watch, got,
                 stopper, late, relaying>>

\* The questions before the listener: answered, and the watcher started, or
\* not known, or refused by rclone.
Answer(s) ==
  /\ driver[s] = "ask"
  /\ \/ /\ driver' = [driver EXCEPT ![s] = "blocking"]
        /\ watch' = [watch EXCEPT ![s] = "poll"]
     \/ /\ Allowed \cap {"prompt", "refuse"} # {}
        /\ driver' = [driver EXCEPT ![s] = "refused"] /\ UNCHANGED watch
  /\ UNCHANGED <<rcloneVars, queueVars, recordVars, timerVars, appVars, adm, saved, got,
                 stopper, late, relaying>>

\* The call that blocks in rclone: the listener is bound, or cannot be.
Bind(s) ==
  /\ driver[s] = "blocking" /\ flow # s
  /\ \/ flow = None /\ flow' = s /\ UNCHANGED driver
     \/ /\ flow # None \/ "refuse" \in Allowed
        /\ driver' = [driver EXCEPT ![s] = "refused"] /\ UNCHANGED flow
  /\ UNCHANGED <<section, faults, queueVars, recordVars, timerVars, appVars, adm, saved, watch, got,
                 stopper, late, relaying>>

\* The user answered: the token is saved, whether or not the backend then asks
\* for more; or the provider or the user refused.
Consent(s) ==
  /\ "consent" \in Allowed /\ flow = s
  /\ flow' = None
  /\ \/ /\ section' = [section EXCEPT ![Name[s]] = "token"]
        /\ saved' = [saved EXCEPT ![s] = TRUE]
        /\ \/ driver' = [driver EXCEPT ![s] = "saved"]
           \/ "prompt" \in Allowed /\ driver' = [driver EXCEPT ![s] = "refused"]
     \/ /\ "refuse" \in Allowed
        /\ driver' = [driver EXCEPT ![s] = "refused"]
        /\ UNCHANGED <<section, saved>>
  /\ UNCHANGED <<faults, queueVars, recordVars, timerVars, appVars, adm, watch, got,
                 stopper, late, relaying>>

\* drive() returned: the remote is read back, and a failure to do so does not
\* delete it.
Built(s) ==
  /\ driver[s] = "saved"
  /\ \/ Advance(s, "succeeded")
     \/ "refuse" \in Allowed /\ Advance(s, "failed")
  /\ driver' = [driver EXCEPT ![s] = "release"]
  /\ UNCHANGED <<rcloneVars, queueVars, cancelReq, expireReq, url, timerVars, appVars, adm,
                 saved, watch, got, stopper, late, relaying>>

\* Mutant: any failure after a request counts as the cancellation.
ErrorOutcomeAny(s) ==
  IF expireReq[s] THEN "expired" ELSE IF cancelReq[s] THEN "cancelled" ELSE "failed"

\* Only "oauth authentication was cancelled" makes a failure a cancellation.
ErrorOutcome(s) ==
  CASE driver[s] = "stopped" /\ expireReq[s] -> "expired"
    [] driver[s] = "stopped" /\ cancelReq[s] /\ ~expireReq[s] -> "cancelled"
    [] OTHER -> "failed"

\* Mutant: the slot is freed before the cleanup.
FailedFree(s) ==
  /\ driver[s] \in {"stopped", "refused"}
  /\ Advance(s, ErrorOutcome(s))
  /\ driver' = [driver EXCEPT ![s] = IF s \in Reconnect THEN "release" ELSE "cleanup"]
  /\ active' = None
  /\ UNCHANGED <<rcloneVars, ticket, lastTicket, cap, cancelReq, expireReq, url, timerVars, appVars, adm,
                 saved, watch, got, stopper, late, relaying>>

\* drive() raised: the record settles first, then the section is cleaned up.
Failed(s) ==
  /\ driver[s] \in {"stopped", "refused"}
  /\ Advance(s, ErrorOutcome(s))
  /\ driver' = [driver EXCEPT ![s] = IF s \in Reconnect THEN "release" ELSE "cleanup"]
  /\ UNCHANGED <<rcloneVars, queueVars, cancelReq, expireReq, url, timerVars, appVars, adm,
                 saved, watch, got, stopper, late, relaying>>

\* Mutant: the section is deleted without a look for a token.
CleanupBlind(s) ==
  /\ driver[s] = "cleanup"
  /\ driver' = [driver EXCEPT ![s] = "delete"]
  /\ UNCHANGED <<rcloneVars, queueVars, recordVars, timerVars, appVars, adm, saved, watch, got,
                 stopper, late, relaying>>

\* _cleanup_on_failure(): a look for a token, then config/delete; an error of
\* either call ends it.
Cleanup(s) ==
  /\ driver[s] = "cleanup"
  /\ \/ /\ driver' = [driver EXCEPT ![s] =
             IF section[Name[s]] = "token" THEN "release" ELSE "delete"]
     \/ "refuse" \in Allowed /\ driver' = [driver EXCEPT ![s] = "release"]
  /\ UNCHANGED <<rcloneVars, queueVars, recordVars, timerVars, appVars, adm, saved, watch, got,
                 stopper, late, relaying>>

Delete(s) ==
  /\ driver[s] = "delete"
  /\ \/ section' = [section EXCEPT ![Name[s]] = "absent"]
     \/ "refuse" \in Allowed /\ UNCHANGED section
  /\ driver' = [driver EXCEPT ![s] = "release"]
  /\ UNCHANGED <<flow, faults, queueVars, recordVars, timerVars, appVars, adm, saved, watch, got,
                 stopper, late, relaying>>

\* Mutant: nobody promotes the next session.
ReleaseOnly(s) ==
  /\ driver[s] = "release"
  /\ timer' = [timer EXCEPT ![s] = 0]
  /\ active' = IF active = s THEN None ELSE active
  /\ driver' = [driver EXCEPT ![s] = "done"]
  /\ UNCHANGED <<rcloneVars, ticket, lastTicket, cap, recordVars, gen, appVars, adm, saved, watch, got,
                 stopper, late, relaying>>

\* The watcher is told to stop and joined for five seconds at most; then
\* _on_settled() frees the slot.
Release(s) ==
  /\ driver[s] = "release"
  /\ timer' = [timer EXCEPT ![s] = 0]
  /\ active' = IF active = s THEN None ELSE active
  /\ driver' = [driver EXCEPT ![s] = "promote"]
  /\ UNCHANGED <<rcloneVars, ticket, lastTicket, cap, recordVars, gen, appVars, adm, saved, watch, got,
                 stopper, late, relaying>>

\* _promote_next(): the first live session of a free slot's queue.
PromoteNext ==
  LET Live == {s \in Queued : ~Over(s)} IN
  \/ /\ active # None \/ Queued = {}
     /\ UNCHANGED <<active, ticket, adm>>
  \/ /\ active = None /\ Queued # {} /\ Live = {}
     /\ ticket' = [r \in Sessions |-> 0]
     /\ UNCHANGED <<active, adm>>
  \/ /\ active = None
     /\ \E s \in Live :
          /\ \A r \in Live : ticket[s] <= ticket[r]
          /\ active' = s
          /\ ticket' = [r \in Sessions |-> IF ticket[r] <= ticket[s] THEN 0 ELSE ticket[r]]
          /\ adm' = [adm EXCEPT ![s] = "admit"]

DriverPromote(s) ==
  /\ driver[s] = "promote"
  /\ PromoteNext
  /\ driver' = [driver EXCEPT ![s] = "done"]
  /\ UNCHANGED <<rcloneVars, lastTicket, cap, recordVars, timerVars, appVars, saved, watch, got,
                 stopper, late, relaying>>

-----------------------------------------------------------------------------
(* The watcher thread: _run_watcher() *)

Stopped(s) == driver[s] \in {"release", "promote", "done"}

\* config/oauthstatus, asked before or after the driver ended, tells of the
\* flow that runs now.
WatchPoll(s) ==
  /\ watch[s] = "poll" /\ flow # None
  /\ watch' = [watch EXCEPT ![s] = "told"]
  /\ got' = [got EXCEPT ![s] = flow]
  /\ UNCHANGED <<rcloneVars, queueVars, recordVars, timerVars, appVars, adm, driver, saved,
                 stopper, late, relaying>>

WatchEnd(s) ==
  /\ watch[s] = "poll" /\ Stopped(s)
  /\ watch' = [watch EXCEPT ![s] = "gone"]
  /\ UNCHANGED <<rcloneVars, queueVars, recordVars, timerVars, appVars, adm, driver, saved, got,
                 stopper, late, relaying>>

WatchTell(s) ==
  /\ watch[s] = "told"
  /\ Advance(s, "waiting")
  /\ url' = [url EXCEPT ![s] = IF Over(s) THEN @ ELSE got[s]]
  /\ watch' = [watch EXCEPT ![s] = "gone"]
  /\ got' = [got EXCEPT ![s] = None]
  /\ UNCHANGED <<rcloneVars, queueVars, cancelReq, expireReq, timerVars, appVars, adm, driver, saved,
                 stopper, late, relaying>>

-----------------------------------------------------------------------------
(* relay() *)

\* A callback whose state is the active session's; the look at the record is
\* over before the record is marked and the request forwarded.
RelayCheck(s) ==
  /\ "relay" \in Allowed /\ relaying = None
  /\ active = s /\ status[s] \in {"waiting", "completing"} /\ url[s] # None
  /\ relaying' = s
  /\ UNCHANGED <<rcloneVars, queueVars, recordVars, timerVars, appVars, adm, workerVars,
                 stopper, late>>

RelayMark ==
  /\ relaying # None
  /\ Advance(relaying, "completing")
  /\ relaying' = None
  /\ UNCHANGED <<rcloneVars, queueVars, cancelReq, expireReq, url, timerVars, appVars, adm,
                 workerVars, stopper, late>>

-----------------------------------------------------------------------------
(* Timers: _on_deadline() *)

Fire(s) ==
  /\ "expire" \in Allowed /\ timer[s] # 0
  /\ late' = [late EXCEPT ![s][timer[s]] = "fired"]
  /\ timer' = [timer EXCEPT ![s] = 0]
  /\ UNCHANGED <<rcloneVars, queueVars, recordVars, gen, appVars, adm, workerVars, stopper, relaying>>

\* Mutant: the deadline of a session that is not active is taken for stale.
LateLockActiveOnly(s, g) ==
  /\ late[s][g] = "fired"
  /\ late' = [late EXCEPT ![s][g] =
       IF Over(s) \/ g # gen[s] \/ active # s THEN "off" ELSE "active"]
  /\ UNCHANGED <<rcloneVars, queueVars, recordVars, timerVars, appVars, adm, workerVars,
                 stopper, relaying>>

\* Under the manager's lock: a stale timer, the active session, or a queued one.
LateLock(s, g) ==
  /\ late[s][g] = "fired"
  /\ late' = [late EXCEPT ![s][g] =
       CASE Over(s) \/ g # gen[s] -> "off"
         [] ~Over(s) /\ g = gen[s] /\ active = s -> "active"
         [] OTHER -> "expire"]
  /\ ticket' = IF late'[s][g] = "expire" THEN [ticket EXCEPT ![s] = 0] ELSE ticket
  /\ UNCHANGED <<rcloneVars, active, lastTicket, cap, recordVars, timerVars, appVars, adm, workerVars,
                 stopper, relaying>>

LateAsk(s, g) ==
  /\ late[s][g] = "active"
  /\ late' = [late EXCEPT ![s][g] = "off"]
  /\ IF Over(s) THEN UNCHANGED <<expireReq, stopper>>
     ELSE expireReq' = [expireReq EXCEPT ![s] = TRUE] /\ Dispatch(s, "expire")
  /\ UNCHANGED <<rcloneVars, queueVars, status, cancelReq, url, timerVars, appVars, adm, workerVars,
                 relaying>>

LateExpire(s, g) ==
  /\ late[s][g] = "expire"
  /\ Advance(s, "expired")
  /\ late' = [late EXCEPT ![s][g] = "promote"]
  /\ UNCHANGED <<rcloneVars, queueVars, cancelReq, expireReq, url, timerVars, appVars, adm,
                 workerVars, stopper, relaying>>

LatePromote(s, g) ==
  /\ late[s][g] = "promote"
  /\ PromoteNext
  /\ late' = [late EXCEPT ![s][g] = "off"]
  /\ UNCHANGED <<rcloneVars, lastTicket, cap, recordVars, timerVars, appVars, workerVars, stopper, relaying>>

-----------------------------------------------------------------------------
Start(s)    == StartCheck(s) \/ StartAdmitted(s) \/ StartQueued(s) \/ StartRefused(s)
Admit(s)    == AdmitStatus(s) \/ AdmitStart(s)
Calls(s)    == CancelCall(s) \/ CloseCall(s)
Continue(s) == CancelQueued(s) \/ CancelLook(s) \/ CancelAsk(s) \/ CloseRemove(s) \/ CloseMark(s)
Drive(s)    == \/ Create(s) \/ Answer(s) \/ Bind(s) \/ Built(s) \/ Failed(s) \/ Cleanup(s)
               \/ Delete(s) \/ Release(s) \/ DriverPromote(s)
Watch(s)    == WatchPoll(s) \/ WatchEnd(s) \/ WatchTell(s)
Late(s, g)  == LateLock(s, g) \/ LateAsk(s, g) \/ LateExpire(s, g) \/ LatePromote(s, g)

Next ==
  \/ \E s \in Sessions :
       \/ Start(s) \/ Admit(s) \/ Calls(s) \/ Continue(s)
       \/ Drive(s) \/ Consent(s) \/ Watch(s) \/ Fire(s) \/ RelayCheck(s)
       \/ \E k \in Causes : Stop(s, k)
       \/ \E g \in Gens : Late(s, g)
  \/ RelayMark

Spec == Init /\ [][Next]_vars

\* Threads run, timers fire and RC calls return; nobody promises that the
\* application calls anything or that the user ever answers.
Running ==
  \A s \in Sessions :
    /\ WF_vars(Admit(s)) /\ WF_vars(Continue(s)) /\ WF_vars(Drive(s))
    /\ WF_vars(Watch(s)) /\ WF_vars(Fire(s))
    /\ \A k \in Causes : WF_vars(Stop(s, k))
    /\ \A g \in Gens : WF_vars(Late(s, g))

FairSpec == Spec /\ Running
-----------------------------------------------------------------------------
(* Properties *)

\* Every variable keeps its type.
RcloneType == /\ flow \in Sessions \cup {None} /\ faults \in 0 .. MaxFaults
              /\ section \in [Names -> Sections]
QueueType  == /\ active \in Sessions \cup {None} /\ cap \in PendingCaps
              /\ ticket \in [Sessions -> Nat] /\ lastTicket \in Nat
RecordType == /\ status \in [Sessions -> Statuses]
              /\ cancelReq \in [Sessions -> BOOLEAN] /\ expireReq \in [Sessions -> BOOLEAN]
              /\ url \in [Sessions -> Sessions \cup {None}]
              /\ gen \in [Sessions -> 0 .. 2] /\ timer \in [Sessions -> 0 .. 2]
CallerType == /\ calls \in 0 .. MaxCalls /\ app \in [Sessions -> Apps]
              /\ adm \in [Sessions -> {"off", "admit", "arm", "done"}]
              /\ relaying \in Sessions \cup {None}
WorkerType == /\ driver \in [Sessions -> Drivers] /\ saved \in [Sessions -> BOOLEAN]
              /\ watch \in [Sessions -> Watches] /\ got \in [Sessions -> Sessions \cup {None}]
HelperType == /\ stopper \in [Sessions -> [Causes -> Stoppers]]
              /\ late \in [Sessions -> [Gens -> Lates]]
TypeOK == RcloneType /\ QueueType /\ RecordType /\ CallerType /\ WorkerType /\ HelperType

Driving(s) == driver[s] \notin {"off", "promote", "done"}

\* One session at a time is between its admission and the end of its cleanup,
\* whoever promotes whom: rclone's one OAuth flow is the active session's.
SingleFlight ==
  /\ \A s \in Sessions : Driving(s) \/ adm[s] \in {"admit", "arm"} => active = s
  /\ flow # None => active = flow

Promoting == \E s \in Sessions : driver[s] = "promote" \/ \E g \in Gens : late[s][g] = "promote"

\* A free slot never goes unnoticed: as long as sessions wait for it, some
\* thread is about to promote one.
NoLostWakeup == active = None /\ Queued # {} => Promoting

\* What a session tells is true of it.  Success means its own calls saved the
\* token; CANCELLED and EXPIRED mean somebody asked and the flow ended without
\* one, or it never left the queue; its URL leads to its own flow.
TruthfulOutcome ==
  \A s \in Sessions :
    /\ status[s] = "succeeded" => saved[s]
    /\ status[s] = "cancelled" => ~saved[s] /\ (cancelReq[s] \/ driver[s] = "off")
    /\ status[s] = "expired"   => ~saved[s] /\ (expireReq[s] \/ driver[s] = "off")
    /\ url[s] \in {None, s}

\* A settled session stays as it settled, whoever comes late: the watcher,
\* relay(), a deadline, close().
SettledForGood == [][\A s \in Sessions : Over(s) => status'[s] = status[s]]_vars

\* No session ever takes a token out of the configuration: a cleanup spares
\* the token its session or another one saved.
TokenKept == [][\A n \in Names : section[n] = "token" => section'[n] = "token"]_vars

\* Nobody waits in the queue for ever: a queued session is admitted, settled
\* or expired.
QueueWaitEnds == \A s \in Sessions : s \in Queued ~> s \notin Queued

InVain(s) == \E k \in Causes : stopper[s][k] = "vain"

\* The active session frees the slot: on its own or by its deadline, unless a
\* stop of it found no flow to stop or it was closed over.
ActiveIsFreed ==
  \A s \in Sessions : active = s ~> (active # s \/ InVain(s) \/ status[s] = "closed")

\* cancel() is followed by a settled session.
CancelSettles == \A s \in Sessions : cancelReq[s] ~> Over(s)
-----------------------------------------------------------------------------
(* The inductive invariant behind the theorems of Authorization_proofs *)

\* A queued session is open and nobody has admitted it; admission ends in the
\* driver; nothing is known of a session that start() has not taken in.
QueueShape ==
  \A s \in Sessions :
    /\ s \in Queued => adm[s] = "off" /\ status[s] = "queued" /\ active # s /\ gen[s] = 1
    /\ (driver[s] # "off") <=> (adm[s] = "done")
    /\ app[s] \in {"new", "lock", "refused"} =>
         gen[s] = 0 /\ adm[s] = "off" /\ status[s] = "queued" /\ s \notin Queued /\ active # s
    /\ gen[s] = 2 => adm[s] = "done"

After == {"cleanup", "delete", "release", "promote", "done"}

\* What a driver and a watcher have behind them.
WorkersInStep ==
  \A s \in Sessions :
    /\ flow = s => driver[s] = "blocking"
    /\ watch[s] # "off" => driver[s] \notin {"off", "create", "ask"}
    /\ watch[s] = "told" => got[s] = s \/ Over(s)
    /\ driver[s] \in After => Over(s)
    /\ driver[s] \in {"off", "create", "ask", "blocking", "stopped"} => ~saved[s]
    /\ driver[s] = "saved" => saved[s]

\* What timers, deadlines, close() and relay() in flight know of a session.
LatecomersInStep ==
  \A s \in Sessions :
    /\ timer[s] # 0 => timer[s] = gen[s]
    /\ \A g \in Gens : late[s][g] # "off" => g <= gen[s] /\ timer[s] # g
    /\ \A g \in Gens : late[s][g] = "expire" => adm[s] = "off" /\ s \notin Queued
    /\ app[s] = "closing" => s \notin Queued
    /\ url[s] # None \/ relaying = s => driver[s] # "off"

Dropped(s) == adm[s] = "off" /\ s \notin Queued /\ gen[s] # 0

\* How each outcome came about.
OutcomeEarned ==
  \A s \in Sessions :
    /\ status[s] = "succeeded" => saved[s]
    /\ status[s] = "cancelled" =>
         Dropped(s) \/ (driver[s] \in After /\ ~saved[s] /\ cancelReq[s])
    /\ status[s] = "expired" =>
         Dropped(s) \/ (driver[s] \in After /\ ~saved[s] /\ expireReq[s])
    /\ url[s] \in {None, s}

\* No two sessions that create their remote share its name.
NamesApart == \A r, s \in Sessions \ Reconnect : Name[r] = Name[s] => r = s

\* Why the configuration is safe in the hands of such sessions: what start()
\* found absent is absent until the driver creates it, what is being authorized
\* exists, and what is about to be deleted has no token.
SectionsInStep ==
  \A s \in Sessions :
    /\ s \notin Reconnect /\ app[s] \notin {"new", "refused"} /\ driver[s] \in {"off", "create"}
         => section[Name[s]] = "absent"
    /\ driver[s] \in {"ask", "blocking"} => section[Name[s]] # "absent"
    /\ driver[s] = "delete" => section[Name[s]] # "token"

Inv == /\ TypeOK /\ QueueShape /\ SingleFlight /\ WorkersInStep /\ LatecomersInStep
       /\ OutcomeEarned /\ (NamesApart => SectionsInStep)
=============================================================================
