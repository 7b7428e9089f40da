------------------------- MODULE JobMonitor_proofs -------------------------
(***************************************************************************)
(* Theorems about JobMonitor, for every set of jobs and callers and every  *)
(* bound.                                                                  *)
(*                                                                         *)
(* All of them rest on one inductive invariant, TypeOK /\ CoreInv.  Its    *)
(* heart is StaleNotWrong: a status is fetched before poll_lock is taken,  *)
(* so what a thread holds may be out of date, but a job's ending and       *)
(* rclone's forgetting it are both final, so what it holds of either is    *)
(* still true when it is applied.  OneSettler is what poll_lock and the    *)
(* second look at is_settled give.  There is one lemma per action, with a  *)
(* step per conjunct.                                                      *)
(*                                                                         *)
(* Three more invariants stand on it, each with a lemma per conjunct and a *)
(* step per group of actions: RecordInv (what becomes of a record and its  *)
(* snapshot), WatchInv (which jobs _records and shutdown() know of, before *)
(* rclone is replaced) and LivesInv (what keeps the monitor thread alive). *)
(***************************************************************************)
EXTENDS JobMonitor, TLAPS

USE JobMonitorAssumption DEF rcloneVars, recordVars, monitorVars, threadVars, closerVars, vars,
  Threads, Endings, Results, Lost, Verdicts, Outcomes, States, Bytes, Controls, Busy, Locked,
  Settled, Goto, Leave, Return, After, Died

\* What an RC answer says of a job is true when it is given.
LEMMA OutcomeIs ==
  ASSUME TypeOK, OnlyStarted, NEW j \in Jobs, ref[j] # None
  PROVE  /\ Outcome(j) \in Outcomes
         /\ Outcome(j) \in Endings => job[j] = Outcome(j)
         /\ Outcome(j) \in Lost => j \in Vanished
  BY DEF TypeOK, OnlyStarted, Outcome, Answering, Here, Vanished, Unobservable

-----------------------------------------------------------------------------
(* rclone's own steps preserve the invariant *)

\* Progress preserves the invariant.
LEMMA ProgressStep ==
  ASSUME TypeOK, CoreInv, NEW j \in Jobs, Progress(j)
  PROVE  TypeOK' /\ CoreInv'
<1>1. TypeOK'
  BY DEF Progress, Here, TypeOK
<1>2. InHand'
  BY DEF Progress, Here, CoreInv, InHand
<1>3. OnlyStarted'
  BY DEF Progress, Here, CoreInv, OnlyStarted
<1>4. StaleNotWrong'
  BY DEF Progress, Here, CoreInv, StaleNotWrong, TrueOf, Vanished, Unobservable
<1>5. OneSettler'
  BY DEF Progress, Here, CoreInv, OneSettler, Holds
<1>6. ToldTrue'
  BY DEF Progress, Here, CoreInv, ToldTrue, TrueOf, Vanished, Unobservable
<1> QED  BY <1>1, <1>2, <1>3, <1>4, <1>5, <1>6 DEF CoreInv

\* Finish preserves the invariant.
LEMMA FinishStep ==
  ASSUME TypeOK, CoreInv, NEW j \in Jobs, Finish(j)
  PROVE  TypeOK' /\ CoreInv'
<1>1. TypeOK'
  BY DEF Finish, Here, TypeOK
<1>2. InHand'
  BY DEF Finish, Here, CoreInv, InHand
<1>3. OnlyStarted'
  BY DEF Finish, Here, CoreInv, OnlyStarted
<1>4. StaleNotWrong'
  BY DEF Finish, Here, CoreInv, StaleNotWrong, TrueOf, Vanished, Unobservable
<1>5. OneSettler'
  BY DEF Finish, Here, CoreInv, OneSettler, Holds
<1>6. ToldTrue'
  BY DEF Finish, Here, CoreInv, ToldTrue, TrueOf, Vanished, Unobservable
<1> QED  BY <1>1, <1>2, <1>3, <1>4, <1>5, <1>6 DEF CoreInv

\* Expire preserves the invariant.
LEMMA ExpireStep ==
  ASSUME TypeOK, CoreInv, NEW j \in Jobs, Expire(j)
  PROVE  TypeOK' /\ CoreInv'
<1>1. TypeOK'
  BY DEF Expire, TypeOK
<1>2. InHand'
  BY DEF Expire, CoreInv, InHand
<1>3. OnlyStarted'
  BY DEF Expire, CoreInv, OnlyStarted
<1>4. StaleNotWrong'
  BY DEF Expire, CoreInv, StaleNotWrong, TrueOf, Vanished, Unobservable
<1>5. OneSettler'
  BY DEF Expire, CoreInv, OneSettler, Holds
<1>6. ToldTrue'
  BY DEF Expire, CoreInv, ToldTrue, TrueOf, Vanished, Unobservable
<1> QED  BY <1>1, <1>2, <1>3, <1>4, <1>5, <1>6 DEF CoreInv

\* Restart preserves the invariant.
LEMMA RestartStep ==
  ASSUME TypeOK, CoreInv, Restart
  PROVE  TypeOK' /\ CoreInv'
<1>1. TypeOK'
  BY DEF Restart, TypeOK
<1>2. InHand'
  BY DEF Restart, CoreInv, InHand
<1>3. OnlyStarted'
  BY DEF Restart, TypeOK, CoreInv, OnlyStarted
<1>4. StaleNotWrong'
  BY DEF Restart, TypeOK, CoreInv, InHand, OnlyStarted, StaleNotWrong, TrueOf, Vanished,
     Unobservable
<1>5. OneSettler'
  BY DEF Restart, CoreInv, OneSettler, Holds
<1>6. ToldTrue'
  BY DEF Restart, TypeOK, CoreInv, InHand, OnlyStarted, StaleNotWrong, OneSettler, Holds,
     ToldTrue, TrueOf, Vanished, Unobservable
<1> QED  BY <1>1, <1>2, <1>3, <1>4, <1>5, <1>6 DEF CoreInv

\* CloseRuntime preserves the invariant.
LEMMA CloseRuntimeStep ==
  ASSUME TypeOK, CoreInv, CloseRuntime
  PROVE  TypeOK' /\ CoreInv'
<1>1. TypeOK'
  BY DEF CloseRuntime, TypeOK
<1>2. InHand'
  BY DEF CloseRuntime, CoreInv, InHand
<1>3. OnlyStarted'
  BY DEF CloseRuntime, CoreInv, OnlyStarted
<1>4. StaleNotWrong'
  BY DEF CloseRuntime, CoreInv, StaleNotWrong, TrueOf, Vanished, Unobservable
<1>5. OneSettler'
  BY DEF CloseRuntime, CoreInv, OneSettler, Holds
<1>6. ToldTrue'
  BY DEF CloseRuntime, CoreInv, ToldTrue, TrueOf, Vanished, Unobservable
<1> QED  BY <1>1, <1>2, <1>3, <1>4, <1>5, <1>6 DEF CoreInv

-----------------------------------------------------------------------------
(* So do the steps of the application threads *)

\* StartRc preserves the invariant.
LEMMA StartRcStep ==
  ASSUME TypeOK, CoreInv, NEW c \in Clients, NEW j \in Jobs, StartRc(c, j)
  PROVE  TypeOK' /\ CoreInv'
<1>1. TypeOK'
  BY DEF StartRc, TypeOK
<1>2. InHand'
  BY DEF StartRc, TypeOK, CoreInv, InHand
<1>3. OnlyStarted'
  BY DEF StartRc, TypeOK, CoreInv, OnlyStarted
<1>4. StaleNotWrong'
  BY DEF StartRc, TypeOK, CoreInv, InHand, OnlyStarted, StaleNotWrong, TrueOf, Vanished,
     Unobservable
<1>5. OneSettler'
  BY DEF StartRc, CoreInv, OneSettler, Holds
<1>6. ToldTrue'
  BY DEF StartRc, TypeOK, CoreInv, InHand, OnlyStarted, StaleNotWrong, OneSettler, Holds,
     ToldTrue, TrueOf, Vanished, Unobservable
<1> QED  BY <1>1, <1>2, <1>3, <1>4, <1>5, <1>6 DEF CoreInv

\* Register preserves the invariant.
LEMMA RegisterStep ==
  ASSUME TypeOK, CoreInv, NEW c \in Clients, Register(c)
  PROVE  TypeOK' /\ CoreInv'
<1>1. TypeOK'
  BY DEF Register, SameId, TypeOK, CoreInv, InHand
<1>2. InHand'
  BY DEF Register, SameId, CoreInv, InHand
<1>3. OnlyStarted'
  BY DEF Register, SameId, TypeOK, CoreInv, InHand, OnlyStarted
<1>4. StaleNotWrong'
  BY DEF Register, SameId, CoreInv, StaleNotWrong, TrueOf, Vanished, Unobservable
<1>5. OneSettler'
  BY DEF Register, SameId, CoreInv, OneSettler, Holds
<1>6. ToldTrue'
  BY DEF Register, SameId, CoreInv, ToldTrue, TrueOf, Vanished, Unobservable
<1> QED  BY <1>1, <1>2, <1>3, <1>4, <1>5, <1>6 DEF CoreInv

\* EnsureThread preserves the invariant.
LEMMA EnsureThreadStep ==
  ASSUME TypeOK, CoreInv, NEW c \in Clients, EnsureThread(c)
  PROVE  TypeOK' /\ CoreInv'
<1>1. TypeOK'
  BY DEF EnsureThread, TypeOK
<1>2. InHand'
  BY DEF EnsureThread, TypeOK, CoreInv, InHand
<1>3. OnlyStarted'
  BY DEF EnsureThread, TypeOK, CoreInv, OnlyStarted
<1>4. StaleNotWrong'
  BY DEF EnsureThread, TypeOK, CoreInv, StaleNotWrong, TrueOf, Vanished, Unobservable
<1>5. OneSettler'
  BY DEF EnsureThread, TypeOK, CoreInv, OneSettler, Holds
<1>6. ToldTrue'
  BY DEF EnsureThread, CoreInv, ToldTrue, TrueOf, Vanished, Unobservable
<1> QED  BY <1>1, <1>2, <1>3, <1>4, <1>5, <1>6 DEF CoreInv

\* StatusCall preserves the invariant.
LEMMA StatusCallStep ==
  ASSUME TypeOK, CoreInv, NEW c \in Clients, NEW j \in Jobs, StatusCall(c, j)
  PROVE  TypeOK' /\ CoreInv'
<1>1. TypeOK'
  BY DEF StatusCall, Handed, TypeOK
<1>2. InHand'
  BY DEF StatusCall, Handed, TypeOK, CoreInv, InHand
<1>3. OnlyStarted'
  BY DEF StatusCall, Handed, CoreInv, OnlyStarted
<1>4. StaleNotWrong'
  BY DEF StatusCall, Handed, CoreInv, StaleNotWrong, TrueOf, Vanished, Unobservable
<1>5. OneSettler'
  BY DEF StatusCall, Handed, CoreInv, OneSettler, Holds
<1>6. ToldTrue'
  BY DEF StatusCall, Handed, CoreInv, ToldTrue, TrueOf, Vanished, Unobservable
<1> QED  BY <1>1, <1>2, <1>3, <1>4, <1>5, <1>6 DEF CoreInv

\* StatsCall preserves the invariant.
LEMMA StatsCallStep ==
  ASSUME TypeOK, CoreInv, NEW c \in Clients, NEW j \in Jobs, StatsCall(c, j)
  PROVE  TypeOK' /\ CoreInv'
<1>1. TypeOK'
  BY DEF StatsCall, Handed, Reading, Fault, TypeOK
<1>2. InHand'
  BY DEF StatsCall, Handed, Reading, Fault, TypeOK, CoreInv, InHand
<1>3. OnlyStarted'
  BY DEF StatsCall, Handed, Reading, Fault, CoreInv, OnlyStarted
<1>4. StaleNotWrong'
  BY DEF StatsCall, Handed, Reading, Fault, CoreInv, StaleNotWrong, TrueOf, Vanished,
     Unobservable
<1>5. OneSettler'
  BY DEF StatsCall, Handed, Reading, Fault, CoreInv, OneSettler, Holds
<1>6. ToldTrue'
  BY DEF StatsCall, Handed, Reading, Fault, CoreInv, ToldTrue, TrueOf, Vanished, Unobservable
<1> QED  BY <1>1, <1>2, <1>3, <1>4, <1>5, <1>6 DEF CoreInv

\* StatsStore preserves the invariant.
LEMMA StatsStoreStep ==
  ASSUME TypeOK, CoreInv, NEW c \in Clients, StatsStore(c)
  PROVE  TypeOK' /\ CoreInv'
<1>1. TypeOK'
  BY DEF StatsStore, TypeOK
<1>2. InHand'
  BY DEF StatsStore, TypeOK, CoreInv, InHand
<1>3. OnlyStarted'
  BY DEF StatsStore, CoreInv, OnlyStarted
<1>4. StaleNotWrong'
  BY DEF StatsStore, CoreInv, StaleNotWrong, TrueOf, Vanished, Unobservable
<1>5. OneSettler'
  BY DEF StatsStore, CoreInv, OneSettler, Holds
<1>6. ToldTrue'
  BY DEF StatsStore, CoreInv, ToldTrue, TrueOf, Vanished, Unobservable
<1> QED  BY <1>1, <1>2, <1>3, <1>4, <1>5, <1>6 DEF CoreInv

\* CancelCall preserves the invariant.
LEMMA CancelCallStep ==
  ASSUME TypeOK, CoreInv, NEW c \in Clients, NEW j \in Jobs, CancelCall(c, j)
  PROVE  TypeOK' /\ CoreInv'
<1>1. TypeOK'
  BY DEF CancelCall, Handed, TypeOK
<1>2. InHand'
  BY DEF CancelCall, Handed, TypeOK, CoreInv, InHand
<1>3. OnlyStarted'
  BY DEF CancelCall, Handed, CoreInv, OnlyStarted
<1>4. StaleNotWrong'
  BY DEF CancelCall, Handed, CoreInv, StaleNotWrong, TrueOf, Vanished, Unobservable
<1>5. OneSettler'
  BY DEF CancelCall, Handed, CoreInv, OneSettler, Holds
<1>6. ToldTrue'
  BY DEF CancelCall, Handed, CoreInv, ToldTrue, TrueOf, Vanished, Unobservable
<1> QED  BY <1>1, <1>2, <1>3, <1>4, <1>5, <1>6 DEF CoreInv

\* CancelAsk preserves the invariant.
LEMMA CancelAskStep ==
  ASSUME TypeOK, CoreInv, NEW c \in Clients, CancelAsk(c)
  PROVE  TypeOK' /\ CoreInv'
<1>1. TypeOK'
  <2>1. on[c] \in Jobs /\ c \in Threads /\ on[c] # c
    BY DEF CancelAsk, CoreInv, InHand
  <2>2. cancelReq' \in [Jobs -> BOOLEAN]
    BY <2>1 DEF TypeOK, CancelAsk, RequestCancel
  <2>3. pc' \in [Threads -> Controls]
    BY <2>1 DEF TypeOK, CancelAsk, RequestCancel
  <2>4. on' \in [Threads -> Jobs \cup {None}]
    BY DEF TypeOK, CancelAsk
  <2> QED  BY <2>2, <2>3, <2>4 DEF TypeOK, CancelAsk
<1>2. InHand'
  BY DEF CancelAsk, RequestCancel, TypeOK, CoreInv, InHand
<1>3. OnlyStarted'
  BY DEF CancelAsk, RequestCancel, TypeOK, CoreInv, InHand, OnlyStarted
<1>4. StaleNotWrong'
  <2>1. \A j \in Jobs : cancelReq[j] => cancelReq'[j]
    BY DEF TypeOK, CancelAsk, RequestCancel
  <2>2. \A t \in Threads : pc'[t] \in {"apply", "settle", "purge", "publish"} =>
          pc'[t] = pc[t] /\ on'[t] = on[t]
    BY DEF TypeOK, CancelAsk, RequestCancel, Goto
  <2>3. UNCHANGED <<job, ref, run, closed, expired, seen, batch>>
    BY DEF CancelAsk, rcloneVars, monitorVars
  <2>4. Vanished' = Vanished
    BY <2>3 DEF Vanished, Unobservable
  <2>5. \A j \in Jobs : \A v : TrueOf(j, v) => TrueOf(j, v)'
    BY <2>1, <2>3, <2>4 DEF TrueOf
  <2>6. \A t \in Threads : pc'[t] \in {"purge", "publish"} => on[t] \in Jobs
    BY <2>2 DEF CoreInv, InHand, Busy, Locked
  <2> QED  BY <2>2, <2>3, <2>4, <2>5, <2>6 DEF CoreInv, StaleNotWrong
<1>5. OneSettler'
  BY DEF CancelAsk, RequestCancel, TypeOK, CoreInv, OneSettler, Holds
<1>6. ToldTrue'
  <2>1. \A j \in Jobs : cancelReq[j] => cancelReq'[j]
    BY DEF TypeOK, CancelAsk, RequestCancel
  <2> QED  BY <2>1 DEF CancelAsk, CoreInv, ToldTrue, TrueOf, Vanished, Unobservable
<1> QED  BY <1>1, <1>2, <1>3, <1>4, <1>5, <1>6 DEF CoreInv

-----------------------------------------------------------------------------
(* The cancel threads and the pollers *)

\* Stop preserves the invariant.
LEMMA StopStep ==
  ASSUME TypeOK, CoreInv, NEW j \in Jobs, Stop(j)
  PROVE  TypeOK' /\ CoreInv'
<1>1. TypeOK'
  <2>1. stopping' \subseteq Jobs
    BY DEF TypeOK, Stop, Answering
  <2>2. faults' \in 0 .. MaxFaults
    BY DEF TypeOK, Stop, Fault
  <2>3. pc' \in [Threads -> Controls]
    BY DEF TypeOK, Stop
  <2> QED  BY <2>1, <2>2, <2>3 DEF TypeOK, Stop
<1>2. InHand'
  BY DEF Stop, Fault, TypeOK, CoreInv, InHand, OnlyStarted
<1>3. OnlyStarted'
  BY DEF Stop, Fault, CoreInv, OnlyStarted
<1>4. StaleNotWrong'
  BY DEF Stop, Fault, CoreInv, StaleNotWrong, TrueOf, Vanished, Unobservable
<1>5. OneSettler'
  BY DEF Stop, Fault, CoreInv, OneSettler, Holds
<1>6. ToldTrue'
  BY DEF Stop, Fault, CoreInv, ToldTrue, TrueOf, Vanished, Unobservable
<1> QED  BY <1>1, <1>2, <1>3, <1>4, <1>5, <1>6 DEF CoreInv

\* Fetch preserves the invariant.
LEMMA FetchStep ==
  ASSUME TypeOK, CoreInv, NEW t \in Threads, Fetch(t)
  PROVE  TypeOK' /\ CoreInv'
<1>1. TypeOK'
  <2>1. seen' \in [Threads -> Outcomes \cup Verdicts \cup {None}]
    BY OutcomeIs DEF TypeOK, CoreInv, InHand, Fetch
  <2>2. faults' \in 0 .. MaxFaults
    BY DEF TypeOK, Fetch, Fault
  <2>3. pc' \in [Threads -> Controls]
    BY DEF TypeOK, Fetch
  <2> QED  BY <2>1, <2>2, <2>3 DEF TypeOK, Fetch
<1>2. InHand'
  BY OutcomeIs DEF Fetch, Fault, TypeOK, CoreInv, InHand
<1>3. OnlyStarted'
  BY DEF Fetch, Fault, TypeOK, CoreInv, OnlyStarted
<1>4. StaleNotWrong'
  <2>1. \/ pc'[t] \notin {"apply", "settle", "purge", "publish"}
        \/ /\ pc'[t] = "apply" /\ on'[t] = on[t]
           /\ seen'[t] = "transient" \/ seen'[t] = Outcome(on[t])
    BY DEF TypeOK, Fetch
  <2>2. /\ seen'[t] \in Endings /\ pc'[t] = "apply" => job[on[t]] = seen'[t]
        /\ seen'[t] \in Lost /\ pc'[t] = "apply" => on[t] \in Vanished
    <3>1. on[t] \in Jobs /\ ref[on[t]] # None
      BY DEF CoreInv, InHand, Fetch
    <3> QED  BY <2>1, <3>1, OutcomeIs DEF CoreInv
  <2>3. \A u \in Threads \ {t} : pc'[u] = pc[u] /\ on'[u] = on[u] /\ seen'[u] = seen[u]
    BY DEF TypeOK, Fetch
  <2>4. UNCHANGED <<rcloneVars, recordVars, monitorVars>>
    BY DEF Fetch
  <2> QED  BY <2>1, <2>2, <2>3, <2>4 DEF CoreInv, StaleNotWrong, TrueOf, Vanished, Unobservable
<1>5. OneSettler'
  <2>1. \A u \in Threads : pc'[u] \in Locked => pc'[u] = pc[u] /\ on'[u] = on[u]
    BY DEF TypeOK, Fetch
  <2>2. UNCHANGED terminal
    BY DEF Fetch
  <2> QED  BY <2>1, <2>2 DEF CoreInv, OneSettler, Holds
<1>6. ToldTrue'
  BY DEF Fetch, Fault, CoreInv, ToldTrue, TrueOf, Vanished, Unobservable
<1> QED  BY <1>1, <1>2, <1>3, <1>4, <1>5, <1>6 DEF CoreInv

\* Discard preserves the invariant.
LEMMA DiscardStep ==
  ASSUME TypeOK, CoreInv, NEW t \in Threads, Discard(t)
  PROVE  TypeOK' /\ CoreInv'
<1>1. TypeOK'
  BY DEF Discard, Acquire, TypeOK
<1>2. InHand'
  BY DEF Discard, Acquire, TypeOK, CoreInv, InHand
<1>3. OnlyStarted'
  BY DEF Discard, Acquire, CoreInv, OnlyStarted
<1>4. StaleNotWrong'
  BY DEF Discard, Acquire, TypeOK, CoreInv, StaleNotWrong, TrueOf, Vanished, Unobservable
<1>5. OneSettler'
  BY DEF Discard, Acquire, CoreInv, OneSettler, Holds
<1>6. ToldTrue'
  BY DEF Discard, Acquire, CoreInv, ToldTrue, TrueOf, Vanished, Unobservable
<1> QED  BY <1>1, <1>2, <1>3, <1>4, <1>5, <1>6 DEF CoreInv

\* Refresh preserves the invariant.
LEMMA RefreshStep ==
  ASSUME TypeOK, CoreInv, NEW t \in Threads, Refresh(t)
  PROVE  TypeOK' /\ CoreInv'
<1>1. TypeOK'
  BY DEF Refresh, Acquire, TypeOK
<1>2. InHand'
  BY DEF Refresh, Acquire, TypeOK, CoreInv, InHand
<1>3. OnlyStarted'
  BY DEF Refresh, Acquire, CoreInv, OnlyStarted
<1>4. StaleNotWrong'
  BY DEF Refresh, Acquire, CoreInv, StaleNotWrong, TrueOf, Vanished, Unobservable
<1>5. OneSettler'
  BY DEF Refresh, Acquire, CoreInv, OneSettler, Holds
<1>6. ToldTrue'
  BY DEF Refresh, Acquire, CoreInv, ToldTrue, TrueOf, Vanished, Unobservable
<1> QED  BY <1>1, <1>2, <1>3, <1>4, <1>5, <1>6 DEF CoreInv

\* BeginSettle preserves the invariant.
LEMMA BeginSettleStep ==
  ASSUME TypeOK, CoreInv, NEW t \in Threads, BeginSettle(t)
  PROVE  TypeOK' /\ CoreInv'
<1>1. TypeOK'
  BY DEF BeginSettle, Acquire, TypeOK
<1>2. InHand'
  BY DEF BeginSettle, Acquire, CoreInv, InHand
<1>3. OnlyStarted'
  BY DEF BeginSettle, Acquire, CoreInv, OnlyStarted
<1>4. StaleNotWrong'
  BY DEF BeginSettle, Acquire, CoreInv, StaleNotWrong, TrueOf, Vanished, Unobservable
<1>5. OneSettler'
  BY DEF BeginSettle, Acquire, CoreInv, OneSettler, Holds
<1>6. ToldTrue'
  BY DEF BeginSettle, Acquire, CoreInv, ToldTrue, TrueOf, Vanished, Unobservable
<1> QED  BY <1>1, <1>2, <1>3, <1>4, <1>5, <1>6 DEF CoreInv

\* BeginLost preserves the invariant.
LEMMA BeginLostStep ==
  ASSUME TypeOK, CoreInv, NEW t \in Threads, BeginLost(t)
  PROVE  TypeOK' /\ CoreInv'
<1>1. TypeOK'
  <2>1. pc' \in [Threads -> Controls]
    BY DEF TypeOK, BeginLost
  <2>2. /\ on' \in [Threads -> Jobs \cup {None}]
        /\ seen' \in [Threads -> Outcomes \cup Verdicts \cup {None}]
        /\ fin' \in [Threads -> Bytes \cup {None}]
    BY DEF TypeOK, BeginLost
  <2> QED  BY <2>1, <2>2 DEF TypeOK, BeginLost
<1>2. InHand'
  BY DEF BeginLost, Acquire, TypeOK, CoreInv, InHand
<1>3. OnlyStarted'
  BY DEF BeginLost, Acquire, TypeOK, CoreInv, OnlyStarted
<1>4. StaleNotWrong'
  BY DEF BeginLost, Acquire, TypeOK, CoreInv, StaleNotWrong, TrueOf, Vanished, Unobservable
<1>5. OneSettler'
  BY DEF BeginLost, Acquire, TypeOK, CoreInv, OneSettler, Holds
<1>6. ToldTrue'
  BY DEF BeginLost, Acquire, CoreInv, ToldTrue, TrueOf, Vanished, Unobservable
<1> QED  BY <1>1, <1>2, <1>3, <1>4, <1>5, <1>6 DEF CoreInv

\* Judge preserves the invariant.
LEMMA JudgeStep ==
  ASSUME TypeOK, CoreInv, NEW t \in Threads, Judge(t)
  PROVE  TypeOK' /\ CoreInv'
<1>1. TypeOK'
  <2>1. fin' \in [Threads -> Bytes \cup {None}]
    BY DEF TypeOK, CoreInv, InHand, Judge, Reading
  <2>2. seen' \in [Threads -> Outcomes \cup Verdicts \cup {None}]
    BY DEF TypeOK, Judge, Verdict
  <2>3. faults' \in 0 .. MaxFaults
    BY DEF TypeOK, Judge, Fault
  <2>4. /\ pc' \in [Threads -> Controls]
        /\ on' \in [Threads -> Jobs \cup {None}]
    BY DEF TypeOK, Judge
  <2> QED  BY <2>1, <2>2, <2>3, <2>4 DEF TypeOK, Judge
<1>2. InHand'
  BY DEF Judge, Fault, Reading, Verdict, TypeOK, CoreInv, InHand
<1>3. OnlyStarted'
  BY DEF Judge, Fault, Reading, Verdict, TypeOK, CoreInv, OnlyStarted
<1>4. StaleNotWrong'
  BY DEF Judge, Fault, Reading, Verdict, TypeOK, CoreInv, InHand, StaleNotWrong, TrueOf,
     Vanished, Unobservable
<1>5. OneSettler'
  <2>1. \A u \in Threads : pc'[u] \in Locked => pc[u] \in Locked /\ on'[u] = on[u]
    BY DEF TypeOK, Judge
  <2>2. \A u \in Threads : pc'[u] \in {"settle", "purge", "publish"}
                          => pc[u] \in {"settle", "purge", "publish"}
    BY DEF TypeOK, Judge
  <2>3. UNCHANGED terminal
    BY DEF Judge
  <2> QED  BY <2>1, <2>2, <2>3 DEF CoreInv, OneSettler, Holds
<1>6. ToldTrue'
  BY DEF Judge, Fault, Reading, Verdict, CoreInv, ToldTrue, TrueOf, Vanished, Unobservable
<1> QED  BY <1>1, <1>2, <1>3, <1>4, <1>5, <1>6 DEF CoreInv

\* Purge preserves the invariant.
LEMMA PurgeStep ==
  ASSUME TypeOK, CoreInv, NEW t \in Threads, Purge(t)
  PROVE  TypeOK' /\ CoreInv'
<1>1. TypeOK'
  BY DEF Purge, Fault, TypeOK
<1>2. InHand'
  BY DEF Purge, Fault, CoreInv, InHand
<1>3. OnlyStarted'
  BY DEF Purge, Fault, CoreInv, OnlyStarted
<1>4. StaleNotWrong'
  BY DEF Purge, Fault, CoreInv, StaleNotWrong, TrueOf, Vanished, Unobservable
<1>5. OneSettler'
  BY DEF Purge, Fault, CoreInv, OneSettler, Holds
<1>6. ToldTrue'
  BY DEF Purge, Fault, CoreInv, ToldTrue, TrueOf, Vanished, Unobservable
<1> QED  BY <1>1, <1>2, <1>3, <1>4, <1>5, <1>6 DEF CoreInv

\* Publish preserves the invariant.
LEMMA PublishStep ==
  ASSUME TypeOK, CoreInv, NEW t \in Threads, Publish(t)
  PROVE  TypeOK' /\ CoreInv'
<1>1. TypeOK'
  BY DEF Publish, StatusOf, TypeOK, CoreInv, InHand
<1>2. InHand'
  BY DEF Publish, StatusOf, CoreInv, InHand
<1>3. OnlyStarted'
  BY DEF Publish, StatusOf, CoreInv, OnlyStarted
<1>4. StaleNotWrong'
  BY DEF Publish, StatusOf, CoreInv, StaleNotWrong, TrueOf, Vanished, Unobservable
<1>5. OneSettler'
  BY DEF Publish, StatusOf, TypeOK, CoreInv, OneSettler, Holds
<1>6. ToldTrue'
  BY DEF Publish, StatusOf, TypeOK, CoreInv, InHand, StaleNotWrong, ToldTrue, TrueOf,
     Vanished, Unobservable
<1> QED  BY <1>1, <1>2, <1>3, <1>4, <1>5, <1>6 DEF CoreInv

\* Forget preserves the invariant.
LEMMA ForgetStep ==
  ASSUME TypeOK, CoreInv, NEW t \in Threads, Forget(t)
  PROVE  TypeOK' /\ CoreInv'
<1>1. TypeOK'
  BY DEF Forget, SameId, TypeOK
<1>2. InHand'
  BY DEF Forget, SameId, TypeOK, CoreInv, InHand
<1>3. OnlyStarted'
  BY DEF Forget, SameId, CoreInv, OnlyStarted
<1>4. StaleNotWrong'
  BY DEF Forget, SameId, CoreInv, StaleNotWrong, TrueOf, Vanished, Unobservable
<1>5. OneSettler'
  BY DEF Forget, SameId, TypeOK, CoreInv, OneSettler, Holds
<1>6. ToldTrue'
  BY DEF Forget, SameId, CoreInv, ToldTrue, TrueOf, Vanished, Unobservable
<1> QED  BY <1>1, <1>2, <1>3, <1>4, <1>5, <1>6 DEF CoreInv

-----------------------------------------------------------------------------
(* The monitor thread *)

\* TickBatch preserves the invariant.
LEMMA TickBatchStep ==
  ASSUME TypeOK, CoreInv, TickBatch
  PROVE  TypeOK' /\ CoreInv'
<1>1. TypeOK'
  BY OutcomeIs DEF TickBatch, AtTick, Pending, Fault, TypeOK, CoreInv, InHand, OnlyStarted
<1>2. InHand'
  BY OutcomeIs DEF TickBatch, AtTick, Pending, Fault, CoreInv, InHand
<1>3. OnlyStarted'
  BY DEF TickBatch, AtTick, Pending, Fault, CoreInv, OnlyStarted
<1>4. StaleNotWrong'
  <2>1. Pending \subseteq Jobs /\ \A j \in Pending : ref[j] # None
    BY DEF Pending, TypeOK, CoreInv, OnlyStarted
  <2>2. \A j \in Jobs : \/ batch'[j] \in {None, "transient"}
                        \/ j \in Pending /\ batch'[j] = Outcome(j)
    BY <2>1 DEF TickBatch
  <2>3. \A j \in Jobs : /\ batch'[j] \in Endings => job[j] = batch'[j]
                        /\ batch'[j] \in Lost => j \in Vanished
    BY <2>1, <2>2, OutcomeIs DEF CoreInv
  <2>4. UNCHANGED <<rcloneVars, recordVars, threadVars>>
    BY DEF TickBatch
  <2> QED  BY <2>3, <2>4 DEF CoreInv, StaleNotWrong, TrueOf, Vanished, Unobservable
<1>5. OneSettler'
  BY DEF TickBatch, AtTick, Pending, Fault, CoreInv, OneSettler, Holds
<1>6. ToldTrue'
  BY DEF TickBatch, AtTick, Pending, Fault, CoreInv, ToldTrue, TrueOf, Vanished, Unobservable
<1> QED  BY <1>1, <1>2, <1>3, <1>4, <1>5, <1>6 DEF CoreInv

\* TickSingly preserves the invariant.
LEMMA TickSinglyStep ==
  ASSUME TypeOK, CoreInv, TickSingly
  PROVE  TypeOK' /\ CoreInv'
<1>1. TypeOK'
  <2>1. faults' \in 0 .. MaxFaults
    BY DEF TypeOK, TickSingly, Fault
  <2>2. todo' \subseteq Jobs /\ batching' \in BOOLEAN /\ batch' \in [Jobs -> Outcomes \cup {None}]
    BY DEF TypeOK, TickSingly, Pending
  <2> QED  BY <2>1, <2>2 DEF TypeOK, TickSingly
<1>2. InHand'
  BY DEF TickSingly, AtTick, Pending, Fault, CoreInv, InHand
<1>3. OnlyStarted'
  BY DEF TickSingly, AtTick, Pending, Fault, CoreInv, OnlyStarted
<1>4. StaleNotWrong'
  <2>1. \A j \in Jobs : batch'[j] = None
    BY DEF TickSingly
  <2>2. UNCHANGED <<rcloneVars, recordVars, threadVars>>
    BY DEF TickSingly
  <2> QED  BY <2>1, <2>2 DEF CoreInv, StaleNotWrong, TrueOf, Vanished, Unobservable
<1>5. OneSettler'
  BY DEF TickSingly, AtTick, Pending, Fault, CoreInv, OneSettler, Holds
<1>6. ToldTrue'
  BY DEF TickSingly, AtTick, Pending, Fault, CoreInv, ToldTrue, TrueOf, Vanished, Unobservable
<1> QED  BY <1>1, <1>2, <1>3, <1>4, <1>5, <1>6 DEF CoreInv

\* NextRecord preserves the invariant.
LEMMA NextRecordStep ==
  ASSUME TypeOK, CoreInv, NextRecord
  PROVE  TypeOK' /\ CoreInv'
<1>1. TypeOK'
  BY DEF NextRecord, TypeOK
<1>2. InHand'
  BY DEF NextRecord, TypeOK, CoreInv, InHand, OnlyStarted
<1>3. OnlyStarted'
  BY DEF NextRecord, CoreInv, OnlyStarted
<1>4. StaleNotWrong'
  <2>1. PICK j \in todo : /\ on' = [on EXCEPT ![Monitor] = j]
                          /\ seen' = [seen EXCEPT ![Monitor] = batch[j]]
                          /\ batch' = [batch EXCEPT ![j] = None]
                          /\ pc' = [pc EXCEPT ![Monitor] = IF batch[j] = None THEN "fetch" ELSE "apply"]
    BY DEF NextRecord
  <2>2. UNCHANGED <<rcloneVars, recordVars>> /\ j \in Jobs
    BY DEF NextRecord, TypeOK
  <2>3. /\ batch[j] \in Endings => job[j] = batch[j]
        /\ batch[j] \in Lost => j \in Vanished
    BY <2>2 DEF CoreInv, StaleNotWrong
  <2>4. \A t \in Threads :
          \/ t = Monitor /\ on'[t] = j /\ seen'[t] = batch[j] /\ pc'[t] \in {"fetch", "apply"}
          \/ t # Monitor /\ on'[t] = on[t] /\ seen'[t] = seen[t] /\ pc'[t] = pc[t]
    BY <2>1, <2>2 DEF TypeOK
  <2>5. \A k \in Jobs : batch'[k] \in {None, batch[k]}
    BY <2>1 DEF TypeOK
  <2>6. Vanished' = Vanished /\ \A k, v : TrueOf(k, v)' = TrueOf(k, v)
    BY <2>2 DEF Vanished, Unobservable, TrueOf
  <2> QED  BY <2>2, <2>3, <2>4, <2>5, <2>6 DEF CoreInv, StaleNotWrong
<1>5. OneSettler'
  BY DEF NextRecord, CoreInv, OneSettler, Holds
<1>6. ToldTrue'
  BY DEF NextRecord, CoreInv, ToldTrue, TrueOf, Vanished, Unobservable
<1> QED  BY <1>1, <1>2, <1>3, <1>4, <1>5, <1>6 DEF CoreInv

\* ExitThread preserves the invariant.
LEMMA ExitThreadStep ==
  ASSUME TypeOK, CoreInv, ExitThread
  PROVE  TypeOK' /\ CoreInv'
<1>1. TypeOK'
  BY DEF ExitThread, AtTick, TypeOK
<1>2. InHand'
  BY DEF ExitThread, AtTick, CoreInv, InHand
<1>3. OnlyStarted'
  BY DEF ExitThread, AtTick, CoreInv, OnlyStarted
<1>4. StaleNotWrong'
  BY DEF ExitThread, AtTick, CoreInv, StaleNotWrong, TrueOf, Vanished, Unobservable
<1>5. OneSettler'
  BY DEF ExitThread, AtTick, CoreInv, OneSettler, Holds
<1>6. ToldTrue'
  BY DEF ExitThread, AtTick, CoreInv, ToldTrue, TrueOf, Vanished, Unobservable
<1> QED  BY <1>1, <1>2, <1>3, <1>4, <1>5, <1>6 DEF CoreInv

-----------------------------------------------------------------------------
(* shutdown() *)

\* ShutdownCall preserves the invariant.
LEMMA ShutdownCallStep ==
  ASSUME TypeOK, CoreInv, ShutdownCall
  PROVE  TypeOK' /\ CoreInv'
<1>1. TypeOK'
  BY DEF ShutdownCall, TypeOK
<1>2. InHand'
  BY DEF ShutdownCall, CoreInv, InHand
<1>3. OnlyStarted'
  BY DEF ShutdownCall, CoreInv, OnlyStarted
<1>4. StaleNotWrong'
  BY DEF ShutdownCall, CoreInv, StaleNotWrong, TrueOf, Vanished, Unobservable
<1>5. OneSettler'
  BY DEF ShutdownCall, CoreInv, OneSettler, Holds
<1>6. ToldTrue'
  BY DEF ShutdownCall, CoreInv, ToldTrue, TrueOf, Vanished, Unobservable
<1> QED  BY <1>1, <1>2, <1>3, <1>4, <1>5, <1>6 DEF CoreInv

\* ShutdownCancel preserves the invariant.
LEMMA ShutdownCancelStep ==
  ASSUME TypeOK, CoreInv, NEW j \in Jobs, ShutdownCancel(j)
  PROVE  TypeOK' /\ CoreInv'
<1>1. TypeOK'
  BY DEF ShutdownCancel, RequestCancel, TypeOK
<1>2. InHand'
  BY DEF ShutdownCancel, RequestCancel, CoreInv, InHand
<1>3. OnlyStarted'
  BY DEF ShutdownCancel, RequestCancel, TypeOK, CoreInv, OnlyStarted
<1>4. StaleNotWrong'
  BY DEF ShutdownCancel, RequestCancel, CoreInv, StaleNotWrong, TrueOf, Vanished, Unobservable
<1>5. OneSettler'
  BY DEF ShutdownCancel, RequestCancel, CoreInv, OneSettler, Holds
<1>6. ToldTrue'
  BY DEF ShutdownCancel, RequestCancel, CoreInv, ToldTrue, TrueOf, Vanished, Unobservable
<1> QED  BY <1>1, <1>2, <1>3, <1>4, <1>5, <1>6 DEF CoreInv

\* ShutdownWait preserves the invariant.
LEMMA ShutdownWaitStep ==
  ASSUME TypeOK, CoreInv, ShutdownWait
  PROVE  TypeOK' /\ CoreInv'
<1>1. TypeOK'
  BY DEF ShutdownWait, TypeOK
<1>2. InHand'
  BY DEF ShutdownWait, CoreInv, InHand
<1>3. OnlyStarted'
  BY DEF ShutdownWait, CoreInv, OnlyStarted
<1>4. StaleNotWrong'
  BY DEF ShutdownWait, CoreInv, StaleNotWrong, TrueOf, Vanished, Unobservable
<1>5. OneSettler'
  BY DEF ShutdownWait, CoreInv, OneSettler, Holds
<1>6. ToldTrue'
  BY DEF ShutdownWait, CoreInv, ToldTrue, TrueOf, Vanished, Unobservable
<1> QED  BY <1>1, <1>2, <1>3, <1>4, <1>5, <1>6 DEF CoreInv

\* ShutdownTimeout preserves the invariant.
LEMMA ShutdownTimeoutStep ==
  ASSUME TypeOK, CoreInv, ShutdownTimeout
  PROVE  TypeOK' /\ CoreInv'
<1>1. TypeOK'
  BY DEF ShutdownTimeout, TypeOK
<1>2. InHand'
  BY DEF ShutdownTimeout, CoreInv, InHand
<1>3. OnlyStarted'
  BY DEF ShutdownTimeout, CoreInv, OnlyStarted
<1>4. StaleNotWrong'
  BY DEF ShutdownTimeout, CoreInv, StaleNotWrong, TrueOf, Vanished, Unobservable
<1>5. OneSettler'
  BY DEF ShutdownTimeout, CoreInv, OneSettler, Holds
<1>6. ToldTrue'
  BY DEF ShutdownTimeout, CoreInv, ToldTrue, TrueOf, Vanished, Unobservable
<1> QED  BY <1>1, <1>2, <1>3, <1>4, <1>5, <1>6 DEF CoreInv

\* ShutdownStop preserves the invariant.
LEMMA ShutdownStopStep ==
  ASSUME TypeOK, CoreInv, ShutdownStop
  PROVE  TypeOK' /\ CoreInv'
<1>1. TypeOK'
  BY DEF ShutdownStop, TypeOK
<1>2. InHand'
  BY DEF ShutdownStop, CoreInv, InHand
<1>3. OnlyStarted'
  BY DEF ShutdownStop, CoreInv, OnlyStarted
<1>4. StaleNotWrong'
  BY DEF ShutdownStop, CoreInv, StaleNotWrong, TrueOf, Vanished, Unobservable
<1>5. OneSettler'
  BY DEF ShutdownStop, CoreInv, OneSettler, Holds
<1>6. ToldTrue'
  BY DEF ShutdownStop, CoreInv, ToldTrue, TrueOf, Vanished, Unobservable
<1> QED  BY <1>1, <1>2, <1>3, <1>4, <1>5, <1>6 DEF CoreInv

\* ShutdownJoin preserves the invariant.
LEMMA ShutdownJoinStep ==
  ASSUME TypeOK, CoreInv, ShutdownJoin
  PROVE  TypeOK' /\ CoreInv'
<1>1. TypeOK'
  BY DEF ShutdownJoin, TypeOK
<1>2. InHand'
  BY DEF ShutdownJoin, CoreInv, InHand
<1>3. OnlyStarted'
  BY DEF ShutdownJoin, CoreInv, OnlyStarted
<1>4. StaleNotWrong'
  BY DEF ShutdownJoin, CoreInv, StaleNotWrong, TrueOf, Vanished, Unobservable
<1>5. OneSettler'
  BY DEF ShutdownJoin, CoreInv, OneSettler, Holds
<1>6. ToldTrue'
  BY DEF ShutdownJoin, CoreInv, ToldTrue, TrueOf, Vanished, Unobservable
<1> QED  BY <1>1, <1>2, <1>3, <1>4, <1>5, <1>6 DEF CoreInv

-----------------------------------------------------------------------------
(* The invariance theorems *)

\* A stuttering step preserves it.
LEMMA StutterStep ==
  ASSUME TypeOK, CoreInv, UNCHANGED vars
  PROVE  TypeOK' /\ CoreInv'
<1>1. TypeOK'
  BY DEF TypeOK
<1>2. InHand' /\ OnlyStarted' /\ OneSettler'
  BY DEF CoreInv, InHand, OnlyStarted, OneSettler, Holds
<1>3. StaleNotWrong' /\ ToldTrue'
  BY DEF CoreInv, StaleNotWrong, ToldTrue, TrueOf, Vanished, Unobservable
<1> QED  BY <1>1, <1>2, <1>3 DEF CoreInv

\* Every step of the system preserves it.
LEMMA NextStep ==
  ASSUME TypeOK, CoreInv, Next
  PROVE  TypeOK' /\ CoreInv'
<1>1. ASSUME Environment PROVE TypeOK' /\ CoreInv'
  BY <1>1, ProgressStep, FinishStep, ExpireStep, RestartStep, CloseRuntimeStep
     DEF Environment
<1>2. ASSUME NEW c \in Clients, Call(c) PROVE TypeOK' /\ CoreInv'
  BY <1>2, StartRcStep, StatusCallStep, StatsCallStep, CancelCallStep DEF Call
<1>3. ASSUME NEW c \in Clients, Continue(c) PROVE TypeOK' /\ CoreInv'
  BY <1>3, RegisterStep, EnsureThreadStep, StatsStoreStep, CancelAskStep DEF Continue
<1>4. ASSUME NEW t \in Threads, Poll(t) PROVE TypeOK' /\ CoreInv'
  BY <1>4, FetchStep, DiscardStep, RefreshStep, BeginSettleStep, BeginLostStep,
     JudgeStep, PurgeStep, PublishStep, ForgetStep DEF Poll
<1>5. ASSUME MonitorStep PROVE TypeOK' /\ CoreInv'
  BY <1>5, TickBatchStep, TickSinglyStep, NextRecordStep, ExitThreadStep DEF MonitorStep
<1>6. ASSUME Shutdown PROVE TypeOK' /\ CoreInv'
  BY <1>6, ShutdownCallStep, ShutdownCancelStep, ShutdownWaitStep, ShutdownTimeoutStep,
     ShutdownStopStep, ShutdownJoinStep DEF Shutdown
<1> QED  BY <1>1, <1>2, <1>3, <1>4, <1>5, <1>6, StopStep DEF Next

\* It holds at first.
LEMMA InitInv ==
  ASSUME Init
  PROVE  TypeOK /\ CoreInv
<1>1. TypeOK
  <2>1. /\ job \in [Jobs -> Endings \cup {"none", "running"}]
        /\ bytes \in [Jobs -> Bytes]
        /\ ref \in [Jobs -> [run : 0 .. MaxRestarts, id : Nat] \cup {None}]
        /\ batch \in [Jobs -> Outcomes \cup {None}]
    BY DEF Init
  <2>2. /\ cancelReq \in [Jobs -> BOOLEAN]
        /\ status \in [Jobs -> States \cup {None}]
        /\ snap \in [Jobs -> Bytes \cup {None}]
        /\ terminal \in [Jobs -> Verdicts \cup {None}]
    BY DEF Init
  <2>3. /\ pc \in [Threads -> Controls]
        /\ on \in [Threads -> Jobs \cup {None}]
        /\ seen \in [Threads -> Outcomes \cup Verdicts \cup {None}]
        /\ fin \in [Threads -> Bytes \cup {None}]
    BY DEF Init
  <2>4. run \in 0 .. MaxRestarts /\ faults \in 0 .. MaxFaults /\ nextId \in Nat
    BY DEF Init
  <2>5. /\ groups = {} /\ stopping = {} /\ expired = {} /\ tracked = {} /\ todo = {} /\ snapshot = {}
        /\ closed = FALSE /\ batching = TRUE /\ stop = FALSE /\ sd = "never"
    BY DEF Init
  <2> QED  BY <2>1, <2>2, <2>3, <2>4, <2>5 DEF TypeOK
<1>2. InHand /\ OnlyStarted /\ OneSettler
  BY DEF Init, InHand, OnlyStarted, OneSettler, Holds
<1>3. StaleNotWrong /\ ToldTrue
  BY DEF Init, StaleNotWrong, ToldTrue
<1> QED  BY <1>1, <1>2, <1>3 DEF CoreInv

\* Every reachable state satisfies the type invariant and the inductive
\* invariant of the monitor, for any number of jobs and callers.
THEOREM Inductive == Spec => [](TypeOK /\ CoreInv)
<1>1. Init => TypeOK /\ CoreInv
  BY InitInv
<1>2. TypeOK /\ CoreInv /\ [Next]_vars => (TypeOK /\ CoreInv)'
  BY NextStep, StutterStep
<1> QED  BY <1>1, <1>2, PTL DEF Spec

\* Every variable keeps its type.
THEOREM TypeCorrect == Spec => []TypeOK
  BY Inductive, PTL

\* No caller of wait() is told a result that is not true of the job.
THEOREM Truthful == Spec => []TruthfulVerdict
<1>1. TypeOK /\ CoreInv => TruthfulVerdict
  BY DEF TypeOK, CoreInv, ToldTrue, TrueOf, TruthfulVerdict, OnlyStarted
<1> QED  BY <1>1, Inductive, PTL

-----------------------------------------------------------------------------
(* Who may change what a caller is told *)

\* Only _settle_terminal() and _settle_unobservable() publish a verdict.
LEMMA OnlyPublishTells ==
  ASSUME Next
  PROVE  \/ \E t \in Threads : Publish(t)
         \/ UNCHANGED terminal
<1>1. ASSUME NEW t \in Threads, Poll(t), ~Publish(t) PROVE UNCHANGED terminal
  BY <1>1 DEF Poll, Fetch, Discard, Refresh, BeginSettle, BeginLost, Judge, Purge, Forget
<1>2. ASSUME NEW c \in Clients, Call(c) \/ Continue(c) PROVE UNCHANGED terminal
  BY <1>2 DEF Call, Continue, StartRc, StatusCall, StatsCall, CancelCall, Register,
     EnsureThread, StatsStore, CancelAsk
<1>3. ASSUME Environment PROVE UNCHANGED terminal
  BY <1>3 DEF Environment, Progress, Finish, Expire, Restart, CloseRuntime
<1>4. ASSUME NEW j \in Jobs, Stop(j) PROVE UNCHANGED terminal
  BY <1>4 DEF Stop
<1>5. ASSUME MonitorStep PROVE UNCHANGED terminal
  BY <1>5 DEF MonitorStep, TickBatch, TickSingly, NextRecord, ExitThread
<1>6. ASSUME Shutdown PROVE UNCHANGED terminal
  BY <1>6 DEF Shutdown, ShutdownCall, ShutdownCancel, ShutdownWait, ShutdownTimeout,
     ShutdownStop, ShutdownJoin
<1> QED  BY <1>1, <1>2, <1>3, <1>4, <1>5, <1>6 DEF Next

\* Only a poll and a stats() caller write the cached status and snapshot.
LEMMA OnlyTheseCache ==
  ASSUME Next
  PROVE  \/ \E t \in Threads : Publish(t) \/ Refresh(t)
         \/ \E c \in Clients : StatsStore(c)
         \/ UNCHANGED <<status, snap>>
<1>1. ASSUME NEW t \in Threads, Poll(t), ~Publish(t), ~Refresh(t) PROVE UNCHANGED <<status, snap>>
  BY <1>1 DEF Poll, Fetch, Discard, BeginSettle, BeginLost, Judge, Purge, Forget
<1>2. ASSUME NEW c \in Clients, Call(c) \/ Continue(c), ~StatsStore(c) PROVE UNCHANGED <<status, snap>>
  BY <1>2 DEF Call, Continue, StartRc, StatusCall, StatsCall, CancelCall, Register,
     EnsureThread, CancelAsk
<1>3. ASSUME Environment PROVE UNCHANGED <<status, snap>>
  BY <1>3 DEF Environment, Progress, Finish, Expire, Restart, CloseRuntime
<1>4. ASSUME NEW j \in Jobs, Stop(j) PROVE UNCHANGED <<status, snap>>
  BY <1>4 DEF Stop
<1>5. ASSUME MonitorStep PROVE UNCHANGED <<status, snap>>
  BY <1>5 DEF MonitorStep, TickBatch, TickSingly, NextRecord, ExitThread
<1>6. ASSUME Shutdown PROVE UNCHANGED <<status, snap>>
  BY <1>6 DEF Shutdown, ShutdownCall, ShutdownCancel, ShutdownWait, ShutdownTimeout,
     ShutdownStop, ShutdownJoin
<1> QED  BY <1>1, <1>2, <1>3, <1>4, <1>5, <1>6 DEF Next

\* A verdict and a final snapshot, once given, never change: the second look
\* at the record under poll_lock, and the one in stats_now(), are enough.
THEOREM SettledOnce == Spec => SettledForGood
<1>1. ASSUME TypeOK, CoreInv, Next, NEW j \in Jobs, Settled(j)
      PROVE  terminal'[j] = terminal[j] /\ (snap[j] # None => snap'[j] = snap[j])
  <2>1. CASE \E t \in Threads : Publish(t)
    <3>1. PICK t \in Threads : Publish(t)
      BY <2>1
    <3>2. on[t] # j
      BY <1>1, <3>1 DEF Publish, CoreInv, OneSettler
    <3> QED  BY <1>1, <3>1, <3>2 DEF TypeOK, Publish, CoreInv, InHand
  <2>2. CASE \E c \in Clients : StatsStore(c)
    BY <1>1, <2>2 DEF TypeOK, StatsStore, CoreInv, InHand
  <2>3. CASE \E t \in Threads : Refresh(t)
    BY <2>3 DEF Refresh
  <2>4. CASE UNCHANGED <<status, snap, terminal>>
    BY <2>4
  <2> QED  BY <1>1, <2>1, <2>2, <2>3, <2>4, OnlyPublishTells, OnlyTheseCache
<1>2. TypeOK /\ CoreInv /\ [Next]_vars
        => [\A j \in Jobs : Settled(j) =>
              /\ terminal'[j] = terminal[j]
              /\ snap[j] # None => snap'[j] = snap[j]]_vars
  BY <1>1
<1> QED  BY <1>2, Inductive, PTL DEF Spec, SettledForGood

\* status() never shows a terminal state that wait() would not confirm.
THEOREM StatusFollowsVerdict == Spec => []StatusAgrees
<1>1. Init => StatusAgrees
  BY DEF Init, StatusAgrees
<1>2. ASSUME TypeOK, CoreInv, StatusAgrees, Next PROVE StatusAgrees'
  <2>1. CASE \E t \in Threads : Publish(t)
    BY <1>2, <2>1 DEF StatusAgrees, StatusOf, Publish, TypeOK, CoreInv, InHand
  <2>2. CASE \E t \in Threads : Refresh(t)
    BY <1>2, <2>2 DEF StatusAgrees, Refresh, Acquire, TypeOK, CoreInv, InHand
  <2>3. CASE \E c \in Clients : StatsStore(c)
    BY <1>2, <2>3 DEF StatusAgrees, StatusOf, StatsStore
  <2>4. CASE UNCHANGED <<status, snap, terminal>>
    BY <1>2, <2>4 DEF StatusAgrees, StatusOf
  <2> QED  BY <1>2, <2>1, <2>2, <2>3, <2>4, OnlyPublishTells, OnlyTheseCache
<1>3. TypeOK /\ CoreInv /\ StatusAgrees /\ [Next]_vars => StatusAgrees'
  BY <1>2 DEF StatusAgrees, StatusOf
<1> QED  BY <1>1, <1>3, Inductive, PTL DEF Spec

\* request_cancel() starts the thread that calls job/stop once: a caller and a
\* shutdown() that race to cancel a job do not stop it twice.
THEOREM StoppedOnce == Spec => StopsOnce
<1>1. ASSUME TypeOK, CoreInv, Next, NEW j \in Jobs, pc[j] = "ended"
      PROVE  pc'[j] = "ended"
  <2>1. j \in Threads /\ j \notin Clients /\ j # Monitor
    OBVIOUS
  <2>2. cancelReq[j]
    BY <1>1 DEF CoreInv, OnlyStarted
  <2>3. ASSUME NEW t \in Threads, Poll(t) PROVE pc'[j] = "ended"
    <3>1. t # j
      BY <1>1, <2>3 DEF Poll, Fetch, Acquire, Discard, Refresh, BeginSettle, BeginLost,
         Judge, Purge, Publish, Forget
    <3> QED  BY <1>1, <2>1, <2>3, <3>1 DEF TypeOK, Poll, Fetch, Discard, Refresh, BeginSettle,
             BeginLost, Judge, Purge, Publish, Forget
  <2>4. ASSUME NEW c \in Clients, Call(c) PROVE pc'[j] = "ended"
    BY <1>1, <2>1, <2>4 DEF TypeOK, Call, StartRc, StatusCall, StatsCall, CancelCall
  <2>5. ASSUME NEW c \in Clients, Continue(c) PROVE pc'[j] = "ended"
    BY <1>1, <2>1, <2>2, <2>5 DEF TypeOK, Continue, Register, EnsureThread, StatsStore,
       CancelAsk, RequestCancel
  <2>6. ASSUME NEW k \in Jobs, Stop(k) PROVE pc'[j] = "ended"
    BY <1>1, <2>1, <2>6 DEF TypeOK, Stop
  <2>7. ASSUME Environment PROVE pc'[j] = "ended"
    BY <1>1, <2>7 DEF Environment, Progress, Finish, Expire, Restart, CloseRuntime
  <2>8. ASSUME MonitorStep PROVE pc'[j] = "ended"
    BY <1>1, <2>1, <2>8 DEF TypeOK, MonitorStep, TickBatch, TickSingly, NextRecord, ExitThread
  <2>9. ASSUME Shutdown PROVE pc'[j] = "ended"
    BY <1>1, <2>1, <2>2, <2>9 DEF TypeOK, Shutdown, ShutdownCall, ShutdownCancel, ShutdownWait,
       ShutdownTimeout, ShutdownStop, ShutdownJoin, RequestCancel
  <2> QED  BY <1>1, <2>3, <2>4, <2>5, <2>6, <2>7, <2>8, <2>9 DEF Next
<1>2. TypeOK /\ CoreInv /\ [Next]_vars
        => [\A j \in Jobs : pc[j] = "ended" => pc'[j] = "ended"]_vars
  BY <1>1
<1> QED  BY <1>2, Inductive, PTL DEF Spec, StopsOnce

-----------------------------------------------------------------------------
(* The monitor keeps the promise of JobPromise *)

\* The steps that leave a promise's variables alone.
LEMMA QuietSteps ==
  ASSUME Next
  PROVE  \/ \E c \in Clients, j \in Jobs : StartRc(c, j)
         \/ \E j \in Jobs : Finish(j) \/ Expire(j) \/ ShutdownCancel(j)
         \/ Restart \/ CloseRuntime
         \/ \E c \in Clients : CancelAsk(c)
         \/ \E t \in Threads : Publish(t)
         \/ UNCHANGED <<job, expired, ref, run, closed, cancelReq, terminal>>
<1> DEFINE Quiet == UNCHANGED <<job, expired, ref, run, closed, cancelReq, terminal>>
<1>1. ASSUME NEW t \in Threads, Poll(t), ~Publish(t) PROVE Quiet
  BY <1>1 DEF Poll, Fetch, Discard, Refresh, BeginSettle, BeginLost, Judge, Purge, Forget
<1>2. ASSUME NEW c \in Clients, Call(c), \A j \in Jobs : ~StartRc(c, j) PROVE Quiet
  BY <1>2 DEF Call, StatusCall, StatsCall, CancelCall
<1>3. ASSUME NEW c \in Clients, Continue(c), ~CancelAsk(c) PROVE Quiet
  BY <1>3 DEF Continue, Register, EnsureThread, StatsStore
<1>4. ASSUME NEW j \in Jobs, Progress(j) \/ Stop(j) PROVE Quiet
  BY <1>4 DEF Progress, Stop
<1>5. ASSUME MonitorStep PROVE Quiet
  BY <1>5 DEF MonitorStep, TickBatch, TickSingly, NextRecord, ExitThread
<1>6. ASSUME Shutdown, \A j \in Jobs : ~ShutdownCancel(j) PROVE Quiet
  BY <1>6 DEF Shutdown, ShutdownCall, ShutdownWait, ShutdownTimeout, ShutdownStop, ShutdownJoin
<1> QED  BY <1>1, <1>2, <1>3, <1>4, <1>5, <1>6 DEF Next, Environment

\* The monitor is an implementation of JobPromise: every step of every thread
\* and of rclone is a step of the promise, or invisible to the caller.
THEOREM Keeps == Spec => KeepsPromise
<1> USE DEF Promise!promiseVars, Promise!Truths, Promise!Told
<1>1. Init => Promise!Init
  BY DEF Init, Promise!Init, Vanished, Unobservable
<1>2. ASSUME TypeOK, CoreInv, TypeOK', CoreInv', Next
      PROVE  Promise!Next \/ UNCHANGED Promise!promiseVars
  <2>1. CASE \E c \in Clients, j \in Jobs : StartRc(c, j)
    <3>1. PICK c \in Clients, j \in Jobs : StartRc(c, j)
      BY <2>1
    <3>2. Vanished' = Vanished
      BY <1>2, <3>1 DEF StartRc, Vanished, Unobservable, TypeOK, CoreInv, OnlyStarted
    <3>3. job[j] = "none"
      BY <1>2, <3>1 DEF StartRc, CoreInv, OnlyStarted
    <3> QED  BY <3>1, <3>2, <3>3 DEF StartRc, Promise!Next, Promise!Start
  <2>2. CASE \E j \in Jobs : Finish(j)
    <3>1. PICK j \in Jobs : Finish(j)
      BY <2>2
    <3>2. Vanished' = Vanished
      BY <3>1 DEF Finish, Vanished, Unobservable
    <3>3. Promise!End(j)
      BY <3>1, <3>2 DEF Finish, Promise!End
    <3> QED  BY <3>3 DEF Promise!Next
  <2>3. CASE (\E j \in Jobs : Expire(j)) \/ Restart \/ CloseRuntime
    <3>1. Vanished \subseteq Vanished'
      BY <1>2, <2>3 DEF Expire, Restart, CloseRuntime, Vanished, Unobservable, TypeOK,
         CoreInv, OnlyStarted
    <3>2. \A j \in Vanished' : job[j] # "none"
      BY <1>2, <2>3 DEF Expire, Restart, CloseRuntime, Vanished, CoreInv, OnlyStarted
    <3>3. Vanished' \subseteq Jobs /\ UNCHANGED <<job, cancelReq, terminal>>
      BY <2>3 DEF Expire, Restart, CloseRuntime, Vanished
    <3> QED  BY <3>1, <3>2, <3>3 DEF Promise!Next, Promise!Vanish
  <2>4. CASE (\E j \in Jobs : ShutdownCancel(j)) \/ (\E c \in Clients : CancelAsk(c))
    <3>1. /\ Vanished' = Vanished
          /\ UNCHANGED <<job, terminal>>
      BY <2>4 DEF ShutdownCancel, CancelAsk, Vanished, Unobservable
    <3>2. \/ \E j \in Jobs : job[j] # "none" /\ RequestCancel(j)
          \/ UNCHANGED cancelReq
      BY <1>2, <2>4 DEF ShutdownCancel, CancelAsk, TypeOK, CoreInv, InHand, OnlyStarted
    <3> QED  BY <3>1, <3>2 DEF RequestCancel, Promise!Next, Promise!Ask
  <2>5. CASE \E t \in Threads : Publish(t)
    <3>1. PICK t \in Threads : Publish(t)
      BY <2>5
    <3> DEFINE j == on[t]
    <3>2. j \in Jobs /\ ~Settled(j) /\ seen[t] \in Verdicts /\ TrueOf(j, seen[t])
      BY <1>2, <3>1 DEF Publish, CoreInv, InHand, OneSettler, StaleNotWrong
    <3>3. seen[t] \in Promise!Fair(j)
      BY <3>2 DEF TrueOf, Promise!Fair
    <3>4. /\ Vanished' = Vanished
          /\ UNCHANGED <<job, cancelReq>>
          /\ terminal' = [terminal EXCEPT ![j] = seen[t]]
      BY <3>1 DEF Publish, Vanished, Unobservable
    <3>5. Promise!Tell(j)
      BY <3>2, <3>3, <3>4 DEF Promise!Tell
    <3> QED  BY <3>2, <3>5 DEF Promise!Next
  <2>6. CASE UNCHANGED <<job, expired, ref, run, closed, cancelReq, terminal>>
    BY <2>6 DEF Vanished, Unobservable
  <2> QED  BY <1>2, <2>1, <2>2, <2>3, <2>4, <2>5, <2>6, QuietSteps
<1>3. UNCHANGED vars => UNCHANGED Promise!promiseVars
  BY DEF Vanished, Unobservable
<1>4. (TypeOK /\ CoreInv) /\ (TypeOK /\ CoreInv)' /\ [Next]_vars => [Promise!Next]_(Promise!promiseVars)
  BY <1>2, <1>3
<1> QED  BY <1>1, <1>4, Inductive, PTL DEF Spec, KeepsPromise, Promise!Spec

-----------------------------------------------------------------------------
(* What else is true of a record                                           *)

\* A record is heard of by nobody before it is in _records, and forgotten only
\* when it is settled.
LEMMA KnownStep ==
  ASSUME TypeOK, CoreInv, KnownInOrder, Next
  PROVE  KnownInOrder'
<1> USE DEF TypeOK, KnownInOrder
<1>1. ASSUME Environment PROVE KnownInOrder'
  BY <1>1 DEF Environment, Progress, Finish, Expire, Restart, CloseRuntime
<1>2. ASSUME NEW c \in Clients, NEW j \in Jobs, StartRc(c, j) PROVE KnownInOrder'
  <2>1. job[j] = "none" /\ ~Settled(j) /\ ~cancelReq[j]
    BY <1>2 DEF StartRc, CoreInv, OnlyStarted, ToldTrue, TrueOf, Vanished
  <2>2. \A t \in Threads : pc[t] \in Busy => on[t] # j
    BY <1>2 DEF StartRc, CoreInv, InHand
  <2> QED  BY <1>2, <2>1, <2>2 DEF StartRc, CoreInv, OnlyStarted
<1>3. ASSUME NEW c \in Clients, NEW j \in Jobs, StatusCall(c, j) \/ CancelCall(c, j) PROVE KnownInOrder'
  BY <1>3 DEF StatusCall, CancelCall, Handed, CoreInv, InHand
<1>4. ASSUME NEW c \in Clients, NEW j \in Jobs, StatsCall(c, j) PROVE KnownInOrder'
  BY <1>4 DEF StatsCall, Handed, CoreInv, InHand
<1>5. ASSUME NEW c \in Clients, Register(c) PROVE KnownInOrder'
  BY <1>5 DEF Register, SameId, CoreInv, InHand
<1>6. ASSUME NEW c \in Clients, EnsureThread(c) \/ StatsStore(c) PROVE KnownInOrder'
  BY <1>6 DEF EnsureThread, StatsStore, CoreInv, InHand
<1>7. ASSUME NEW c \in Clients, CancelAsk(c) PROVE KnownInOrder'
  BY <1>7 DEF CancelAsk, RequestCancel, CoreInv, InHand, OnlyStarted
<1>8. ASSUME NEW j \in Jobs, Stop(j) PROVE KnownInOrder'
  BY <1>8 DEF Stop, CoreInv, InHand, OnlyStarted
<1>9. ASSUME NEW t \in Threads, Fetch(t) \/ Discard(t) \/ Refresh(t) \/ BeginSettle(t) PROVE KnownInOrder'
  BY <1>9 DEF Fetch, Discard, Refresh, BeginSettle, Acquire, CoreInv, InHand
<1>10. ASSUME NEW t \in Threads, BeginLost(t) \/ Judge(t) \/ Purge(t) PROVE KnownInOrder'
  BY <1>10 DEF BeginLost, Judge, Purge, Acquire, CoreInv, InHand
<1>11. ASSUME NEW t \in Threads, Publish(t) PROVE KnownInOrder'
  BY <1>11 DEF Publish, CoreInv, InHand, OneSettler
<1>12. ASSUME NEW t \in Threads, Forget(t) PROVE KnownInOrder'
  BY <1>12 DEF Forget, SameId, CoreInv, InHand
<1>13. ASSUME MonitorStep PROVE KnownInOrder'
  BY <1>13 DEF MonitorStep, AtTick, Pending, TickBatch, TickSingly, NextRecord, ExitThread, CoreInv, InHand
<1>14. ASSUME Shutdown PROVE KnownInOrder'
  BY <1>14 DEF Shutdown, ShutdownCall, ShutdownWait, ShutdownTimeout, ShutdownStop, ShutdownJoin,
     ShutdownCancel, RequestCancel, CoreInv, InHand
<1> QED  BY <1>1, <1>2, <1>3, <1>4, <1>5, <1>6, <1>7, <1>8, <1>9, <1>10, <1>11, <1>12, <1>13, <1>14
         DEF Next, Call, Continue, Poll

\* Neither shutdown() nor a caller of cancel() or stats() takes a settler from
\* its record: the thread that stops a job runs nothing before.
LEMMA LockedStays ==
  ASSUME TypeOK, CoreInv, Shutdown \/ \E c \in Clients : Continue(c)
  PROVE  \A t \in Threads : pc[t] \in Locked => pc'[t] = pc[t] /\ on'[t] = on[t]
<1> USE DEF TypeOK
<1>1. \A j \in Jobs : pc[j] # "off" => cancelReq[j]
  BY DEF CoreInv, OnlyStarted
<1>2. ASSUME NEW c \in Clients, CancelAsk(c)
      PROVE  \A t \in Threads : pc[t] \in Locked => pc'[t] = pc[t] /\ on'[t] = on[t]
  BY <1>1, <1>2 DEF CancelAsk, RequestCancel, CoreInv, InHand
<1>3. ASSUME NEW c \in Clients, Register(c) \/ EnsureThread(c) \/ StatsStore(c)
      PROVE  \A t \in Threads : pc[t] \in Locked => pc'[t] = pc[t] /\ on'[t] = on[t]
  BY <1>3 DEF Register, EnsureThread, StatsStore
<1>4. ASSUME Shutdown
      PROVE  \A t \in Threads : pc[t] \in Locked => pc'[t] = pc[t] /\ on'[t] = on[t]
  BY <1>1, <1>4 DEF Shutdown, ShutdownCall, ShutdownWait, ShutdownTimeout, ShutdownStop,
     ShutdownJoin, ShutdownCancel, RequestCancel
<1> QED  BY <1>2, <1>3, <1>4 DEF Continue

\* A settled record is in _records for no longer than its settler needs.
LEMMA ForgottenStep ==
  ASSUME TypeOK, CoreInv, KnownInOrder, SettledIsForgotten, Next
  PROVE  SettledIsForgotten'
<1> USE DEF TypeOK, SettledIsForgotten
<1>1. ASSUME Environment PROVE SettledIsForgotten'
  BY <1>1 DEF Environment, Progress, Finish, Expire, Restart, CloseRuntime
<1>2. ASSUME NEW c \in Clients, Call(c) PROVE SettledIsForgotten'
  BY <1>2 DEF Call, StartRc, StatusCall, StatsCall, CancelCall
<1>3. ASSUME NEW c \in Clients, Register(c) PROVE SettledIsForgotten'
  BY <1>3 DEF Register, SameId, KnownInOrder
<1>4. ASSUME NEW c \in Clients, EnsureThread(c) \/ StatsStore(c) \/ CancelAsk(c) PROVE SettledIsForgotten'
  <2>1. \A t \in Threads : pc[t] = "forget" => pc'[t] = "forget" /\ on'[t] = on[t]
    BY <1>4, LockedStays DEF Continue
  <2> QED  BY <1>4, <2>1 DEF EnsureThread, StatsStore, CancelAsk
<1>5. ASSUME NEW j \in Jobs, Stop(j) PROVE SettledIsForgotten'
  BY <1>5 DEF Stop
<1>6. ASSUME NEW t \in Threads, Poll(t), ~Publish(t), ~Forget(t) PROVE SettledIsForgotten'
  BY <1>6 DEF Poll, Fetch, Discard, Refresh, BeginSettle, BeginLost, Judge, Purge, Acquire
<1>7. ASSUME NEW t \in Threads, Publish(t) PROVE SettledIsForgotten'
  BY <1>7 DEF Publish
<1>8. ASSUME NEW t \in Threads, Forget(t) PROVE SettledIsForgotten'
  BY <1>8 DEF Forget, SameId
<1>9. ASSUME MonitorStep PROVE SettledIsForgotten'
  BY <1>9 DEF MonitorStep, AtTick, Pending, TickBatch, TickSingly, NextRecord, ExitThread
<1>10. ASSUME Shutdown PROVE SettledIsForgotten'
  <2>1. \A t \in Threads : pc[t] = "forget" => pc'[t] = "forget" /\ on'[t] = on[t]
    BY <1>10, LockedStays
  <2> QED  BY <1>10, <2>1 DEF Shutdown, ShutdownCall, ShutdownWait, ShutdownTimeout, ShutdownStop,
           ShutdownJoin, ShutdownCancel
<1> QED  BY <1>1, <1>2, <1>3, <1>4, <1>5, <1>6, <1>7, <1>8, <1>9, <1>10
         DEF Next, Continue

\* Only a running job transfers bytes.
LEMMA OnlyProgressMoves ==
  ASSUME Next
  PROVE  \/ \E j \in Jobs : Progress(j)
         \/ UNCHANGED bytes
<1>1. ASSUME NEW t \in Threads, Poll(t) PROVE UNCHANGED bytes
  BY <1>1 DEF Poll, Fetch, Discard, Refresh, BeginSettle, BeginLost, Judge, Purge, Publish, Forget
<1>2. ASSUME NEW c \in Clients, Call(c) \/ Continue(c) PROVE UNCHANGED bytes
  BY <1>2 DEF Call, Continue, StartRc, StatusCall, StatsCall, CancelCall, Register,
     EnsureThread, StatsStore, CancelAsk
<1>3. ASSUME Environment, \A j \in Jobs : ~Progress(j) PROVE UNCHANGED bytes
  BY <1>3 DEF Environment, Finish, Expire, Restart, CloseRuntime
<1>4. ASSUME NEW j \in Jobs, Stop(j) PROVE UNCHANGED bytes
  BY <1>4 DEF Stop
<1>5. ASSUME MonitorStep PROVE UNCHANGED bytes
  BY <1>5 DEF MonitorStep, TickBatch, TickSingly, NextRecord, ExitThread
<1>6. ASSUME Shutdown PROVE UNCHANGED bytes
  BY <1>6 DEF Shutdown, ShutdownCall, ShutdownCancel, ShutdownWait, ShutdownTimeout,
     ShutdownStop, ShutdownJoin
<1> QED  BY <1>1, <1>2, <1>3, <1>4, <1>5, <1>6 DEF Next

\* A failed call, a closed runtime or another execution is never undone.
LEMMA TroubleStays ==
  ASSUME TypeOK, Next, Undisturbed'
  PROVE  Undisturbed
<1> USE DEF TypeOK, Undisturbed
<1>1. ASSUME NEW t \in Threads, Poll(t) PROVE Undisturbed
  BY <1>1 DEF Poll, Fetch, Discard, Refresh, BeginSettle, BeginLost, Judge, Purge, Publish, Forget, Fault
<1>2. ASSUME NEW c \in Clients, Call(c) \/ Continue(c) PROVE Undisturbed
  BY <1>2 DEF Call, Continue, StartRc, StatusCall, StatsCall, CancelCall, Register,
     EnsureThread, StatsStore, CancelAsk, Fault
<1>3. ASSUME Environment PROVE Undisturbed
  BY <1>3 DEF Environment, Progress, Finish, Expire, Restart, CloseRuntime
<1>4. ASSUME NEW j \in Jobs, Stop(j) PROVE Undisturbed
  BY <1>4 DEF Stop, Fault
<1>5. ASSUME MonitorStep PROVE Undisturbed
  BY <1>5 DEF MonitorStep, TickBatch, TickSingly, NextRecord, ExitThread, Fault
<1>6. ASSUME Shutdown PROVE Undisturbed
  BY <1>6 DEF Shutdown, ShutdownCall, ShutdownCancel, ShutdownWait, ShutdownTimeout,
     ShutdownStop, ShutdownJoin
<1> QED  BY <1>1, <1>2, <1>3, <1>4, <1>5, <1>6 DEF Next

\* The settler reads a job's stats group before it deletes it, and by then the
\* job has ended: what it has in hand stays all there is.
LEMMA ReadStep ==
  ASSUME TypeOK, CoreInv, ReadBeforePurge, Next
  PROVE  ReadBeforePurge'
<1> USE DEF TypeOK, ReadBeforePurge, Undisturbed
<1> SUFFICES ASSUME Undisturbed', Undisturbed PROVE ReadBeforePurge'
  BY TroubleStays
<1>1. ASSUME NEW j \in Jobs, Progress(j) PROVE ReadBeforePurge'
  <2>1. \A t \in Threads : pc[t] \in {"purge", "publish"} /\ seen[t] \in Results => on[t] # j
    BY <1>1 DEF Progress, CoreInv, InHand, StaleNotWrong, TrueOf
  <2> QED  BY <1>1, <2>1 DEF Progress
<1>2. ASSUME NEW j \in Jobs, Finish(j) \/ Expire(j) PROVE ReadBeforePurge'
  BY <1>2 DEF Finish, Expire
<1>3. ASSUME NEW c \in Clients, NEW j \in Jobs, StartRc(c, j) PROVE ReadBeforePurge'
  BY <1>3 DEF StartRc
<1>4. ASSUME NEW c \in Clients, NEW j \in Jobs, StatusCall(c, j) \/ StatsCall(c, j) \/ CancelCall(c, j)
      PROVE ReadBeforePurge'
  BY <1>4 DEF StatusCall, StatsCall, CancelCall, Fault
<1>5. ASSUME NEW c \in Clients, Continue(c) PROVE ReadBeforePurge'
  <2>1. \A t \in Threads : pc[t] = "publish" => pc'[t] = "publish" /\ on'[t] = on[t]
    BY <1>5, LockedStays
  <2>2. \A t \in Threads : pc'[t] \in {"purge", "publish"} =>
          pc'[t] = pc[t] /\ on'[t] = on[t] /\ seen'[t] = seen[t] /\ fin'[t] = fin[t]
    BY <1>5 DEF Continue, Register, EnsureThread, StatsStore, CancelAsk, RequestCancel
  <2> QED  BY <1>5, <2>1, <2>2 DEF Continue, Register, EnsureThread, StatsStore, CancelAsk
<1>6. ASSUME NEW j \in Jobs, Stop(j) PROVE ReadBeforePurge'
  BY <1>6 DEF Stop, Fault
<1>7. ASSUME NEW t \in Threads, Fetch(t) \/ Discard(t) \/ Refresh(t) \/ BeginSettle(t) PROVE ReadBeforePurge'
  BY <1>7 DEF Fetch, Discard, Refresh, BeginSettle, Acquire, Fault
<1>8. ASSUME NEW t \in Threads, BeginLost(t) PROVE ReadBeforePurge'
  <2>1. \A u \in Threads : pc[u] = "publish" => pc'[u] = "publish" /\ on'[u] = on[u]
    BY <1>8 DEF BeginLost, Acquire
  <2>2. \A u \in Threads : pc'[u] \in {"purge", "publish"} /\ seen'[u] \in Results =>
          pc'[u] = pc[u] /\ on'[u] = on[u] /\ seen'[u] = seen[u] /\ fin'[u] = fin[u]
    BY <1>8 DEF BeginLost, Acquire
  <2>3. UNCHANGED <<rcloneVars, recordVars>>
    BY <1>8 DEF BeginLost
  <2> QED  BY <2>1, <2>2, <2>3
<1>9. ASSUME NEW t \in Threads, Judge(t) PROVE ReadBeforePurge'
  <2>1. on[t] \in Jobs /\ ref[on[t]] # None /\ ~Settled(on[t])
    BY <1>9 DEF Judge, CoreInv, InHand, OneSettler
  <2>2. on[t] \in groups
    BY <1>9, <2>1 DEF Judge, CoreInv, OneSettler, Holds
  <2>3. pc'[t] = "purge" => fin'[t] = bytes[on[t]]
    BY <1>9, <2>2 DEF Judge, Reading, Fault
  <2>4. pc'[t] # "publish" /\ pc[t] # "publish" /\ on'[t] \in {on[t], None}
    BY <1>9 DEF Judge
  <2>5. \A u \in Threads \ {t} :
          pc'[u] = pc[u] /\ on'[u] = on[u] /\ seen'[u] = seen[u] /\ fin'[u] = fin[u]
    BY <1>9 DEF Judge
  <2>6. pc'[t] = "purge" => on'[t] = on[t]
    BY <1>9 DEF Judge
  <2>7. UNCHANGED <<rcloneVars, recordVars>>
    BY <1>9 DEF Judge
  <2>8. \A k \in Jobs : ref'[k] # None /\ ~Settled(k)' /\ k \notin groups'
                     => \E u \in Threads : on'[u] = k /\ pc'[u] = "publish"
    BY <2>4, <2>5, <2>7
  <2>9. \A u \in Threads : pc'[u] \in {"purge", "publish"} /\ seen'[u] \in Results
                          => fin'[u] = bytes'[on'[u]]
    BY <2>3, <2>4, <2>5, <2>6, <2>7
  <2> QED  BY <2>8, <2>9
<1>10. ASSUME NEW t \in Threads, Purge(t) PROVE ReadBeforePurge'
  BY <1>10 DEF Purge, Fault, CoreInv, InHand
<1>11. ASSUME NEW t \in Threads, Publish(t) \/ Forget(t) PROVE ReadBeforePurge'
  <2>1. on[t] \in Jobs
    BY <1>11 DEF Publish, Forget, CoreInv, InHand
  <2>2. \A u \in Threads \ {t} : pc'[u] = pc[u] /\ on'[u] = on[u] /\ seen'[u] = seen[u] /\ fin'[u] = fin[u]
    BY <1>11 DEF Publish, Forget
  <2>3. UNCHANGED <<rcloneVars, faults>> /\ pc'[t] \notin {"purge", "publish"}
    BY <1>11 DEF Publish, Forget
  <2>4. CASE Publish(t)
    BY <2>1, <2>2, <2>3, <2>4 DEF Publish, CoreInv, InHand
  <2>5. CASE Forget(t)
    BY <2>2, <2>3, <2>5 DEF Forget
  <2> QED  BY <1>11, <2>4, <2>5
<1>12. ASSUME MonitorStep PROVE ReadBeforePurge'
  BY <1>12 DEF MonitorStep, AtTick, Pending, TickBatch, TickSingly, NextRecord, ExitThread, Fault
<1>13. ASSUME Shutdown PROVE ReadBeforePurge'
  <2>1. \A t \in Threads : pc[t] = "publish" => pc'[t] = "publish" /\ on'[t] = on[t]
    BY <1>13, LockedStays
  <2> QED  BY <1>13, <2>1 DEF Shutdown, ShutdownCall, ShutdownWait, ShutdownTimeout, ShutdownStop,
           ShutdownJoin, ShutdownCancel
<1>14. ~Restart /\ ~CloseRuntime
  BY DEF Restart, CloseRuntime
<1> QED  BY <1>1, <1>2, <1>3, <1>4, <1>5, <1>6, <1>7, <1>8, <1>9, <1>10, <1>11, <1>12, <1>13, <1>14
         DEF Next, Environment, Call, Poll

\* And so does what it publishes: a stats() caller that comes later finds a
\* final snapshot, and a job that has ended transfers no more.
LEMMA FinalStep ==
  ASSUME TypeOK, CoreInv, ReadBeforePurge, FinalSnapshotComplete, Next
  PROVE  FinalSnapshotComplete'
<1> USE DEF TypeOK, FinalSnapshotComplete
<1> SUFFICES ASSUME Undisturbed', Undisturbed PROVE FinalSnapshotComplete'
  BY TroubleStays DEF Undisturbed
<1>1. ASSUME NEW t \in Threads, Publish(t) PROVE FinalSnapshotComplete'
  BY <1>1 DEF Publish, ReadBeforePurge, CoreInv, InHand
<1>2. ASSUME NEW c \in Clients, StatsStore(c) PROVE FinalSnapshotComplete'
  BY <1>2 DEF StatsStore, CoreInv, InHand
<1>3. ASSUME NEW j \in Jobs, Progress(j) PROVE FinalSnapshotComplete'
  BY <1>3 DEF Progress, CoreInv, ToldTrue, TrueOf
<1>4. CASE UNCHANGED <<terminal, snap, bytes>>
  BY <1>4 DEF Undisturbed
<1>5. ASSUME NEW t \in Threads, Refresh(t) PROVE FinalSnapshotComplete'
  BY <1>5 DEF Refresh, Undisturbed
<1> QED  BY <1>1, <1>2, <1>3, <1>4, <1>5, OnlyPublishTells, OnlyTheseCache, OnlyProgressMoves

-----------------------------------------------------------------------------
(* The monitor watches every job, and shutdown() sees them all             *)

\* Only a start gives out a job id, and only a new execution begins again.
LEMMA OnlyStartRefers ==
  ASSUME Next
  PROVE  \/ \E c \in Clients, j \in Jobs : StartRc(c, j)
         \/ Restart
         \/ UNCHANGED <<ref, nextId, run>>
<1> DEFINE Same == UNCHANGED <<ref, nextId, run>>
<1>1. ASSUME NEW t \in Threads, Poll(t) PROVE Same
  BY <1>1 DEF Poll, Fetch, Discard, Refresh, BeginSettle, BeginLost, Judge, Purge, Publish, Forget
<1>2. ASSUME NEW c \in Clients, Call(c), \A j \in Jobs : ~StartRc(c, j) PROVE Same
  BY <1>2 DEF Call, StatusCall, StatsCall, CancelCall
<1>3. ASSUME NEW c \in Clients, Continue(c) PROVE Same
  BY <1>3 DEF Continue, Register, EnsureThread, StatsStore, CancelAsk
<1>4. ASSUME Environment PROVE Restart \/ Same
  BY <1>4 DEF Environment, Progress, Finish, Expire, Restart, CloseRuntime
<1>5. ASSUME NEW j \in Jobs, Stop(j) PROVE Same
  BY <1>5 DEF Stop
<1>6. ASSUME MonitorStep PROVE Same
  BY <1>6 DEF MonitorStep, TickBatch, TickSingly, NextRecord, ExitThread
<1>7. ASSUME Shutdown PROVE Same
  BY <1>7 DEF Shutdown, ShutdownCall, ShutdownCancel, ShutdownWait, ShutdownTimeout,
     ShutdownStop, ShutdownJoin
<1> QED  BY <1>1, <1>2, <1>3, <1>4, <1>5, <1>6, <1>7 DEF Next

\* The first execution of rclone is over for good once it is.
LEMMA NotReplacedBefore ==
  ASSUME TypeOK, Next, run' = 0
  PROVE  run = 0 /\ ~Restart
<1>1. ~Restart
  BY DEF TypeOK, Restart
<1>2. UNCHANGED run
  BY <1>1, OnlyStartRefers DEF StartRc
<1> QED  BY <1>1, <1>2

\* The ids of one execution differ.
LEMMA IdsStep ==
  ASSUME TypeOK, IdsDiffer, Next, ~Restart
  PROVE  IdsDiffer'
<1> USE DEF TypeOK, IdsDiffer
<1>1. ASSUME NEW c \in Clients, NEW j \in Jobs, StartRc(c, j) PROVE IdsDiffer'
  <2>1. ref'[j] = [run |-> run, id |-> nextId] /\ nextId' = nextId + 1
    BY <1>1 DEF StartRc
  <2>2. \A k \in Jobs \ {j} : ref'[k] = ref[k] /\ (ref[k] # None => ref[k].id < nextId)
    BY <1>1 DEF StartRc
  <2>3. \A k \in Jobs : ref[k] # None => ref[k].id \in Nat
    OBVIOUS
  <2> QED  BY <2>1, <2>2, <2>3
<1>2. CASE UNCHANGED <<ref, nextId>>
  BY <1>2
<1> QED  BY <1>1, <1>2, OnlyStartRefers

\* A record leaves _records only settled: its id is nobody else's, so neither
\* _register() nor _forget() takes another record with it.
LEMMA UnsettledStep ==
  ASSUME TypeOK, CoreInv, KnownInOrder, IdsDiffer, UnsettledIsKnown, Next
  PROVE  UnsettledIsKnown'
<1> USE DEF TypeOK, UnsettledIsKnown
<1>1. ASSUME NEW c \in Clients, NEW j \in Jobs, StartRc(c, j) PROVE UnsettledIsKnown'
  <2>1. \A d \in Clients : pc[d] = "register" => pc'[d] = "register" /\ on'[d] = on[d]
    BY <1>1 DEF StartRc
  <2>2. pc'[c] = "register" /\ on'[c] = j
    BY <1>1 DEF StartRc
  <2> QED  BY <1>1, <2>1, <2>2 DEF StartRc
<1>2. ASSUME NEW c \in Clients, Register(c) PROVE UnsettledIsKnown'
  <2>1. on[c] \in Jobs /\ ref[on[c]] # None
    BY <1>2 DEF Register, CoreInv, InHand
  <2>2. SameId(on[c]) \subseteq {on[c]}
    BY <2>1 DEF SameId, IdsDiffer, CoreInv, OnlyStarted
  <2>3. \A d \in Clients \ {c} : pc'[d] = pc[d] /\ on'[d] = on[d]
    BY <1>2 DEF Register
  <2> QED  BY <1>2, <2>2, <2>3 DEF Register
<1>3. ASSUME NEW t \in Threads, Forget(t) PROVE UnsettledIsKnown'
  <2>1. on[t] \in Jobs /\ ref[on[t]] # None /\ Settled(on[t])
    BY <1>3 DEF Forget, CoreInv, InHand, KnownInOrder
  <2>2. SameId(on[t]) \subseteq {on[t]}
    BY <2>1 DEF SameId, IdsDiffer, CoreInv, OnlyStarted
  <2>3. \A c \in Clients : pc[c] = "register" => pc'[c] = "register" /\ on'[c] = on[c]
    BY <1>3 DEF Forget
  <2> QED  BY <1>3, <2>1, <2>2, <2>3 DEF Forget
<1>4. ASSUME NEW t \in Threads, Poll(t), ~Forget(t) PROVE UnsettledIsKnown'
  <2>1. \A c \in Clients : pc[c] = "register" => pc'[c] = "register" /\ on'[c] = on[c]
    BY <1>4 DEF Poll, Fetch, Discard, Refresh, BeginSettle, BeginLost, Judge, Purge, Publish, Acquire
  <2>2. UNCHANGED <<ref, tracked>> /\ \A j \in Jobs : Settled(j) => Settled(j)'
    BY <1>4 DEF Poll, Fetch, Discard, Refresh, BeginSettle, BeginLost, Judge, Purge, Publish,
       CoreInv, InHand
  <2> QED  BY <2>1, <2>2
<1>5. ASSUME UNCHANGED <<ref, tracked, terminal>>, \A t \in Threads : ~Poll(t),
             \A c \in Clients : ~Register(c)
      PROVE UnsettledIsKnown'
  <2>1. \A c \in Clients : pc[c] = "register" => pc'[c] = "register" /\ on'[c] = on[c]
    <3>1. ASSUME Environment \/ MonitorStep \/ Shutdown
          PROVE  \A c \in Clients : pc[c] = "register" => pc'[c] = "register" /\ on'[c] = on[c]
      BY <3>1 DEF Environment, Progress, Finish, Expire, Restart, CloseRuntime,
         MonitorStep, TickBatch, TickSingly, NextRecord, ExitThread,
         Shutdown, ShutdownCall, ShutdownCancel, ShutdownWait, ShutdownTimeout, ShutdownStop, ShutdownJoin
    <3>2. ASSUME NEW d \in Clients, Call(d) \/ EnsureThread(d) \/ StatsStore(d) 
          PROVE  \A c \in Clients : pc[c] = "register" => pc'[c] = "register" /\ on'[c] = on[c]
      BY <3>2 DEF Call, StartRc, StatusCall, StatsCall, CancelCall, EnsureThread, StatsStore
    <3>3. ASSUME NEW d \in Clients, CancelAsk(d) 
          PROVE  \A c \in Clients : pc[c] = "register" => pc'[c] = "register" /\ on'[c] = on[c]
      BY <3>3 DEF CancelAsk, CoreInv, InHand
    <3>4. ASSUME NEW j \in Jobs, Stop(j)
          PROVE  \A c \in Clients : pc[c] = "register" => pc'[c] = "register" /\ on'[c] = on[c]
      BY <3>4 DEF Stop
    <3> QED  BY <1>5, <3>1, <3>2, <3>3, <3>4 DEF Next, Continue
  <2> QED  BY <1>5, <2>1
<1>6. \/ \E c \in Clients, j \in Jobs : StartRc(c, j)
      \/ UNCHANGED ref
  BY OnlyStartRefers DEF Restart
<1>7. ASSUME \A t \in Threads : ~Poll(t), \A c \in Clients : ~Register(c)
      PROVE  UNCHANGED <<tracked, terminal>>
  BY <1>7 DEF Next, Environment, Progress, Finish, Expire, Restart, CloseRuntime,
     MonitorStep, TickBatch, TickSingly, NextRecord, ExitThread, Stop,
     Shutdown, ShutdownCall, ShutdownCancel, ShutdownWait, ShutdownTimeout, ShutdownStop, ShutdownJoin,
     Call, Continue, StartRc, StatusCall, StatsCall, CancelCall, EnsureThread, StatsStore, CancelAsk
<1> QED  BY <1>1, <1>2, <1>3, <1>4, <1>5, <1>6, <1>7

\* What is settled stays settled.
LEMMA SettledStays ==
  ASSUME TypeOK, CoreInv, Next, NEW j \in Jobs, Settled(j)
  PROVE  Settled(j)'
<1>1. ASSUME NEW t \in Threads, Publish(t) PROVE Settled(j)'
  BY <1>1 DEF Publish, TypeOK, CoreInv, InHand
<1> QED  BY <1>1, OnlyPublishTells

\* No job is started once shutdown() has been called, so the jobs it saw are
\* those there are.
LEMMA ShutdownStep ==
  ASSUME NoLateStart, TypeOK, CoreInv, UnsettledIsKnown, ShutdownSawAll, Next
  PROVE  ShutdownSawAll'
<1> USE DEF TypeOK, ShutdownSawAll, MonitorGone
<1>1. ASSUME NEW c \in Clients, NEW j \in Jobs, StartRc(c, j) PROVE ShutdownSawAll'
  BY <1>1 DEF StartRc, NoLateStart
<1>2. ASSUME NEW c \in Clients, NEW j \in Jobs, StatusCall(c, j) \/ StatsCall(c, j) \/ CancelCall(c, j)
      PROVE ShutdownSawAll'
  BY <1>2 DEF StatusCall, StatsCall, CancelCall
<1>3. ASSUME NEW c \in Clients, Register(c) \/ EnsureThread(c) PROVE ShutdownSawAll'
  BY <1>3 DEF Register, EnsureThread
<1>4. ASSUME NEW c \in Clients, StatsStore(c) \/ CancelAsk(c) PROVE ShutdownSawAll'
  BY <1>4 DEF StatsStore, CancelAsk, RequestCancel, CoreInv, InHand
<1>5. ASSUME NEW j \in Jobs, Stop(j) PROVE ShutdownSawAll'
  BY <1>5 DEF Stop
<1>6. ASSUME NEW t \in Threads, Poll(t) PROVE ShutdownSawAll'
  <2>1. /\ \A c \in Clients : pc'[c] \in {"register", "ensure"} => pc[c] = pc'[c]
        /\ UNCHANGED pc[Monitor] \/ ~MonitorGone
    BY <1>6 DEF Poll, Fetch, Discard, Refresh, BeginSettle, BeginLost, Judge, Purge, Publish, Forget, Acquire
  <2>2. UNCHANGED <<ref, stop, sd, snapshot>>
    BY <1>6 DEF Poll, Fetch, Discard, Refresh, BeginSettle, BeginLost, Judge, Purge, Publish, Forget
  <2>3. \A c \in Clients : pc[c] \notin {"register", "ensure"} => pc'[c] \notin {"register", "ensure"}
    BY <2>1
  <2>4. sd = "done" => MonitorGone'
    BY <2>1
  <2> QED  BY <2>2, <2>3, <2>4, SettledStays
<1>7. ASSUME MonitorStep PROVE ShutdownSawAll'
  BY <1>7 DEF MonitorStep, AtTick, TickBatch, TickSingly, NextRecord, ExitThread
<1>8. ASSUME ShutdownCall PROVE ShutdownSawAll'
  BY <1>8 DEF ShutdownCall, NoLateStart, UnsettledIsKnown
<1>9. ASSUME ShutdownWait \/ ShutdownTimeout \/ ShutdownStop \/ ShutdownJoin PROVE ShutdownSawAll'
  BY <1>9 DEF ShutdownWait, ShutdownTimeout, ShutdownStop, ShutdownJoin
<1>10. ASSUME NEW j \in Jobs, ShutdownCancel(j) PROVE ShutdownSawAll'
  BY <1>10 DEF ShutdownCancel
<1>11. ASSUME Environment PROVE ShutdownSawAll'
  BY <1>11 DEF Environment, Progress, Finish, Expire, Restart, CloseRuntime
<1> QED  BY <1>1, <1>2, <1>3, <1>4, <1>5, <1>6, <1>7, <1>8, <1>9, <1>10, <1>11
         DEF Next, Call, Continue, Shutdown

\* Without an ending that no result can be made of, nothing kills the monitor.
LEMMA MonitorStays ==
  ASSUME SteadyClock, TypeOK, CoreInv, MonitorLives, Next
  PROVE  MonitorLives'
<1> USE DEF TypeOK, MonitorLives
<1>1. ASSUME NEW c \in Clients, NEW j \in Jobs, StartRc(c, j) PROVE MonitorLives'
  BY <1>1 DEF StartRc
<1>2. ASSUME NEW c \in Clients, NEW j \in Jobs, StatusCall(c, j) \/ StatsCall(c, j) \/ CancelCall(c, j)
      PROVE MonitorLives'
  BY <1>2 DEF StatusCall, StatsCall, CancelCall
<1>3. ASSUME NEW c \in Clients, Register(c) \/ EnsureThread(c) PROVE MonitorLives'
  BY <1>3 DEF Register, EnsureThread
<1>4. ASSUME NEW c \in Clients, StatsStore(c) \/ CancelAsk(c) PROVE MonitorLives'
  BY <1>4 DEF StatsStore, CancelAsk, RequestCancel, CoreInv, InHand
<1>5. ASSUME NEW j \in Jobs, Stop(j) PROVE MonitorLives'
  BY <1>5 DEF Stop
<1>6. ASSUME NEW t \in Threads, Poll(t) PROVE MonitorLives'
  <2>1. pc[t] = "settle" => seen[t] # "skewed"
    BY <1>6 DEF CoreInv, InHand, StaleNotWrong
  <2>2. \A c \in Clients : pc[c] \in {"register", "ensure"} => pc'[c] = pc[c] /\ on'[c] = on[c]
    BY <1>6 DEF Poll, Fetch, Discard, Refresh, BeginSettle, BeginLost, Judge, Purge, Publish, Forget, Acquire
  <2>3. UNCHANGED <<ref, stop, job>>
    BY <1>6 DEF Poll, Fetch, Discard, Refresh, BeginSettle, BeginLost, Judge, Purge, Publish, Forget
  <2>4. pc'[Monitor] = pc[Monitor] \/ pc'[Monitor] \notin {"crashed", "exited", "off"}
    BY <1>6, <2>1 DEF SteadyClock, Poll, Fetch, Discard, Refresh, BeginSettle, BeginLost, Judge, Purge, Publish,
       Forget, Acquire
  <2> QED  BY <2>2, <2>3, <2>4
<1>7. ASSUME MonitorStep PROVE MonitorLives'
  BY <1>7 DEF MonitorStep, AtTick, TickBatch, TickSingly, NextRecord, ExitThread
<1>8. ASSUME Shutdown PROVE MonitorLives'
  BY <1>8 DEF Shutdown, ShutdownCall, ShutdownWait, ShutdownTimeout, ShutdownStop, ShutdownJoin, ShutdownCancel
<1>9. ASSUME Environment PROVE MonitorLives'
  BY <1>9 DEF Environment, Progress, Finish, Expire, Restart, CloseRuntime, SteadyClock
<1> QED  BY <1>1, <1>2, <1>3, <1>4, <1>5, <1>6, <1>7, <1>8, <1>9
         DEF Next, Call, Continue

\* A stuttering step changes none of this.
LEMMA RecordStutter ==
  ASSUME UNCHANGED vars
  PROVE  /\ KnownInOrder' <=> KnownInOrder
         /\ ReadBeforePurge' <=> ReadBeforePurge
         /\ FinalSnapshotComplete' <=> FinalSnapshotComplete
         /\ SettledIsForgotten' <=> SettledIsForgotten
BY DEF KnownInOrder, ReadBeforePurge, Undisturbed, FinalSnapshotComplete, SettledIsForgotten

-----------------------------------------------------------------------------
(* The theorems                                                            *)

\* What the records promise needs no more than this, whatever the environment
\* does: no assumption on Allowed or on restarts.
THEOREM RecordsKept == Spec => []RecordInv
<1>1. Init => RecordInv
  BY DEF Init, RecordInv, KnownInOrder, ReadBeforePurge, FinalSnapshotComplete, SettledIsForgotten
<1>2. TypeOK /\ CoreInv /\ RecordInv /\ [Next]_vars => RecordInv'
  BY KnownStep, ForgottenStep, ReadStep, FinalStep, RecordStutter DEF RecordInv
<1> QED  BY <1>1, <1>2, Inductive, PTL DEF Spec

\* The final snapshot is the whole transfer, for every interleaving of pollers
\* and stats() callers with the deletion of the stats group, in every state
\* before the first failed call, close or restart.
THEOREM Complete == Spec => []FinalSnapshotComplete
<1>1. RecordInv => FinalSnapshotComplete
  BY DEF RecordInv
<1> QED  BY <1>1, RecordsKept, PTL

\* _records does not grow with the jobs that ever ran: a settled record is
\* there only while its settler is on its way to _forget(), even when ids are
\* reused and records displace each other.
THEOREM Forgotten == Spec => []SettledIsForgotten
<1>1. RecordInv => SettledIsForgotten
  BY DEF RecordInv
<1> QED  BY <1>1, RecordsKept, PTL

\* Nor of that.
LEMMA WatchStutter ==
  ASSUME UNCHANGED vars
  PROVE  /\ IdsDiffer' <=> IdsDiffer
         /\ UnsettledIsKnown' <=> UnsettledIsKnown
         /\ ShutdownSawAll' <=> ShutdownSawAll
         /\ MonitorLives' <=> MonitorLives
BY DEF IdsDiffer, UnsettledIsKnown, ShutdownSawAll, MonitorLives, MonitorGone

\* Before rclone is replaced, where start_job() does not overlap shutdown().
THEOREM Watched == Spec => []WatchInv
<1>1. Init => WatchInv
  BY DEF Init, WatchInv, IdsDiffer, UnsettledIsKnown, ShutdownSawAll
<1>2. TypeOK /\ CoreInv /\ RecordInv /\ WatchInv /\ [Next]_vars => WatchInv'
  BY NotReplacedBefore, IdsStep, UnsettledStep, ShutdownStep, WatchStutter DEF WatchInv, RecordInv
<1> QED  BY <1>1, <1>2, Inductive, RecordsKept, PTL DEF Spec

\* Where the clock is not stepped back.
THEOREM Lives == Spec => []LivesInv
<1>1. Init => LivesInv
  BY DEF Init, LivesInv, MonitorLives
<1>2. TypeOK /\ CoreInv /\ LivesInv /\ [Next]_vars => LivesInv'
  BY MonitorStays, WatchStutter DEF LivesInv
<1> QED  BY <1>1, <1>2, Inductive, PTL DEF Spec

\* When shutdown() returns True every job is settled and the poller is gone:
\* however often it was called, timed out and was called again.  It needs both
\* hypotheses: with a reused id the snapshot of _records misses the displaced
\* job, and a start that overlaps shutdown() comes after it.
THEOREM ShutdownTruthful ==
  ASSUME NoLateStart
  PROVE  Spec => [](run = 0 => ShutdownConfirms)
<1>1. WatchInv => (run = 0 => ShutdownConfirms)
  BY DEF WatchInv, ShutdownSawAll, ShutdownConfirms, Handed
<1> QED  BY <1>1, Watched, PTL

\* A handle whose wait() can still block is watched by a live monitor thread.
\* Without SteadyClock the thread dies of an end time before the start time.
THEOREM WaitersAreWatched ==
  ASSUME NoLateStart, SteadyClock
  PROVE  Spec => [](run = 0 => UnsettledIsWatched)
<1>1. WatchInv /\ LivesInv => (run = 0 => UnsettledIsWatched)
  BY DEF WatchInv, ShutdownSawAll, UnsettledIsKnown, LivesInv, MonitorLives, UnsettledIsWatched,
     Handed, MonitorGone
<1> QED  BY <1>1, Watched, Lives, PTL

\* What the instances check as Inv, all of it.
THEOREM InvHolds == Spec => []Inv
<1>1. CoreInv /\ RecordInv /\ WatchInv /\ LivesInv => Inv
  BY DEF Inv
<1> QED  BY <1>1, Inductive, RecordsKept, Watched, Lives, PTL
=============================================================================
