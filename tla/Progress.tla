------------------------------ MODULE Progress ------------------------------
(***************************************************************************)
(* on_progress(): a thread gives its callback the snapshots of watch(),    *)
(* one for every interval and a last one when the source is done, unless   *)
(* the subscription is stopped, which its own callback may do.             *)
(***************************************************************************)
EXTENDS Integers, Sequences, FiniteSets

CONSTANT MaxSnapshots \* bound: snapshots of a source that is not done

ASSUME ProgressAssumption == MaxSnapshots \in Nat

VARIABLES
  isDone,    \* source.done
  watcher,   \* the thread
  snapshot,  \* what watch() yields
  shown,     \* history: the snapshots the callback was given
  stopEvent, \* stop_event
  stopper    \* a thread in stop()

progressVars == <<isDone, watcher, snapshot, shown, stopEvent, stopper>>

Now == IF isDone THEN "final" ELSE "running"

ProgressInit ==
  /\ isDone \in BOOLEAN /\ watcher = "none" /\ snapshot = "none" /\ shown = <<>>
  /\ stopEvent = FALSE /\ stopper = "out"

Subscribe ==
  /\ watcher = "none" /\ watcher' = "look"
  /\ UNCHANGED <<isDone, snapshot, shown, stopEvent, stopper>>

Settle ==
  /\ ~isDone /\ isDone' = TRUE
  /\ UNCHANGED <<watcher, snapshot, shown, stopEvent, stopper>>

\* watch(): source.done, which is seen before the last snapshot is taken.
LookDone ==
  /\ watcher = "look" /\ watcher' = IF isDone THEN "last" ELSE "take"
  /\ UNCHANGED <<isDone, snapshot, shown, stopEvent, stopper>>

\* Mutant: the generator ends when the source is done.
TakeSnapshotButLast ==
  /\ watcher \in {"take", "last"} /\ snapshot' = Now
  /\ watcher' = IF watcher = "last" THEN "ended" ELSE "show"
  /\ UNCHANGED <<isDone, shown, stopEvent, stopper>>

\* source.stats().
TakeSnapshot ==
  /\ watcher \in {"take", "last"} /\ snapshot' = Now
  /\ watcher' = IF watcher = "last" THEN "showLast" ELSE "show"
  /\ UNCHANGED <<isDone, shown, stopEvent, stopper>>

Snapshots == Cardinality({i \in DOMAIN shown : shown[i] = "running"})

\* _run: the stop event is looked at before each callback.
Show ==
  /\ watcher \in {"show", "showLast"} /\ (watcher = "show" => (Snapshots < MaxSnapshots \/ stopEvent \/ isDone))
  /\ IF stopEvent THEN watcher' = "ended" /\ UNCHANGED shown
     ELSE /\ shown' = Append(shown, snapshot)
          /\ watcher' = IF watcher = "show" THEN "callback" ELSE "lastCallback"
  /\ UNCHANGED <<isDone, snapshot, stopEvent, stopper>>

\* The callback returns or raises, and may have called stop(), which does not
\* join its own thread.
CallbackEnds(stops) ==
  /\ watcher \in {"callback", "lastCallback"}
  /\ stopEvent' = (stopEvent \/ stops)
  /\ watcher' = IF watcher = "callback" THEN "look" ELSE "ended"
  /\ UNCHANGED <<isDone, snapshot, shown, stopper>>

\* stop(), and its join.
Stop ==
  /\ watcher # "none" /\ stopper = "out" /\ stopper' = "join" /\ stopEvent' = TRUE
  /\ UNCHANGED <<isDone, watcher, snapshot, shown>>

Joined ==
  /\ stopper = "join" /\ watcher = "ended" /\ stopper' = "true"
  /\ UNCHANGED <<isDone, watcher, snapshot, shown, stopEvent>>

JoinTimesOut ==
  /\ stopper = "join" /\ watcher # "ended" /\ stopper' = "false"
  /\ UNCHANGED <<isDone, watcher, snapshot, shown, stopEvent>>

ProgressStep == LookDone \/ TakeSnapshot \/ Show \/ CallbackEnds(FALSE) \/ Joined
ProgressCall == Subscribe \/ Settle \/ CallbackEnds(TRUE) \/ Stop \/ JoinTimesOut

ProgressTypeOK ==
  /\ isDone \in BOOLEAN /\ stopEvent \in BOOLEAN /\ stopper \in {"out", "join", "true", "false"}
  /\ watcher \in {"none", "look", "take", "last", "show", "showLast", "callback", "lastCallback", "ended"}
  /\ snapshot \in {"none", "running", "final"} /\ shown \in Seq({"running", "final"})

(* A subscription that ends by itself has shown the final snapshot last, and *)
(* no snapshot of the running source comes after one that was final.         *)
FinalShownLast ==
  /\ \A i \in DOMAIN shown : shown[i] = "final" => \A j \in i .. Len(shown) : shown[j] = "final"
  /\ watcher = "ended" /\ ~stopEvent => shown # <<>> /\ shown[Len(shown)] = "final"

\* A subscription whose source is done or that was stopped, still running.
ProgressBusy == (watcher \notin {"none", "ended"} /\ (isDone \/ stopEvent)) \/ stopper = "join"
=============================================================================
