------------------------------- MODULE FsWalk -------------------------------
(***************************************************************************)
(* The walk of an FSPath on a thread of its own (FSWalkThread), which      *)
(* lists up to Backlog directories at once on a shared pool, takes their   *)
(* results in the order of submission, and feeds a bounded queue that the  *)
(* owner of the with block reads and close() drains.                       *)
(***************************************************************************)
EXTENDS TreeWalk

CONSTANTS
  Backlog,   \* _FS_WALK_MAX_OUTSTANDING_LISTINGS
  FsQueueSize \* max_backlog of the FSWalkThread

ASSUME FsAssumption == Backlog \in Nat \ {0} /\ FsQueueSize \in Nat \ {0}

VARIABLES
  pending,  \* discovered, not submitted
  flight,   \* submitted: [dir, is], the head first
  fsWorker, \* the thread: in the walk, or in put()
  holding,  \* the listing it has to put
  stop,     \* stop_event
  fsQueue,  \* result_queue
  reader,   \* the owner: in get_results() or in close()
  fsGot,    \* history: what it was given
  skipped   \* history: directories whose listing failed

fsVars == <<pending, flight, fsWorker, holding, stop, fsQueue, reader, fsGot, skipped>>

FsInit ==
  /\ pending = <<>> /\ flight = <<>> /\ fsWorker = "off" /\ holding = <<>> /\ stop = FALSE
  /\ fsQueue = <<>> /\ reader = "off" /\ fsGot = <<>> /\ skipped = {}

\* FSWalker.__enter__: the thread is started.
Enter ==
  /\ reader = "off" /\ reader' = "read" /\ fsWorker' = "walk" /\ pending' = <<<<>>>>
  /\ UNCHANGED <<flight, holding, stop, fsQueue, fsGot, skipped>>

\* Mutant: everything discovered is submitted at once.
CanSubmitAll == pending # <<>>

\* _submit_pending, one submission: the walk does nothing else while it can.
CanSubmit == pending # <<>> /\ Len(flight) < Backlog

Submitting ==
  /\ fsWorker = "walk" /\ CanSubmit
  /\ flight' = Append(flight, [dir |-> Head(pending), is |-> "listing"]) /\ pending' = Tail(pending)
  /\ UNCHANGED <<fsWorker, holding, stop, fsQueue, reader, fsGot, skipped>>

\* _list_dir on the pool: an error skips the directory.
Listed(i, how) ==
  /\ i \in DOMAIN flight /\ flight[i].is = "listing"
  /\ flight' = [flight EXCEPT ![i].is = how]
  /\ skipped' = IF how = "skip" THEN skipped \cup {flight[i].dir} ELSE skipped
  /\ UNCHANGED <<pending, fsWorker, holding, stop, fsQueue, reader, fsGot>>

\* Mutant: whichever listing is ready first is taken.
TakeAnyListing ==
  /\ fsWorker = "walk" /\ ~CanSubmit /\ holding = <<>>
  /\ \E i \in DOMAIN flight :
       /\ flight[i].is # "listing" /\ flight' = RemoveAt(flight, i)
       /\ IF flight[i].is = "skip" THEN UNCHANGED <<pending, holding>>
          ELSE pending' = pending \o Listing(flight[i].dir, 1) /\ holding' = <<flight[i].dir>>
  /\ UNCHANGED <<fsWorker, stop, fsQueue, reader, fsGot, skipped>>

\* result() of the head of the FIFO; its children wait behind all others.
TakeHeadListing ==
  /\ fsWorker = "walk" /\ ~CanSubmit /\ holding = <<>>
  /\ flight # <<>> /\ Head(flight).is # "listing" /\ flight' = Tail(flight)
  /\ IF Head(flight).is = "skip" THEN UNCHANGED <<pending, holding>>
     ELSE /\ pending' = pending \o Listing(Head(flight).dir, 1)
          /\ holding' = <<Head(flight).dir>>
  /\ UNCHANGED <<fsWorker, stop, fsQueue, reader, fsGot, skipped>>

\* worker(): the listing yielded is looked at with the stop event, and put.
Yielded ==
  /\ fsWorker = "walk" /\ ~CanSubmit /\ holding # <<>>
  /\ fsWorker' = IF stop THEN "none" ELSE "put"
  /\ UNCHANGED <<pending, flight, holding, stop, fsQueue, reader, fsGot, skipped>>

FsPut ==
  /\ fsWorker = "put" /\ Len(fsQueue) < FsQueueSize
  /\ fsQueue' = Append(fsQueue, holding[1]) /\ holding' = <<>> /\ fsWorker' = "walk"
  /\ UNCHANGED <<pending, flight, stop, reader, fsGot, skipped>>

\* The last put, of None, after the walk or the stop.
FsPutNone ==
  /\ \/ fsWorker = "none"
     \/ fsWorker = "walk" /\ pending = <<>> /\ flight = <<>> /\ holding = <<>>
  /\ Len(fsQueue) < FsQueueSize
  /\ fsQueue' = Append(fsQueue, Sentinel) /\ fsWorker' = "dead"
  /\ UNCHANGED <<pending, flight, holding, stop, reader, fsGot, skipped>>

\* get_results().
Read ==
  /\ reader = "read" /\ fsQueue # <<>> /\ fsQueue' = Tail(fsQueue)
  /\ IF Head(fsQueue) = Sentinel THEN reader' = "end" /\ UNCHANGED fsGot
     ELSE fsGot' = Append(fsGot, Head(fsQueue)) /\ UNCHANGED reader
  /\ UNCHANGED <<pending, flight, fsWorker, holding, stop, skipped>>

\* The with block is left, at the end of the results or before.
Exit ==
  /\ reader \in {"read", "end"} /\ reader' = (IF reader = "end" THEN "drainAll" ELSE "drainCut") /\ stop' = TRUE
  /\ UNCHANGED <<pending, flight, fsWorker, holding, fsQueue, fsGot, skipped>>

\* Mutant: close() joins the thread without emptying the queue.
DrainNothing ==
  /\ reader \in {"drainAll", "drainCut"} /\ fsWorker = "dead"
  /\ reader' = (IF reader = "drainAll" THEN "all" ELSE "cut") /\ UNCHANGED fsQueue
  /\ UNCHANGED <<pending, flight, fsWorker, holding, stop, fsGot, skipped>>

\* close() empties the queue for as long as the thread lives.
FsDrain ==
  /\ reader \in {"drainAll", "drainCut"}
  /\ IF fsWorker = "dead" THEN reader' = (IF reader = "drainAll" THEN "all" ELSE "cut") /\ UNCHANGED fsQueue
     ELSE fsQueue # <<>> /\ fsQueue' = Tail(fsQueue) /\ UNCHANGED reader
  /\ UNCHANGED <<pending, flight, fsWorker, holding, stop, fsGot, skipped>>

FsStep ==
  \/ Submitting \/ TakeHeadListing \/ Yielded \/ FsPut \/ FsPutNone \/ Read \/ FsDrain
  \/ (reader = "end" /\ Exit)
  \/ \E i \in DOMAIN flight : Listed(i, "done")
FsCall  == Enter \/ (reader = "read" /\ Exit)
FsFault == \E i \in DOMAIN flight : Listed(i, "skip")

FsTypeOK ==
  /\ pending \in Seq(Tree) /\ flight \in Seq([dir : Tree, is : {"listing", "done", "skip"}])
  /\ Len(flight) <= Backlog /\ fsWorker \in {"off", "walk", "put", "none", "dead"}
  /\ holding \in Seq(Tree) /\ Len(holding) <= 1 /\ stop \in BOOLEAN
  /\ fsQueue \in Seq(Tree \cup {Sentinel}) /\ Len(fsQueue) <= FsQueueSize
  /\ reader \in {"off", "read", "end", "drainAll", "drainCut", "all", "cut"}
  /\ fsGot \in Seq(Tree) /\ skipped \subseteq Tree

(* The results come level by level in their order, a parent before its       *)
(* children however fast they are listed; and a walk read to its end has     *)
(* given every directory but those below, or at, a listing that failed.      *)
FsWalkIsOrdered ==
  /\ \A i, j \in DOMAIN fsGot : i < j => Precedes("bfs", fsGot[i], fsGot[j])
  /\ reader \in {"end", "drainAll", "all"} =>
       Range(fsGot) = {d \in Tree : \A e \in skipped : ~IsPrefix(e, d)}

FsBusy == reader \notin {"off", "all", "cut"} \/ fsWorker \notin {"off", "dead"}
=============================================================================
