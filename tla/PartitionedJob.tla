---------------------------- MODULE PartitionedJob ----------------------------
(***************************************************************************)
(* partitioned_job.py and the operations of transfer_ops_embedded.py that  *)
(* split a list of files into several jobs: the blocking copy_files() and  *)
(* delete_files(rmdirs=True), and the handle start_copy_files() and        *)
(* start_delete_files() give.                                              *)
(*                                                                         *)
(* The jobs are JobHandles and are only known by what JobPromise says of   *)
(* them, which JobMonitor implements.  The same promise is then made for   *)
(* the whole: see KeepsPromise.                                            *)
(***************************************************************************)
EXTENDS Integers, FiniteSets

CONSTANTS
  N,         \* the number of partitions
  BatchSizes,\* the values of batch_size (max_partition_workers)
  Clients,   \* application threads calling a PartitionedJobHandle
  None,      \* Python's None
  Modes,     \* the operations an instance runs, out of Operations
  Allowed    \* the misfortunes of an instance, out of Features

Operations == {"handle", "copy", "rmdirs"}

\*   refuse   - start_job() raising;
\*   vanish   - rclone no longer answering for a job;
\*   shutdown - _JobMonitor.shutdown() asking for the jobs' cancellation.
Features == {"refuse", "vanish", "shutdown"}

ASSUME PartitionedAssumption ==
  /\ N \in Nat \ {0} /\ BatchSizes \subseteq Nat \ {0}
  /\ Modes \subseteq Operations /\ Allowed \subseteq Features
  /\ None \notin {"succeeded", "failed", "cancelled", "expired", "mismatch", "closed"}

VARIABLES
  mode, size, \* the operation, and its batch_size
  main,       \* the thread inside it
  next,       \* partitions started
  cur,        \* the partition whose result it waits for
  lists,      \* the directory of the _filter.FilesFrom lists
  answer,     \* the aggregate result given, None before
  pc, idx,    \* the callers of the handle, and the child they are at
  truth, asked, vanished, told \* the children, as JobPromise has them

childVars == <<truth, asked, vanished, told>>
mainVars  == <<mode, size, main, next, cur>>
callVars  == <<pc, idx>>
vars == <<mainVars, lists, answer, callVars, childVars>>

Parts    == 1 .. N
Steps    == {"work", "rmdirs"}
Children == Parts \X Steps
Work(p)   == <<p, "work">>
Rmdirs(p) == <<p, "rmdirs">>

Child == INSTANCE JobPromise WITH Jobs <- Children

Results == {"succeeded", "failed", "cancelled"}
Lost    == {"expired", "mismatch", "closed"}
Begun   == {c \in Children : truth[c] # "none"}

\* Mutant: any cancelled partition makes the whole a cancellation.
AggregateAnyCancelled ==
  IF \A c \in Begun : told[c] = "succeeded" THEN "succeeded"
  ELSE IF \E c \in Begun : told[c] = "cancelled" THEN "cancelled"
  ELSE "failed"

\* aggregate_results(): ok when all are, cancelled when every failure is.
Aggregate ==
  IF \A c \in Begun : told[c] = "succeeded" THEN "succeeded"
  ELSE IF \E c \in Begun : told[c] = "failed" THEN "failed"
  ELSE "cancelled"

Init ==
  /\ mode \in Modes
  /\ size \in IF mode = "handle" THEN {N} ELSE BatchSizes
  /\ main = "start" /\ next = 0 /\ cur = 1
  /\ lists = "there" /\ answer = None
  /\ pc = [d \in Clients |-> "off"] /\ idx = [d \in Clients |-> 1]
  /\ Child!Init

-----------------------------------------------------------------------------
(* Starting the partitions, and the blocking operations *)

\* Mutant: the next batch does not wait for the one before.
StartPartitionAtOnce ==
  /\ main = "start"
  /\ Child!Start(Work(next + 1))
  /\ next' = next + 1
  /\ main' = IF next' < N THEN "start" ELSE IF mode = "handle" THEN "returned" ELSE "collect"
  /\ UNCHANGED <<mode, size, cur, lists, answer, callVars>>

\* One partition after another, up to the end of the batch; a handle has none.
StartPartition ==
  /\ main = "start"
  /\ Child!Start(Work(next + 1))
  /\ next' = next + 1
  /\ main' = IF next' < N /\ (mode = "handle" \/ next' % size # 0) THEN "start"
             ELSE IF mode = "handle" THEN "returned" ELSE "collect"
  /\ UNCHANGED <<mode, size, cur, lists, answer, callVars>>

\* An exception of the operation: a TemporaryDirectory goes with it, what
\* mkdtemp() made stays.
Raises ==
  /\ main' = "raised"
  /\ lists' = IF mode = "handle" THEN lists ELSE "gone"
  /\ UNCHANGED <<mode, size, next, cur, answer, callVars>>

StartRefused ==
  /\ "refuse" \in Allowed /\ main \in {"start", "tidy"}
  /\ Raises /\ UNCHANGED childVars

\* After the result of partition cur: the next result, the next batch, or the
\* aggregate of all.
Collected ==
  /\ IF cur < next THEN main' = "collect" /\ UNCHANGED <<lists, answer>>
     ELSE IF next < N THEN main' = "start" /\ UNCHANGED <<lists, answer>>
     ELSE main' = "done" /\ lists' = "gone" /\ answer' = Aggregate
  /\ cur' = IF cur < N THEN cur + 1 ELSE cur
  /\ UNCHANGED <<mode, size, next, callVars, childVars>>

CollectWork ==
  /\ main = "collect" /\ told[Work(cur)] \in Results
  /\ IF mode = "rmdirs" /\ told[Work(cur)] = "succeeded"
     THEN main' = "tidy"
          /\ UNCHANGED <<mode, size, next, cur, lists, answer, callVars, childVars>>
     ELSE Collected

\* delete_files(rmdirs=True) follows a successful deletion by operations/rmdirs.
StartRmdirs ==
  /\ main = "tidy"
  /\ Child!Start(Rmdirs(cur))
  /\ main' = "tidying"
  /\ UNCHANGED <<mode, size, next, cur, lists, answer, callVars>>

CollectRmdirs == main = "tidying" /\ told[Rmdirs(cur)] \in Results /\ Collected

\* wait() of a job nothing is known of raises even with check=False.
CollectLost ==
  /\ \/ main = "collect" /\ told[Work(cur)] \in Lost
     \/ main = "tidying" /\ told[Rmdirs(cur)] \in Lost
  /\ Raises /\ UNCHANGED childVars

Operate == \/ StartPartition \/ StartRefused \/ CollectWork \/ StartRmdirs
           \/ CollectRmdirs \/ CollectLost

-----------------------------------------------------------------------------
(* PartitionedJobHandle: wait(), wait(timeout), cancel(), close() *)

Goto(d, l, i) == pc' = [pc EXCEPT ![d] = l] /\ idx' = [idx EXCEPT ![d] = i]

Call(d) ==
  /\ main = "returned" /\ pc[d] = "off"
  /\ \E l \in {"wait", "timed", "cancel", "closing"} : Goto(d, l, 1)
  /\ UNCHANGED <<mainVars, lists, answer, childVars>>

\* Mutant: the first accepted request is enough.
CancelFirst(d) ==
  /\ pc[d] \in {"cancel", "closing"}
  /\ IF told[Work(idx[d])] = None THEN Child!Ask(Work(idx[d])) ELSE UNCHANGED childVars
  /\ IF idx[d] < N /\ told[Work(idx[d])] # None THEN Goto(d, pc[d], idx[d] + 1)
     ELSE Goto(d, IF pc[d] = "cancel" THEN "off" ELSE "timed", 1)
  /\ UNCHANGED <<mainVars, lists, answer>>

\* cancel() asks each child in turn; close() then waits for a while.
CancelOne(d) ==
  /\ pc[d] \in {"cancel", "closing"}
  /\ IF told[Work(idx[d])] = None THEN Child!Ask(Work(idx[d])) ELSE UNCHANGED childVars
  /\ IF idx[d] < N THEN Goto(d, pc[d], idx[d] + 1)
     ELSE Goto(d, IF pc[d] = "cancel" THEN "off" ELSE "timed", 1)
  /\ UNCHANGED <<mainVars, lists, answer>>

\* Mutant: the cleanup is due when the first child is through.
WaitOneEager(d) ==
  /\ pc[d] \in {"wait", "timed"} /\ told[Work(idx[d])] \in Results
  /\ lists' = "gone"
  /\ IF idx[d] < N
     THEN Goto(d, pc[d], idx[d] + 1) /\ UNCHANGED answer
     ELSE Goto(d, "off", 1) /\ answer' = Aggregate
  /\ UNCHANGED <<mainVars, childVars>>

\* wait() takes one result after another; with the last one it folds them and
\* runs the cleanup.
WaitOne(d) ==
  /\ pc[d] \in {"wait", "timed"} /\ told[Work(idx[d])] \in Results
  /\ IF idx[d] < N
     THEN Goto(d, pc[d], idx[d] + 1) /\ UNCHANGED <<lists, answer>>
     ELSE Goto(d, "off", 1) /\ lists' = "gone" /\ answer' = Aggregate
  /\ UNCHANGED <<mainVars, childVars>>

WaitLost(d) ==
  /\ pc[d] \in {"wait", "timed"} /\ told[Work(idx[d])] \in Lost
  /\ Goto(d, "off", 1)
  /\ UNCHANGED <<mainVars, lists, answer, childVars>>

WaitTimesOut(d) ==
  /\ pc[d] = "timed" /\ told[Work(idx[d])] = None
  /\ Goto(d, "off", 1)
  /\ UNCHANGED <<mainVars, lists, answer, childVars>>

Continue(d) == CancelOne(d) \/ WaitOne(d) \/ WaitLost(d) \/ WaitTimesOut(d)

-----------------------------------------------------------------------------
(* The children, by their promise *)

Around(A) == A /\ UNCHANGED <<mainVars, lists, answer, callVars>>

End(c)     == Around(Child!End(c))
Tell(c)    == Around(Child!Tell(c))
Shutdown(c) == "shutdown" \in Allowed /\ Around(Child!Ask(c))
Vanish     == "vanish" \in Allowed /\ Around(Child!Vanish)

Next ==
  \/ Operate
  \/ \E d \in Clients : Call(d) \/ Continue(d)
  \/ \E c \in Children : End(c) \/ Tell(c) \/ Shutdown(c)
  \/ Vanish

Spec == Init /\ [][Next]_vars

\* Threads run on.  Of the children, what JobMonitor checks of itself: an end
\* is reported, and a job that is asked to stop ends.
FairSpec ==
  /\ Spec
  /\ WF_vars(Operate) /\ \A d \in Clients : WF_vars(Continue(d))
  /\ \A c \in Children : WF_vars(Tell(c)) /\ WF_vars(asked[c] /\ End(c))
-----------------------------------------------------------------------------
(* Properties *)

\* Every variable keeps its type.
TypeOK ==
  /\ mode \in Modes /\ size \in Nat \ {0}
  /\ main \in {"start", "collect", "tidy", "tidying", "returned", "raised", "done"}
  /\ next \in 0 .. N /\ cur \in Parts
  /\ lists \in {"there", "gone"} /\ answer \in Results \cup {None}
  /\ pc \in [Clients -> {"off", "wait", "timed", "cancel", "closing"}]
  /\ idx \in [Clients -> Parts]
  /\ Child!PromiseTypeOK

\* What the partitions have come to together: rmdirs belongs to the whole.
Ended(c) == truth[c] \notin {"none", "running"}
Complete ==
  \A p \in Parts :
    /\ Ended(Work(p))
    /\ mode = "rmdirs" /\ truth[Work(p)] = "succeeded" => Ended(Rmdirs(p))
WholeTruth ==
  IF Begun = {} THEN "none"
  ELSE IF ~Complete THEN "running"
  ELSE IF \A c \in Begun : truth[c] = "succeeded" THEN "succeeded"
  ELSE IF \E c \in Begun : truth[c] = "skewed" THEN "skewed"
  ELSE IF \E c \in Begun : truth[c] = "failed" THEN "failed"
  ELSE "interrupted"

\* The partitioned operation keeps the promise of a single job: one verdict,
\* however many callers wait and however often, given when every partition has
\* ended and true of them all, and CANCELLED only when it was asked for.
Whole == INSTANCE JobPromise WITH
  Jobs     <- {"whole"},
  truth    <- [w \in {"whole"} |-> WholeTruth],
  asked    <- [w \in {"whole"} |-> \E c \in Children : asked[c]],
  vanished <- {w \in {"whole"} : vanished # {}},
  told     <- [w \in {"whole"} |-> answer]
KeepsPromise == Whole!Spec

\* No job loses its FilesFrom list under it: "a still-running sibling may
\* still need whatever cleanup would remove".  (Unless the blocking operation
\* raised, see the README.)
ListsOutlastJobs ==
  lists = "gone" /\ main # "raised" => \A c \in Children : truth[c] # "running"

\* max_partition_workers bounds the jobs "started but not yet waited-on".
WithinBatch ==
  mode # "handle" => Cardinality({c \in Begun : told[c] = None}) <= size

\* close() or cancel() by one thread lets another out of its wait(), unless
\* the monitor cannot settle a child at all.
Cancelling == \E d \in Clients : pc[d] \in {"cancel", "closing"}
CancelEndsWaits ==
  \A d \in Clients :
    Cancelling /\ pc[d] = "wait" ~> (pc[d] = "off" \/ \E c \in Children : truth[c] = "skewed")
-----------------------------------------------------------------------------
(* The inductive invariant behind the theorems of PartitionedJob_proofs *)

\* What a child told is true of it.
ChildrenTrue == \A c \in Children : told[c] # None => told[c] \in Child!Fair(c)

\* Which children there are.
Started ==
  /\ \A p \in Parts : truth[Work(p)] # "none" <=> p <= next
  /\ \A p \in Parts : truth[Rmdirs(p)] # "none" =>
       /\ mode = "rmdirs" /\ told[Work(p)] = "succeeded"
       /\ p = cur => main \in {"tidying", "raised", "done"}
       /\ p <= cur
  /\ \A c \in Children : asked[c] => truth[c] # "none"
  /\ vanished \subseteq Begun

\* Partition p is through: nothing more is to be heard of it.
Through(p) ==
  /\ told[Work(p)] \in Results
  /\ mode = "rmdirs" /\ told[Work(p)] = "succeeded" => told[Rmdirs(p)] \in Results

\* How far the operation has come.
Progress ==
  /\ mode = "handle" => main \in {"start", "returned", "raised"}
  /\ mode # "handle" => \A p \in Parts : p < cur => Through(p)
  /\ mode # "rmdirs" => main \notin {"tidy", "tidying"}
  /\ main = "start" => next < N /\ cur <= next + 1
  /\ main \in {"collect", "tidy", "tidying"} => cur <= next
  /\ main = "tidy" => told[Work(cur)] = "succeeded"
  /\ main = "tidying" => truth[Rmdirs(cur)] # "none"
  /\ main \in {"returned", "done"} => next = N
  /\ main = "returned" => mode = "handle"
  /\ main = "done" => \A p \in Parts : Through(p)

\* How far each call of the handle has come.
Calls ==
  /\ \A d \in Clients : pc[d] # "off" => main = "returned"
  /\ \A d \in Clients : pc[d] \in {"wait", "timed"} =>
       \A p \in Parts : p < idx[d] => told[Work(p)] \in Results

\* An answer is the fold of all the results.
AnswerRight ==
  /\ answer # None => (\A p \in Parts : Through(p)) /\ answer = Aggregate
  /\ lists = "gone" /\ main # "raised" => \A p \in Parts : Through(p)

Inv == TypeOK /\ ChildrenTrue /\ Started /\ Progress /\ Calls /\ AnswerRight
=============================================================================
