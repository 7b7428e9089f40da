------------------------------ MODULE TreeWalk ------------------------------
(***************************************************************************)
(* walk() and scan_missing_folders(): a producer thread traverses a remote *)
(* tree and feeds a bounded queue, which a generator empties.  A directory *)
(* is the path of child numbers that leads to it from the root <<>>.       *)
(***************************************************************************)
EXTENDS Integers, Sequences, FiniteSets, SequencesExt

CONSTANTS
  Tree,     \* the directories of the source
  Other,    \* those of the destination, for the scan
  Depths,   \* the max_depth a caller may give; -1 is no limit
  QueueSize \* MAX_OUT_QUEUE_SIZE

ASSUME TreeAssumption ==
  /\ <<>> \in Tree /\ IsFiniteSet(Tree) /\ QueueSize \in Nat \ {0} /\ Depths \subseteq Int
  /\ Tree \subseteq Seq(Nat \ {0}) /\ \A d \in Tree \ {<<>>} : Front(d) \in Tree
  /\ <<>> \in Other /\ Other \subseteq Seq(Nat \ {0}) /\ \A d \in Other \ {<<>>} : Front(d) \in Other

VARIABLES
  walk,     \* what was asked for: [how, depth]
  work,     \* what the producer has left to do, in order
  producer, \* the producer thread
  output,   \* what it has to put before it goes on
  outQueue, \* the bounded queue
  consumer, \* the generator
  got       \* history: what it has yielded

walkVars == <<walk, work, producer, output, outQueue, consumer, got>>

Sentinel  == <<0>> \* None in the queue: no directory is named 0
Hows      == {"bfs", "dfs", "scan"}
Producers == {"off", "run", "ending", "failing", "record", "ended"}
Consumers == {"off", "get", "drain", "join", "cut", "returned", "raised", "stopped"}

\* Siblings and cousins in the order of their numbers, a parent first.
Before(p, q) ==
  \/ IsPrefix(p, q)
  \/ \E i \in DOMAIN p \cap DOMAIN q : p[i] < q[i] /\ SubSeq(p, 1, i - 1) = SubSeq(q, 1, i - 1)

\* The order of a walk: breadth first it is by level.
Precedes(how, p, q) ==
  IF how = "bfs" /\ Len(p) # Len(q) THEN Len(p) < Len(q) ELSE p # q /\ Before(p, q)

InOrder(how, S) ==
  [i \in 1 .. Cardinality(S) |-> CHOOSE d \in S : Cardinality({e \in S : Precedes(how, e, d)}) = i - 1]

\* Dir.ls: the directories in up to n levels below d.
Below(d, n)   == {e \in Tree : IsStrictPrefix(d, e) /\ Len(e) <= Len(d) + n}
Listing(d, n) == InOrder("dfs", Below(d, n))

Item(do, d, depth)  == [do |-> do, dir |-> d, depth |-> depth]
Each(do, ds, depth) == [i \in DOMAIN ds |-> Item(do, ds[i], depth)]
Levels(depth, n)    == IF depth > 0 THEN depth - n ELSE depth

WalkInit ==
  /\ walk = [how |-> "bfs", depth |-> -1] /\ work = <<>> /\ producer = "off" /\ output = <<>>
  /\ outQueue = <<>> /\ consumer = "off" /\ got = <<>>

StartWalk(how, depth) ==
  /\ consumer = "off" /\ walk' = [how |-> how, depth |-> depth]
  /\ work' = <<Item(IF how = "scan" THEN "diff" ELSE "visit", <<>>, depth)>>
  /\ producer' = "run" /\ consumer' = "get"
  /\ UNCHANGED <<output, outQueue, got>>

\* Mutant: depth first like breadth first.
VisitAppended(item) ==
  /\ item.do = "visit"
  /\ work' = Tail(work) \o (IF item.depth = 0 THEN <<>>
                            ELSE Each("visit", Listing(item.dir, 1), Levels(item.depth, 1)))
  /\ output' = <<item.dir>>

\* walk_runner_breadth_first and walk_runner_depth_first list a directory, and
\* have its children to do, after all the others or before them.
Visit(item) ==
  /\ item.do = "visit"
  /\ LET next == IF item.depth = 0 THEN <<>> ELSE Each("visit", Listing(item.dir, 1), Levels(item.depth, 1)) IN
     work' = IF walk.how = "bfs" THEN Tail(work) \o next ELSE next \o Tail(work)
  /\ output' = <<item.dir>>

\* _put_missing_subtree: each listing of a walk, depth first, is put.
Subtree(item) ==
  /\ item.do = "subtree"
  /\ LET children == Listing(item.dir, 1) IN
     /\ output' = children
     /\ work' = (IF item.depth = 0 THEN <<>> ELSE Each("subtree", children, Levels(item.depth, 1))) \o Tail(work)

Report(item) ==
  /\ item.do = "report" /\ output' = <<item.dir>> /\ work' = Tail(work)

\* _async_diff_dir_walk_task: both sides listed two levels deep, if the depth
\* allows; what is missing is reported with its subtree, the rest compared.
Diff(item) ==
  /\ item.do = "diff"
  /\ LET levels   == IF item.depth > 1 \/ item.depth = -1 THEN 2 ELSE 1
         depth    == Levels(item.depth, levels)
         deeper   == depth > 0 \/ depth = -1
         entries  == Below(item.dir, levels)
         missing  == InOrder("dfs", entries \ Other)
         matching == InOrder("dfs", entries \cap Other)
         of(e)    == <<Item("report", e, 0)>> \o IF deeper THEN <<Item("subtree", e, depth)>> ELSE <<>>
     IN work' = FlattenSeq([i \in DOMAIN missing |-> of(missing[i])])
                \o (IF deeper THEN Each("diff", matching, depth) ELSE <<>>) \o Tail(work)
  /\ output' = <<>>

Produce ==
  /\ producer = "run" /\ output = <<>> /\ work # <<>>
  /\ LET item == Head(work) IN Visit(item) \/ Subtree(item) \/ Report(item) \/ Diff(item)
  /\ UNCHANGED <<walk, producer, outQueue, consumer, got>>

\* A listing raises.
ListFails ==
  /\ producer = "run" /\ output = <<>> /\ work # <<>> /\ Head(work).do # "report"
  /\ producer' = "failing"
  /\ UNCHANGED <<walk, work, output, outQueue, consumer, got>>

\* put() waits for a place.
Put ==
  /\ producer = "run" /\ output # <<>> /\ Len(outQueue) < QueueSize
  /\ outQueue' = Append(outQueue, Head(output)) /\ output' = Tail(output)
  /\ UNCHANGED <<walk, work, producer, consumer, got>>

\* The runner's finally, in success and in failure; the exception is recorded
\* after it.
PutSentinel ==
  /\ producer \in {"run", "failing"} /\ (producer = "run" => work = <<>> /\ output = <<>>)
  /\ Len(outQueue) < QueueSize /\ outQueue' = Append(outQueue, Sentinel)
  /\ producer' = IF producer = "run" THEN "ended" ELSE "record"
  /\ UNCHANGED <<walk, work, output, consumer, got>>

Record ==
  /\ producer = "record" /\ producer' = "ended"
  /\ UNCHANGED <<walk, work, output, outQueue, consumer, got>>

\* Mutant: the generator ends at the sentinel, without the join.
YieldUnjoined ==
  /\ consumer = "get" /\ outQueue # <<>> /\ outQueue' = Tail(outQueue)
  /\ IF Head(outQueue) = Sentinel
     THEN consumer' = (IF producer = "ended" /\ work # <<>> THEN "raised" ELSE "returned") /\ UNCHANGED got
     ELSE got' = Append(got, Head(outQueue)) /\ UNCHANGED consumer
  /\ UNCHANGED <<walk, work, producer, output>>

Yield ==
  /\ consumer = "get" /\ outQueue # <<>> /\ outQueue' = Tail(outQueue)
  /\ IF Head(outQueue) = Sentinel THEN consumer' = "join" /\ UNCHANGED got
     ELSE got' = Append(got, Head(outQueue)) /\ UNCHANGED consumer
  /\ UNCHANGED <<walk, work, producer, output>>

\* The caller breaks off its loop, or the generator is collected.
BreakOff ==
  /\ consumer = "get" /\ consumer' = "drain"
  /\ UNCHANGED <<walk, work, producer, output, outQueue, got>>

Drain ==
  /\ consumer = "drain" /\ outQueue # <<>> /\ outQueue' = Tail(outQueue)
  /\ consumer' = IF Head(outQueue) = Sentinel THEN "cut" ELSE "drain"
  /\ UNCHANGED <<walk, work, producer, output, got>>

\* worker.join(), and the error raised, unless the generator is being closed;
\* a failed producer is one that has left work undone.
Join ==
  /\ consumer \in {"join", "cut"} /\ producer = "ended"
  /\ consumer' = IF consumer = "cut" THEN "stopped" ELSE IF work # <<>> THEN "raised" ELSE "returned"
  /\ UNCHANGED <<walk, work, producer, output, outQueue, got>>

WalkStep == Produce \/ Put \/ PutSentinel \/ Record \/ Yield \/ Drain \/ Join
WalkCall == BreakOff \/ \E how \in Hows, depth \in Depths : StartWalk(how, depth)

WalkTypeOK ==
  /\ walk \in [how : Hows, depth : Depths \cup {-1}]
  /\ work \in Seq([do : {"visit", "subtree", "report", "diff"}, dir : Tree, depth : Int])
  /\ producer \in Producers /\ consumer \in Consumers /\ output \in Seq(Tree)
  /\ outQueue \in Seq(Tree \cup {Sentinel}) /\ Len(outQueue) <= QueueSize /\ got \in Seq(Tree)

\* What a walk is to yield: the directories within its depth in one sequence.
Within(depth)        == {d \in Tree : depth < 0 \/ Len(d) <= depth}
Expected(how, depth) == InOrder(how, Within(depth))

(* A walk yields the directories in their order, a prefix of them if it is   *)
(* broken off or fails, and all of them if it ends: a failed listing never   *)
(* passes for the end of the tree.                                           *)
WalkIsWhole ==
  walk.how # "scan" /\ consumer # "off" =>
    /\ IsPrefix(got, Expected(walk.how, walk.depth))
    /\ consumer = "returned" => got = Expected(walk.how, walk.depth)

(* A scan without a limit yields the missing directories, and all of them if *)
(* it ends, in whatever order and however often.                             *)
ScanFindsMissing ==
  walk.how = "scan" /\ walk.depth = -1 =>
    /\ Range(got) \subseteq Tree \ Other
    /\ consumer = "returned" => Range(got) = Tree \ Other

(* What the documentation says of a scan: a folder found missing is yielded  *)
(* once.                                                                     *)
YieldedOnce == walk.how = "scan" => IsInjective(got)

\* A walk under way.
WalkBusy == consumer \in {"get", "drain", "join", "cut"} \/ producer \in Producers \ {"off", "ended"}
=============================================================================
