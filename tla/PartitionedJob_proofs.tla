------------------------ MODULE PartitionedJob_proofs ------------------------
(***************************************************************************)
(* Theorems about PartitionedJob, for any number of partitions and callers *)
(* and any size of a batch.                                                *)
(*                                                                         *)
(* What a child has told is final (ChildFinal): so what the operation, or  *)
(* a wait(), has collected on its way stays collected, and the answer it   *)
(* folds at the end of the way is the fold of all the children.            *)
(***************************************************************************)
EXTENDS PartitionedJob, FiniteSetTheorems, TLAPS

LEMMA Constants == N \in Nat \ {0} /\ Modes \subseteq Operations /\ BatchSizes \subseteq Nat \ {0}
  BY PartitionedAssumption DEF PartitionedAssumption

LEMMA NoneIsNoVerdict == None \notin Results \cup Lost
  BY PartitionedAssumption DEF PartitionedAssumption, Results, Lost

\* The children step by their promise.
ChildStep == \/ UNCHANGED childVars
             \/ \E c \in Children : Child!Start(c) \/ Child!End(c) \/ Child!Ask(c) \/ Child!Tell(c)
             \/ Child!Vanish

LEMMA WorkIsChild == \A p \in Parts : Work(p) \in Children /\ Rmdirs(p) \in Children
  BY DEF Work, Rmdirs, Children, Steps

LEMMA StepsOfChildren ==
  ASSUME TypeOK, Progress, [Next]_vars
  PROVE  ChildStep
<1> USE Constants, WorkIsChild DEF ChildStep, TypeOK, Parts
<1>1. CASE StartPartition
  <2>1. next + 1 \in Parts
    BY <1>1 DEF StartPartition, Progress
  <2>2. Child!Start(Work(next + 1))
    BY <1>1 DEF StartPartition
  <2> QED  BY <2>1, <2>2
<1>2. CASE StartRefused \/ CollectWork \/ CollectRmdirs \/ CollectLost
  BY <1>2 DEF StartRefused, CollectWork, CollectRmdirs, CollectLost, Collected
<1>3. CASE StartRmdirs
  BY <1>3 DEF StartRmdirs
<1>4. ASSUME NEW d \in Clients, Call(d) \/ WaitOne(d) \/ WaitLost(d) \/ WaitTimesOut(d) PROVE ChildStep
  BY <1>4 DEF Call, WaitOne, WaitLost, WaitTimesOut
<1>5. ASSUME NEW d \in Clients, CancelOne(d) PROVE ChildStep
  BY <1>5 DEF CancelOne
<1>6. ASSUME NEW c \in Children, End(c) \/ Tell(c) \/ Shutdown(c) PROVE ChildStep
  BY <1>6 DEF End, Tell, Shutdown, Around
<1>7. CASE Vanish
  BY <1>7 DEF Vanish, Around
<1>8. CASE UNCHANGED vars
  BY <1>8 DEF vars
<1> QED
  BY <1>1, <1>2, <1>3, <1>4, <1>5, <1>6, <1>7, <1>8 DEF Next, Operate, Continue

\* What a child step cannot undo.
Final ==
  /\ \A c \in Children : told[c] # None => told'[c] = told[c]
  /\ \A c \in Children : truth[c] \notin {"none", "running"} => truth'[c] = truth[c]
  /\ \A c \in Children : truth[c] # "none" => truth'[c] # "none"
  /\ \A c \in Children : asked[c] => asked'[c]
  /\ vanished \subseteq vanished'

LEMMA ChildFinal ==
  ASSUME TypeOK, ChildStep
  PROVE  Final
<1> USE DEF TypeOK, Child!PromiseTypeOK, Final
<1>1. CASE UNCHANGED childVars
  BY <1>1 DEF childVars
<1>2. ASSUME NEW c \in Children, Child!Start(c) PROVE Final
  BY <1>2 DEF Child!Start
<1>3. ASSUME NEW c \in Children, Child!End(c) PROVE Final
  BY <1>3 DEF Child!End, Child!Truths
<1>4. ASSUME NEW c \in Children, Child!Ask(c) PROVE Final
  BY <1>4 DEF Child!Ask
<1>5. ASSUME NEW c \in Children, Child!Tell(c) PROVE Final
  BY <1>5 DEF Child!Tell
<1>6. CASE Child!Vanish
  BY <1>6 DEF Child!Vanish
<1> QED  BY <1>1, <1>2, <1>3, <1>4, <1>5, <1>6 DEF ChildStep

LEMMA ChildType ==
  ASSUME TypeOK, ChildStep
  PROVE  Child!PromiseTypeOK'
<1> USE DEF TypeOK, Child!PromiseTypeOK
<1>1. CASE UNCHANGED childVars
  BY <1>1 DEF childVars
<1>2. ASSUME NEW c \in Children, Child!Start(c) PROVE Child!PromiseTypeOK'
  BY <1>2 DEF Child!Start, Child!Truths
<1>3. ASSUME NEW c \in Children, Child!End(c) PROVE Child!PromiseTypeOK'
  BY <1>3 DEF Child!End, Child!Truths
<1>4. ASSUME NEW c \in Children, Child!Ask(c) PROVE Child!PromiseTypeOK'
  BY <1>4 DEF Child!Ask
<1>5. ASSUME NEW c \in Children, Child!Tell(c) PROVE Child!PromiseTypeOK'
  BY <1>5 DEF Child!Tell, Child!Fair
<1>6. CASE Child!Vanish
  BY <1>6 DEF Child!Vanish
<1> QED  BY <1>1, <1>2, <1>3, <1>4, <1>5, <1>6 DEF ChildStep

\* A verdict once true of a child stays true of it.
LEMMA ChildrenTrueStep ==
  ASSUME TypeOK, ChildrenTrue, ChildStep
  PROVE  ChildrenTrue'
<1>1. Final
  BY ChildFinal
<1>2. ASSUME NEW c \in Children, told[c] # None PROVE told'[c] \in Child!Fair(c)'
  <2>1. told'[c] = told[c] /\ told[c] \in Child!Fair(c)
    BY <1>1, <1>2 DEF Final, ChildrenTrue
  <2> QED  BY <1>1, <2>1 DEF Final, Child!Fair
<1>3. ASSUME NEW c \in Children, told[c] = None, told'[c] # None PROVE told'[c] \in Child!Fair(c)'
  <2>1. PICK d \in Children : Child!Tell(d)
    BY <1>3 DEF ChildStep, childVars, Child!Start, Child!End, Child!Ask, Child!Vanish
  <2>2. c = d
    BY <1>3, <2>1 DEF Child!Tell, TypeOK, Child!PromiseTypeOK
  <2>3. told'[c] \in Child!Fair(c)
    BY <2>1, <2>2 DEF Child!Tell, TypeOK, Child!PromiseTypeOK
  <2> QED  BY <2>1, <2>3 DEF Child!Tell, Child!Fair
<1> QED  BY <1>2, <1>3 DEF ChildrenTrue

LEMMA TypeStep ==
  ASSUME TypeOK, Progress, [Next]_vars
  PROVE  TypeOK'
<1> DEFINE MainType == /\ mode \in Modes /\ size \in Nat \ {0}
                       /\ main \in {"start", "collect", "tidy", "tidying", "returned", "raised", "done"}
                       /\ next \in 0 .. N /\ cur \in Parts
           CallType == /\ pc \in [Clients -> {"off", "wait", "timed", "cancel", "closing"}]
                       /\ idx \in [Clients -> Parts]
           AnswerType == lists \in {"there", "gone"} /\ answer \in Results \cup {None}
           Types == MainType /\ CallType /\ AnswerType
<1>1. Child!PromiseTypeOK'
  BY StepsOfChildren, ChildType
<1>2. Types
  BY DEF TypeOK
<1>3. Aggregate \in Results
  BY DEF Aggregate, Results
<1>4. main = "start" => next < N
  BY DEF Progress
<1> SUFFICES Types'
  BY <1>1 DEF TypeOK
<1> USE <1>2, <1>3, <1>4, Constants DEF Parts, mainVars, callVars
<1>5. CASE StartPartition
  BY <1>5 DEF StartPartition
<1>6. CASE StartRefused \/ CollectLost
  BY <1>6 DEF StartRefused, CollectLost, Raises
<1>7. CASE CollectWork \/ CollectRmdirs
  BY <1>7 DEF CollectWork, CollectRmdirs, Collected
<1>8. CASE StartRmdirs
  BY <1>8 DEF StartRmdirs
<1>10. ASSUME NEW d \in Clients, Call(d) PROVE Types'
  BY <1>10 DEF Call, Goto
<1>11. ASSUME NEW d \in Clients, CancelOne(d) PROVE Types'
  BY <1>11 DEF CancelOne, Goto
<1>12. ASSUME NEW d \in Clients, WaitOne(d) PROVE Types'
  BY <1>12 DEF WaitOne, Goto
<1>13. ASSUME NEW d \in Clients, WaitLost(d) \/ WaitTimesOut(d) PROVE Types'
  BY <1>13 DEF WaitLost, WaitTimesOut, Goto
<1>14. ASSUME NEW c \in Children, End(c) \/ Tell(c) \/ Shutdown(c) PROVE Types'
  BY <1>14 DEF End, Tell, Shutdown, Around
<1>15. CASE Vanish
  BY <1>15 DEF Vanish, Around
<1>16. CASE UNCHANGED vars
  BY <1>16 DEF vars
<1> QED
  BY <1>5, <1>6, <1>7, <1>8, <1>10, <1>11, <1>12, <1>13, <1>14, <1>15, <1>16
     DEF Next, Operate, Continue

\* The children are the two steps of each partition, all of them different.
LEMMA Kinds ==
  /\ \A c \in Children : \E p \in Parts : c = Work(p) \/ c = Rmdirs(p)
  /\ \A p, q \in Parts : Work(p) # Rmdirs(q) /\ (Work(p) = Work(q) => p = q)
                                             /\ (Rmdirs(p) = Rmdirs(q) => p = q)
  BY DEF Work, Rmdirs, Children, Steps

\* The steps that start no child.
NoStart == \A c \in Children : truth'[c] = "none" <=> truth[c] = "none"

LEMMA QuietSteps ==
  ASSUME TypeOK, Progress, [Next]_vars, ~StartPartition, ~StartRmdirs
  PROVE  NoStart
<1> USE WorkIsChild DEF TypeOK, Child!PromiseTypeOK, Child!Truths, NoStart, Parts
<1>1. CASE StartRefused \/ CollectWork \/ CollectRmdirs \/ CollectLost
  BY <1>1 DEF StartRefused, CollectWork, CollectRmdirs, CollectLost, Collected, childVars
<1>2. ASSUME NEW d \in Clients, Call(d) \/ WaitOne(d) \/ WaitLost(d) \/ WaitTimesOut(d) PROVE NoStart
  BY <1>2 DEF Call, WaitOne, WaitLost, WaitTimesOut, childVars
<1>3. ASSUME NEW d \in Clients, CancelOne(d) PROVE NoStart
  BY <1>3 DEF CancelOne, Child!Ask, childVars
<1>4. ASSUME NEW c \in Children, End(c) PROVE NoStart
  BY <1>4 DEF End, Around, Child!End
<1>5. ASSUME NEW c \in Children, Tell(c) \/ Shutdown(c) PROVE NoStart
  BY <1>5 DEF Tell, Shutdown, Around, Child!Tell, Child!Ask
<1>6. CASE Vanish
  BY <1>6 DEF Vanish, Around, Child!Vanish
<1>7. CASE UNCHANGED vars
  BY <1>7 DEF vars, childVars
<1> QED
  BY <1>1, <1>2, <1>3, <1>4, <1>5, <1>6, <1>7 DEF Next, Operate, Continue

\* The steps of main: what every other step leaves alone.
LEMMA OnlyOperateMoves ==
  ASSUME [Next]_vars, ~Operate
  PROVE  UNCHANGED mainVars
<1> USE DEF mainVars
<1>1. ASSUME NEW d \in Clients, Call(d) \/ Continue(d) PROVE UNCHANGED mainVars
  BY <1>1 DEF Call, Continue, CancelOne, WaitOne, WaitLost, WaitTimesOut
<1>2. ASSUME NEW c \in Children, End(c) \/ Tell(c) \/ Shutdown(c) PROVE UNCHANGED mainVars
  BY <1>2 DEF End, Tell, Shutdown, Around
<1>3. CASE Vanish \/ UNCHANGED vars
  BY <1>3 DEF Vanish, Around, vars
<1> QED
  BY <1>1, <1>2, <1>3 DEF Next

LEMMA StartedStep ==
  ASSUME TypeOK, Started, Progress, [Next]_vars
  PROVE  Started'
<1>1. ChildStep /\ Final
  BY StepsOfChildren, ChildFinal
<1>2. \A c \in Children : asked'[c] => truth'[c] # "none"
  <2> SUFFICES ASSUME NEW c \in Children, asked'[c] PROVE truth'[c] # "none"
    OBVIOUS
  <2>1. CASE asked[c]
    BY <1>1, <2>1 DEF Started, Final
  <2>2. CASE ~asked[c]
    <3>1. truth[c] # "none"
      BY <1>1, <2>2 DEF ChildStep, childVars, Child!Start, Child!End, Child!Ask, Child!Tell,
                        Child!Vanish, TypeOK, Child!PromiseTypeOK
    <3> QED  BY <1>1, <3>1 DEF Final
  <2> QED  BY <2>1, <2>2
<1>3. vanished' \subseteq Begun'
  <2>1. vanished' \subseteq Begun
    BY <1>1 DEF ChildStep, childVars, Child!Start, Child!End, Child!Ask, Child!Tell,
                Child!Vanish, Started, Begun
  <2> QED  BY <1>1, <2>1 DEF Final, Begun
<1> DEFINE Works == \A p \in Parts : truth[Work(p)] # "none" <=> p <= next
           Tidied == \A p \in Parts : truth[Rmdirs(p)] # "none" =>
                       /\ mode = "rmdirs" /\ told[Work(p)] = "succeeded"
                       /\ p = cur => main \in {"tidying", "raised", "done"}
                       /\ p <= cur
<1>4. Works /\ Tidied
  BY DEF Started
<1> SUFFICES Works' /\ Tidied'
  BY <1>2, <1>3 DEF Started
<1> USE WorkIsChild, Kinds, Constants, <1>4 DEF TypeOK, Child!PromiseTypeOK
<1>5. CASE StartPartition
  <2>1. next + 1 \in Parts /\ next \in Nat
    BY <1>5 DEF StartPartition, Progress, Parts
  <2>2. truth' = [truth EXCEPT ![Work(next + 1)] = "running"] /\ told' = told
    BY <1>5 DEF StartPartition, Child!Start
  <2>3. \A p \in Parts : truth'[Work(p)] = IF p = next + 1 THEN "running" ELSE truth[Work(p)]
    BY <2>1, <2>2
  <2>4. Works'
    BY <1>5, <2>1, <2>3 DEF StartPartition, Parts
  <2>5. \A p \in Parts : truth'[Rmdirs(p)] = truth[Rmdirs(p)]
    BY <2>1, <2>2
  <2>6. Tidied'
    BY <1>5, <2>2, <2>5 DEF StartPartition
  <2> QED  BY <2>4, <2>6
<1>6. CASE StartRmdirs
  <2>1. /\ truth' = [truth EXCEPT ![Rmdirs(cur)] = "running"] /\ told' = told
        /\ mode' = mode /\ cur' = cur /\ next' = next /\ main' = "tidying"
    BY <1>6 DEF StartRmdirs, Child!Start
  <2>2. mode = "rmdirs" /\ told[Work(cur)] = "succeeded"
    BY <1>6 DEF StartRmdirs, Progress
  <2>3. \A p \in Parts : truth'[Work(p)] = truth[Work(p)]
    BY <2>1
  <2>4. \A p \in Parts : p # cur => truth'[Rmdirs(p)] = truth[Rmdirs(p)]
    BY <2>1
  <2>5. Works'
    BY <2>1, <2>3
  <2>6. Tidied'
    <3> SUFFICES ASSUME NEW p \in Parts, truth'[Rmdirs(p)] # "none"
                 PROVE  mode = "rmdirs" /\ told[Work(p)] = "succeeded" /\ p <= cur
      BY <2>1
    <3>1. CASE p = cur
      BY <2>2, <3>1 DEF Parts
    <3>2. CASE p # cur
      BY <2>4, <3>2
    <3> QED  BY <3>1, <3>2
  <2> QED  BY <2>5, <2>6
<1>7. CASE ~StartPartition /\ ~StartRmdirs
  <2>1. NoStart
    BY <1>7, QuietSteps
  <2>2. mode' = mode /\ next' = next /\ cur <= cur'
        /\ (cur' = cur => main' = main \/ main' \in {"raised", "done"}
                          \/ (main \in {"start", "collect"} /\ main' \in {"start", "collect", "tidy"}))
    <3>1. CASE Operate
      <4>1. CASE StartRefused \/ CollectLost
        BY <4>1 DEF StartRefused, CollectLost, Raises, Parts
      <4>2. CASE CollectWork \/ CollectRmdirs
        <5>1. cur <= next
          BY <4>2 DEF CollectWork, CollectRmdirs, Progress
        <5> QED  BY <4>2, <5>1 DEF CollectWork, CollectRmdirs, Collected, Parts
      <4> QED  BY <1>7, <3>1, <4>1, <4>2 DEF Operate
    <3>2. CASE ~Operate
      BY <3>2, OnlyOperateMoves DEF mainVars, Parts
    <3> QED  BY <3>1, <3>2
  <2>3. Works'
    BY <2>1, <2>2 DEF NoStart
  <2>4. Tidied'
    <3>1. None # "succeeded" /\ cur' \in Nat
      BY NoneIsNoVerdict, TypeStep DEF Results, Parts
    <3> SUFFICES ASSUME NEW p \in Parts, truth'[Rmdirs(p)] # "none"
                 PROVE  /\ mode = "rmdirs" /\ told'[Work(p)] = "succeeded"
                        /\ p = cur' => main' \in {"tidying", "raised", "done"}
                        /\ p <= cur'
      BY <2>2
    <3>2. /\ mode = "rmdirs" /\ told[Work(p)] = "succeeded"
          /\ p = cur => main \in {"tidying", "raised", "done"}
          /\ p <= cur
      BY <2>1 DEF NoStart
    <3>3. told'[Work(p)] = "succeeded"
      BY <1>1, <3>1, <3>2 DEF Final
    <3> QED  BY <2>2, <3>1, <3>2, <3>3 DEF Parts
  <2> QED  BY <2>3, <2>4
<1> QED  BY <1>5, <1>6, <1>7

\* A partition that is through stays so.
LEMMA ThroughStays ==
  ASSUME TypeOK, Final, mode' = mode, NEW p \in Parts, Through(p)
  PROVE  Through(p)'
  BY WorkIsChild, NoneIsNoVerdict DEF Final, Through

LEMMA ProgressStep ==
  ASSUME TypeOK, Started, Progress, [Next]_vars
  PROVE  Progress'
<1>1. Final
  BY StepsOfChildren, ChildFinal
<1>2. TypeOK'
  BY TypeStep
<1>3. None # "succeeded"
  BY NoneIsNoVerdict DEF Results
<1>4. /\ mode \in Operations /\ next \in Nat /\ next' \in Nat /\ next <= N
      /\ cur \in Parts /\ cur' \in Parts /\ Parts \subseteq Nat /\ N \in Nat \ {0}
  BY <1>2, Constants DEF TypeOK, Parts
<1>5. CASE ~Operate
  <2>1. UNCHANGED mainVars
    BY <1>5, OnlyOperateMoves
  <2>2. mode' = mode /\ main' = main /\ next' = next /\ cur' = cur
    BY <2>1 DEF mainVars
  <2>3. \A p \in Parts : Through(p) => Through(p)'
    BY <1>1, <2>2, ThroughStays
  <2>4. told[Work(cur)] = "succeeded" => told'[Work(cur)] = "succeeded"
    BY <1>1, <1>3, <1>4, WorkIsChild DEF Final
  <2>5. truth[Rmdirs(cur)] # "none" => truth'[Rmdirs(cur)] # "none"
    BY <1>1, <1>4, WorkIsChild DEF Final
  <2> QED  BY <2>2, <2>3, <2>4, <2>5 DEF Progress
<1>6. CASE StartPartition
  <2>1. mode' = mode /\ cur' = cur /\ next' = next + 1 /\ main = "start"
        /\ main' \in {"start", "returned", "collect"}
        /\ (main' = "start" => next' < N)
        /\ (main' = "returned" => mode = "handle" /\ ~(next' < N))
        /\ (main' = "collect" => mode # "handle")
    BY <1>6 DEF StartPartition
  <2>2. \A p \in Parts : Through(p) => Through(p)'
    BY <1>1, <2>1, ThroughStays
  <2>3. cur <= next + 1 /\ next < N /\ (mode # "handle" => \A p \in Parts : p < cur => Through(p))
    BY <2>1 DEF Progress
  <2> HIDE DEF Through
  <2> QED  BY <1>4, <2>1, <2>2, <2>3 DEF Progress
<1>7. CASE StartRefused \/ CollectLost
  <2>1. mode' = mode /\ cur' = cur /\ next' = next /\ main' = "raised"
    BY <1>7 DEF StartRefused, CollectLost, Raises
  <2>2. \A p \in Parts : Through(p) => Through(p)'
    BY <1>1, <2>1, ThroughStays
  <2> QED  BY <2>1, <2>2 DEF Progress
<1>8. CASE StartRmdirs
  <2>1. /\ mode' = mode /\ cur' = cur /\ next' = next /\ main = "tidy" /\ main' = "tidying"
        /\ truth'[Rmdirs(cur)] = "running"
    BY <1>4, <1>8, WorkIsChild DEF StartRmdirs, Child!Start, TypeOK, Child!PromiseTypeOK
  <2>2. \A p \in Parts : Through(p) => Through(p)'
    BY <1>1, <2>1, ThroughStays
  <2> QED  BY <2>1, <2>2 DEF Progress
<1>9. ASSUME Collected, Through(cur), main \in {"collect", "tidying"} PROVE Progress'
  <2>1. mode' = mode /\ next' = next /\ told' = told /\ truth' = truth
        /\ cur' = (IF cur < N THEN cur + 1 ELSE cur)
        /\ main' = IF cur < next THEN "collect" ELSE IF next < N THEN "start" ELSE "done"
    BY <1>9 DEF Collected, childVars
  <2>2. \A p \in Parts : Through(p) => Through(p)'
    BY <1>1, <2>1, ThroughStays
  <2>3. cur <= next /\ mode # "handle" /\ \A p \in Parts : p < cur => Through(p)
    BY <1>9 DEF Progress
  <2>4. \A p \in Parts : p <= cur => Through(p)'
    BY <1>4, <1>9, <2>2, <2>3
  <2>5. \A p \in Parts : p < cur' => Through(p)'
    BY <1>4, <2>1, <2>4
  <2>6. main' = "done" => next' = N /\ \A p \in Parts : Through(p)'
    BY <1>4, <2>1, <2>3, <2>4 DEF Parts
  <2>7. /\ main' = "start" => next' < N /\ cur' <= next' + 1
        /\ main' = "collect" => cur' <= next'
    BY <1>4, <2>1, <2>3
  <2> QED  BY <2>1, <2>3, <2>5, <2>6, <2>7 DEF Progress
<1>10. CASE CollectWork
  <2>1. CASE mode = "rmdirs" /\ told[Work(cur)] = "succeeded"
    <3>1. UNCHANGED <<mode, next, cur, told, truth>> /\ main = "collect" /\ main' = "tidy"
      BY <1>10, <2>1 DEF CollectWork, childVars
    <3>2. \A p \in Parts : Through(p) => Through(p)'
      BY <1>1, <3>1, ThroughStays
    <3> QED  BY <2>1, <3>1, <3>2 DEF Progress
  <2>2. CASE ~(mode = "rmdirs" /\ told[Work(cur)] = "succeeded")
    <3>1. Collected /\ main = "collect" /\ Through(cur)
      BY <1>10, <2>2 DEF CollectWork, Through
    <3> QED  BY <1>9, <3>1
  <2> QED  BY <2>1, <2>2
<1>11. CASE CollectRmdirs
  <2>1. Collected /\ main = "tidying" /\ told[Rmdirs(cur)] \in Results
    BY <1>11 DEF CollectRmdirs
  <2>2. told[Work(cur)] = "succeeded"
    BY <1>4, <2>1 DEF Progress, Started
  <2> QED  BY <1>9, <2>1, <2>2 DEF Through, Results
<1> QED
  BY <1>5, <1>6, <1>7, <1>8, <1>10, <1>11 DEF Operate

\* The handle's own operation is over when it is given out.
LEMMA ReturnedStays ==
  ASSUME TypeOK, Progress, main = "returned", [Next]_vars
  PROVE  main' = "returned"
<1>1. ~Operate
  BY DEF Operate, StartPartition, StartRefused, CollectWork, StartRmdirs, CollectRmdirs, CollectLost
<1> QED  BY <1>1, OnlyOperateMoves DEF mainVars

LEMMA CallsStep ==
  ASSUME TypeOK, Started, Progress, Calls, [Next]_vars
  PROVE  Calls'
<1>1. Final
  BY StepsOfChildren, ChildFinal
<1> DEFINE Heard(d, i) == \A p \in Parts : p < i => told[Work(p)] \in Results
<1>2. \A d \in Clients : Heard(d, idx[d]) => \A p \in Parts : p < idx[d] => told'[Work(p)] \in Results
  BY <1>1, WorkIsChild, NoneIsNoVerdict DEF Final
<1>3. \A d \in Clients : pc[d] # "off" => main' = "returned"
  BY ReturnedStays DEF Calls
<1>4. /\ pc \in [Clients -> {"off", "wait", "timed", "cancel", "closing"}]
      /\ idx \in [Clients -> Parts] /\ Parts \subseteq Nat /\ 1 \in Parts /\ N \in Nat \ {0}
      /\ \A p \in Parts : ~(p < 1)
  BY Constants DEF TypeOK, Parts
<1>5. ASSUME UNCHANGED callVars PROVE Calls'
  BY <1>2, <1>3, <1>5 DEF Calls, callVars
<1>6. CASE Operate
  BY <1>5, <1>6 DEF Operate, StartPartition, StartRefused, CollectWork, StartRmdirs, CollectRmdirs,
                   CollectLost, Collected, Raises
<1>7. ASSUME NEW c \in Children, End(c) \/ Tell(c) \/ Shutdown(c) PROVE Calls'
  BY <1>5, <1>7 DEF End, Tell, Shutdown, Around
<1>8. CASE Vanish \/ UNCHANGED vars
  BY <1>5, <1>8 DEF Vanish, Around, vars
<1>9. ASSUME NEW d \in Clients, NEW l \in {"off", "wait", "timed", "cancel", "closing"}, NEW i \in Parts,
             Goto(d, l, i), main' = "returned",
             l \in {"wait", "timed"} => Heard(d, i)'
      PROVE  Calls'
  <2>1. \A e \in Clients : /\ e = d => pc'[e] = l /\ idx'[e] = i
                           /\ e # d => pc'[e] = pc[e] /\ idx'[e] = idx[e]
    BY <1>4, <1>9 DEF Goto
  <2> QED  BY <1>2, <1>9, <2>1 DEF Calls
<1>10. ASSUME NEW d \in Clients, Call(d) PROVE Calls'
  <2>1. PICK l \in {"wait", "timed", "cancel", "closing"} : Goto(d, l, 1)
    BY <1>10 DEF Call
  <2>2. main' = "returned"
    BY <1>10, ReturnedStays DEF Call
  <2> QED  BY <1>4, <1>9, <2>1, <2>2
<1>11. ASSUME NEW d \in Clients, CancelOne(d) PROVE Calls'
  <2>1. main' = "returned"
    BY <1>3, <1>11 DEF CancelOne
  <2>2. PICK l \in {"off", "cancel", "closing", "timed"}, i \in Parts :
          Goto(d, l, i) /\ (l = "timed" => i = 1)
    BY <1>4, <1>11 DEF CancelOne, Parts
  <2> QED  BY <1>4, <1>9, <2>1, <2>2
<1>12. ASSUME NEW d \in Clients, WaitOne(d) PROVE Calls'
  <2>1. main' = "returned" /\ told' = told /\ pc[d] \in {"wait", "timed"}
    BY <1>3, <1>12 DEF WaitOne, childVars
  <2>2. CASE idx[d] < N
    <3>1. idx[d] + 1 \in Parts /\ Goto(d, pc[d], idx[d] + 1)
      BY <1>4, <1>12, <2>2 DEF WaitOne, Parts
    <3>2. Heard(d, idx[d] + 1)
      <4>1. told[Work(idx[d])] \in Results /\ Heard(d, idx[d])
        BY <1>12, <2>1 DEF WaitOne, Calls
      <4>2. \A p \in Parts : p < idx[d] + 1 => p < idx[d] \/ p = idx[d]
        BY <1>4 DEF Parts
      <4> QED  BY <4>1, <4>2
    <3> QED  BY <1>4, <1>9, <2>1, <3>1, <3>2
  <2>3. CASE ~(idx[d] < N)
    BY <1>4, <1>9, <1>12, <2>1, <2>3 DEF WaitOne
  <2> QED  BY <2>2, <2>3
<1>13. ASSUME NEW d \in Clients, WaitLost(d) \/ WaitTimesOut(d) PROVE Calls'
  BY <1>3, <1>4, <1>9, <1>13 DEF WaitLost, WaitTimesOut
<1> QED
  BY <1>6, <1>7, <1>8, <1>10, <1>11, <1>12, <1>13 DEF Next, Continue

\* When every partition is through, every job there is has given its result;
\* and what has told anything is a job.
LEMMA AllThrough ==
  ASSUME Started, \A p \in Parts : Through(p)
  PROVE  \A c \in Begun : told[c] \in Results
<1> SUFFICES ASSUME NEW c \in Begun PROVE told[c] \in Results
  OBVIOUS
<1>1. PICK p \in Parts : c = Work(p) \/ c = Rmdirs(p)
  BY Kinds DEF Begun
<1> QED  BY <1>1 DEF Started, Through, Begun

LEMMA TellersBegun ==
  ASSUME Started, ChildrenTrue
  PROVE  \A c \in Children : told[c] # None => c \in Begun
  BY DEF Started, ChildrenTrue, Child!Fair, Begun

\* So the fold of all the results no longer changes.
LEMMA AggregateStays ==
  ASSUME TypeOK, Started, ChildrenTrue, Progress, \A p \in Parts : Through(p),
         [Next]_vars, mode' = mode
  PROVE  Aggregate' = Aggregate /\ \A p \in Parts : Through(p)'
<1>1. Final
  BY StepsOfChildren, ChildFinal
<1>2. \A p \in Parts : Through(p)'
  BY <1>1, ThroughStays
<1>3. Started' /\ ChildrenTrue'
  BY StartedStep, ChildrenTrueStep, StepsOfChildren
<1>4. \A c \in Begun : told[c] \in Results /\ told'[c] = told[c]
  BY <1>1, AllThrough, NoneIsNoVerdict DEF Final, Begun
<1>5. \A c \in Begun' : told'[c] \in Results
  <2> SUFFICES ASSUME NEW c \in Begun' PROVE told'[c] \in Results
    OBVIOUS
  <2>1. PICK p \in Parts : c = Work(p) \/ c = Rmdirs(p)
    BY Kinds DEF Begun
  <2>2. Through(p)'
    BY <1>2
  <2> QED  BY <1>3, <2>1, <2>2 DEF Started, Through, Begun
<1>6. Begun' = Begun
  <2>1. \A c \in Begun : c \in Begun'
    BY <1>1 DEF Final, Begun
  <2>2. ASSUME NEW c \in Begun' PROVE c \in Begun
    <3>1. c \in Children /\ truth'[c] # "none"
      BY <2>2 DEF Begun
    <3>2. PICK p \in Parts : c = Work(p) \/ c = Rmdirs(p)
      BY <3>1, Kinds
    <3>3. told[Work(p)] \in Results /\ told'[Work(p)] = told[Work(p)]
      BY <1>1, WorkIsChild, NoneIsNoVerdict DEF Through, Final
    <3>4. c = Rmdirs(p) => told[c] \in Results
      BY <1>3, <3>1, <3>2, <3>3 DEF Started, Through
    <3>5. told[c] # None
      BY <3>2, <3>3, <3>4, NoneIsNoVerdict
    <3> QED  BY <3>1, <3>5, TellersBegun
  <2> QED  BY <2>1, <2>2
<1>7. Aggregate' = Aggregate
  BY <1>4, <1>6 DEF Aggregate
<1> QED  BY <1>2, <1>7

LEMMA ModeStays ==
  ASSUME [Next]_vars
  PROVE  mode' = mode
<1>1. CASE Operate
  BY <1>1 DEF Operate, StartPartition, StartRefused, CollectLost, Raises, CollectWork, CollectRmdirs,
              Collected, StartRmdirs
<1> QED  BY <1>1, OnlyOperateMoves DEF mainVars

\* A step gives the answer with all the partitions through, or neither gives
\* one nor cleans the lists up.
Answers    == answer' = Aggregate /\ UNCHANGED childVars /\ \A p \in Parts : Through(p)
AnswersNot == /\ answer' = answer
              /\ lists' = "gone" /\ main' # "raised" => lists = "gone" /\ main # "raised"

LEMMA Answering ==
  ASSUME Inv, [Next]_vars
  PROVE  Answers \/ AnswersNot
<1> USE DEF Answers, AnswersNot
<1>1. ASSUME Collected, Through(cur), main \in {"collect", "tidying"} PROVE Answers \/ AnswersNot
  <2> SUFFICES ASSUME ~AnswersNot PROVE Answers
    OBVIOUS
  <2>1. ~(cur < next \/ next < N) /\ answer' = Aggregate /\ UNCHANGED childVars
    BY <1>1 DEF Collected
  <2>2. \A p \in Parts : p < cur => Through(p)
    BY <1>1 DEF Inv, Progress
  <2>3. \A p \in Parts : p < cur \/ p = cur
    BY <2>1, Constants DEF Inv, TypeOK, Parts
  <2> QED  BY <1>1, <2>1, <2>2, <2>3
<1>2. CASE CollectWork
  BY <1>1, <1>2 DEF CollectWork, Through, mainVars
<1>3. CASE CollectRmdirs
  <2>1. Collected /\ main = "tidying" /\ told[Rmdirs(cur)] \in Results /\ cur \in Parts
    BY <1>3 DEF CollectRmdirs, Inv, TypeOK
  <2>2. told[Work(cur)] = "succeeded"
    BY <2>1 DEF Inv, Progress, Started
  <2> QED  BY <1>1, <2>1, <2>2 DEF Through, Results
<1>4. ASSUME NEW d \in Clients, WaitOne(d) PROVE Answers \/ AnswersNot
  <2> SUFFICES ASSUME ~AnswersNot PROVE Answers
    OBVIOUS
  <2>1. ~(idx[d] < N) /\ answer' = Aggregate /\ UNCHANGED childVars
    BY <1>4 DEF WaitOne, mainVars
  <2>2. told[Work(idx[d])] \in Results /\ \A p \in Parts : p < idx[d] => told[Work(p)] \in Results
    BY <1>4 DEF WaitOne, Inv, Calls
  <2>3. \A p \in Parts : p < idx[d] \/ p = idx[d]
    BY <2>1, Constants DEF Inv, TypeOK, Parts
  <2>4. mode = "handle"
    BY <1>4 DEF WaitOne, Inv, Calls, Progress
  <2> QED  BY <2>1, <2>2, <2>3, <2>4 DEF Through
<1>5. CASE StartPartition \/ StartRefused \/ StartRmdirs \/ CollectLost
  BY <1>5 DEF StartPartition, StartRefused, StartRmdirs, CollectLost, Raises
<1>6. ASSUME NEW d \in Clients, Call(d) \/ CancelOne(d) \/ WaitLost(d) \/ WaitTimesOut(d) PROVE Answers \/ AnswersNot
  BY <1>6 DEF Call, CancelOne, WaitLost, WaitTimesOut, mainVars
<1>7. ASSUME NEW c \in Children, End(c) \/ Tell(c) \/ Shutdown(c) PROVE Answers \/ AnswersNot
  BY <1>7 DEF End, Tell, Shutdown, Around, mainVars
<1>8. CASE Vanish \/ UNCHANGED vars
  BY <1>8 DEF Vanish, Around, vars, mainVars
<1> QED
  BY <1>2, <1>3, <1>4, <1>5, <1>6, <1>7, <1>8 DEF Next, Operate, Continue

LEMMA AnswerStep ==
  ASSUME Inv, [Next]_vars
  PROVE  AnswerRight'
<1>1. ASSUME \A p \in Parts : Through(p)
      PROVE  Aggregate' = Aggregate /\ \A p \in Parts : Through(p)'
  BY <1>1, ModeStays, AggregateStays DEF Inv
<1>2. CASE Answers
  BY <1>1, <1>2 DEF Answers, AnswerRight
<1>3. CASE AnswersNot
  <2>1. CASE \A p \in Parts : Through(p)
    BY <1>1, <1>3, <2>1 DEF AnswersNot, Inv, AnswerRight
  <2>2. CASE ~ \A p \in Parts : Through(p)
    BY <1>3, <2>2 DEF AnswersNot, Inv, AnswerRight
  <2> QED  BY <2>1, <2>2
<1> QED  BY <1>2, <1>3, Answering

LEMMA InitInv == Init => Inv
<1> SUFFICES ASSUME Init PROVE Inv
  OBVIOUS
<1> USE Constants, WorkIsChild DEF Init, Child!Init
<1>1. TypeOK
  BY DEF TypeOK, Child!PromiseTypeOK, Child!Truths, Parts
<1>2. ChildrenTrue
  BY DEF ChildrenTrue
<1>3. Started
  BY DEF Started, Parts
<1>4. Progress
  BY DEF Progress, Parts
<1>5. Calls
  BY DEF Calls
<1>6. AnswerRight
  BY DEF AnswerRight
<1> QED  BY <1>1, <1>2, <1>3, <1>4, <1>5, <1>6 DEF Inv

LEMMA NextStep == Inv /\ [Next]_vars => Inv'
<1> SUFFICES ASSUME Inv, [Next]_vars PROVE Inv'
  OBVIOUS
<1>1. TypeOK /\ ChildrenTrue /\ Started /\ Progress /\ Calls
  BY DEF Inv
<1> QED
  BY <1>1, TypeStep, ChildrenTrueStep, StepsOfChildren, StartedStep, ProgressStep, CallsStep,
     AnswerStep DEF Inv

\* Every part of the invariant holds in every state: the types, what is known of
\* the children, how far the operation and the callers of its handle have come,
\* and that an answer is the fold of all the results (aggregate_results).
THEOREM InvHolds == Spec => []Inv
  BY InitInv, NextStep, PTL DEF Spec

\* Every variable keeps its type.
THEOREM TypeCorrect == Spec => []TypeOK
<1>1. Inv => TypeOK
  BY DEF Inv
<1> QED  BY <1>1, InvHolds, PTL

\* The FilesFrom lists are not cleaned up while a job that may read them runs,
\* for every number of partitions and of callers: PartitionedJobHandle.cleanup.
THEOREM ListsStay == Spec => []ListsOutlastJobs
<1>1. Inv => ListsOutlastJobs
  <2> SUFFICES ASSUME Inv, lists = "gone", main # "raised", NEW c \in Children
               PROVE  truth[c] # "running"
    BY DEF ListsOutlastJobs
  <2>1. \A p \in Parts : Through(p)
    BY DEF Inv, AnswerRight
  <2>2. c \in Begun => told[c] \in Results /\ told[c] \in Child!Fair(c)
    BY <2>1, AllThrough, NoneIsNoVerdict DEF Inv, ChildrenTrue, Begun
  <2> QED  BY <2>2 DEF Child!Fair, Begun, Results
<1> QED  BY <1>1, InvHolds, PTL

-----------------------------------------------------------------------------
(* The batch *)

\* The jobs not waited for belong to the partitions from cur to next, and a
\* batch ends before those are more than its size.
Window ==
  mode # "handle" =>
    /\ next - cur < size
    /\ main = "start" => next - cur + 1 = next % size
    /\ main \in {"collect", "tidy", "tidying"} => next = N \/ next % size = 0

LEMMA NextModulo ==
  ASSUME NEW n \in Nat, NEW s \in Nat \ {0}
  PROVE  n % s \in 0 .. s - 1 /\ ((n + 1) % s # 0 => (n + 1) % s = (n % s) + 1)
<1> DEFINE q == n \div s
           r == n % s
           p == (n + 1) \div s
           t == (n + 1) % s
<1>1. q \in Int /\ r \in 0 .. s - 1 /\ n = s * q + r
  BY SMTT(30)
<1>2. p \in Int /\ t \in 0 .. s - 1 /\ n + 1 = s * p + t
  BY SMTT(30)
<1> HIDE DEF q, r, p, t
<1>3. ASSUME t # 0 PROVE t = r + 1
  <2>1. PICK k \in Int : k = p - q
    BY <1>1, <1>2
  <2>2. s * k = s * p - s * q
    BY <1>1, <1>2, <2>1, SMTT(30)
  <2>3. s * k = r + 1 - t
    BY <1>1, <1>2, <2>2, SMTT(30)
  <2>4. CASE k = 0
    BY <1>1, <1>2, <2>3, <2>4
  <2>5. CASE k >= 1
    <3>1. s * k >= s
      BY <2>5, SMTT(30)
    <3> QED  BY <1>1, <1>2, <1>3, <2>3, <3>1
  <2>6. CASE k <= -1
    <3>1. s * k <= -s
      BY <2>6, SMTT(30)
    <3> QED  BY <1>1, <1>2, <2>3, <3>1
  <2> QED  BY <2>1, <2>4, <2>5, <2>6
<1> QED  BY <1>1, <1>3 DEF r, t

LEMMA WindowInit == Init => Window
  BY Constants DEF Init, Window

LEMMA WindowStep ==
  ASSUME Inv, Window, [Next]_vars
  PROVE  Window'
<1> USE Constants DEF Inv, TypeOK, Parts
<1>1. CASE UNCHANGED mainVars
  BY <1>1 DEF mainVars, Window
<1>2. CASE StartPartition
  <2>1. /\ main = "start" /\ next' = next + 1 /\ UNCHANGED <<mode, size, cur>>
        /\ \/ main' = "start" /\ (mode = "handle" \/ next' % size # 0)
           \/ main' = "returned" /\ mode = "handle"
           \/ main' = "collect" /\ (next' >= N \/ next' % size = 0)
    BY <1>2 DEF StartPartition
  <2>2. next' <= N
    BY <2>1 DEF Progress
  <2>3. next % size \in 0 .. size - 1 /\ ((next + 1) % size # 0 => (next + 1) % size = (next % size) + 1)
    <3>1. next \in Nat /\ size \in Nat \ {0}
      OBVIOUS
    <3> QED  BY <3>1, NextModulo, Zenon
  <2> QED  BY <2>1, <2>2, <2>3 DEF Window
<1>3. CASE Collected /\ main \in {"collect", "tidying"}
  <2>1. CASE cur < next
    BY <1>3, <2>1 DEF Collected, Window
  <2>2. CASE cur >= next
    <3>1. cur = next
      BY <1>3, <2>2 DEF Progress
    <3> QED  BY <1>3, <3>1 DEF Collected, Window
  <2> QED  BY <2>1, <2>2
<1>4. CASE StartRefused \/ CollectLost
  BY <1>4 DEF StartRefused, CollectLost, Raises, Window
<1>5. CASE CollectWork \/ StartRmdirs \/ CollectRmdirs
  BY <1>3, <1>5 DEF CollectWork, StartRmdirs, CollectRmdirs, Window
<1> QED  BY <1>1, <1>2, <1>4, <1>5, OnlyOperateMoves DEF Operate

\* max_partition_workers bounds the jobs started and not yet waited for: they
\* are one each of the partitions in the window, for a rmdirs job is started
\* only when the job of its partition has been waited for.
THEOREM BatchesAreBounded == Spec => []WithinBatch
<1>1. Inv /\ Window => WithinBatch
  <2> SUFFICES ASSUME Inv, Window, mode # "handle"
               PROVE  Cardinality({c \in Begun : told[c] = None}) <= size
    BY DEF WithinBatch
  <2> DEFINE Pending == {c \in Begun : told[c] = None}
  <2> USE Constants DEF Inv, TypeOK, Parts
  <2>1. ASSUME NEW c \in Pending
        PROVE  /\ c[1] \in cur .. next
               /\ c[2] = "work" \/ (c[2] = "rmdirs" /\ told[<<c[1], "work">>] # None)
               /\ c = <<c[1], c[2]>>
    <3>1. PICK p \in Parts : c = Work(p) \/ c = Rmdirs(p)
      BY DEF Begun, Children, Steps, Work, Rmdirs
    <3>2. CASE c = Work(p)
      BY <2>1, <3>1, <3>2, NoneIsNoVerdict DEF Begun, Started, Progress, Through, Work
    <3>3. CASE c = Rmdirs(p)
      <4>1. told[Work(p)] = "succeeded" /\ p <= cur /\ mode = "rmdirs"
        BY <2>1, <3>1, <3>3 DEF Begun, Started
      <4>2. ~(p < cur)
        BY <2>1, <3>3, <4>1, NoneIsNoVerdict DEF Progress, Through
      <4>3. truth[Work(p)] # "none" /\ told[Work(p)] # None
        BY <3>1, <4>1, WorkIsChild, NoneIsNoVerdict, TellersBegun DEF Results, Begun
      <4> QED  BY <3>1, <3>3, <4>1, <4>2, <4>3 DEF Started, Work, Rmdirs
    <3> QED  BY <3>1, <3>2, <3>3
  <2> DEFINE f == [c \in Pending |-> c[1]]
  <2>2. f \in [Pending -> cur .. next]
    BY <2>1
  <2>3. ASSUME NEW c \in Pending, NEW d \in Pending, f[c] = f[d] PROVE c = d
    <3>1. c[1] = d[1] /\ told[c] = None /\ told[d] = None
      BY <2>3
    <3> HIDE DEF Pending, f
    <3> QED  BY <2>1, <3>1
  <2> HIDE DEF f, Pending
  <2>4. f \in Injection(Pending, cur .. next)
    BY <2>2, <2>3 DEF Injection, IsInjective
  <2>5. IsFiniteSet(cur .. next) /\ Cardinality(cur .. next) = IF cur > next THEN 0 ELSE next - cur + 1
    BY FS_Interval
  <2>6. IsFiniteSet(Pending) /\ Cardinality(Pending) <= Cardinality(cur .. next)
    BY <2>4, <2>5, FS_Injection
  <2>7. Cardinality(Pending) \in Nat
    BY <2>6, FS_CardinalityType
  <2>8. Cardinality(Pending) <= size
    BY <2>5, <2>6, <2>7 DEF Window
  <2> QED  BY <2>8 DEF Pending
<1>2. Inv /\ Window /\ [Next]_vars => Window'
  BY WindowStep
<1> QED  BY <1>1, <1>2, InvHolds, WindowInit, PTL DEF Spec

-----------------------------------------------------------------------------
(* The promise of the whole *)

\* An answer is due when all is through, and true of the whole.
LEMMA AggregateFair ==
  ASSUME Inv, \A p \in Parts : Through(p)
  PROVE  Aggregate \in Whole!Fair("whole")
<1>1. \A c \in Begun : c \in Children /\ told[c] \in Results /\ told[c] \in Child!Fair(c)
  BY AllThrough, NoneIsNoVerdict DEF Inv, ChildrenTrue, Begun
<1>2. \A c \in Begun : /\ told[c] = "succeeded" <=> truth[c] = "succeeded"
                       /\ told[c] = "failed" => truth[c] \in {"failed", "interrupted"}
                       /\ told[c] = "cancelled" => truth[c] = "interrupted" /\ asked[c]
                       /\ told[c] \in {"succeeded", "failed", "cancelled"}
  BY <1>1 DEF Child!Fair, Results
<1>3. \A c \in Begun : Ended(c) /\ truth[c] # "skewed"
  BY <1>2 DEF Ended
<1>4. Begun # {}
  <2>1. 1 \in Parts
    BY Constants DEF Parts
  <2>2. told[Work(1)] # None
    BY <2>1, NoneIsNoVerdict DEF Through
  <2> QED  BY <2>1, <2>2, WorkIsChild, TellersBegun DEF Inv
<1>5. Complete
  <2> SUFFICES ASSUME NEW p \in Parts
               PROVE  /\ Ended(Work(p))
                      /\ mode = "rmdirs" /\ truth[Work(p)] = "succeeded" => Ended(Rmdirs(p))
    BY DEF Complete
  <2>1. told[Work(p)] \in Results /\ Work(p) \in Begun
    BY WorkIsChild, TellersBegun, NoneIsNoVerdict DEF Inv, Through
  <2>2. ASSUME mode = "rmdirs", truth[Work(p)] = "succeeded" PROVE Ended(Rmdirs(p))
    <3>1. told[Rmdirs(p)] \in Results
      BY <1>2, <2>1, <2>2 DEF Through
    <3>2. Rmdirs(p) \in Begun
      BY <3>1, WorkIsChild, TellersBegun, NoneIsNoVerdict DEF Inv
    <3> QED  BY <1>3, <3>2
  <2> QED  BY <1>3, <2>1, <2>2
<1>6. /\ Aggregate = "succeeded" => WholeTruth = "succeeded"
      /\ Aggregate = "failed" => WholeTruth \in {"failed", "interrupted"}
      /\ Aggregate = "cancelled" => WholeTruth = "interrupted" /\ \E c \in Children : asked[c]
      /\ Aggregate \in {"succeeded", "failed", "cancelled"}
  <2>1. CASE \A c \in Begun : told[c] = "succeeded"
    BY <1>2, <1>4, <1>5, <2>1 DEF Aggregate, WholeTruth
  <2>2. CASE \E c \in Begun : told[c] = "failed"
    BY <1>2, <1>3, <1>4, <1>5, <2>2 DEF Aggregate, WholeTruth
  <2>3. CASE /\ ~ \A c \in Begun : told[c] = "succeeded"
             /\ ~ \E c \in Begun : told[c] = "failed"
    <3>1. PICK c \in Begun : told[c] = "cancelled"
      BY <1>2, <2>3
    <3>2. \A b \in Begun : truth[b] \in {"succeeded", "interrupted"}
      BY <1>2, <2>3
    <3> QED  BY <1>1, <1>2, <1>4, <1>5, <2>3, <3>1, <3>2 DEF Aggregate, WholeTruth
  <2> QED  BY <2>1, <2>2, <2>3
<1> QED  BY <1>6 DEF Whole!Fair, Whole!Told

\* How the truth of the whole moves with the truth of one job.
LEMMA WholeUnchanged ==
  ASSUME truth' = truth, mode' = mode
  PROVE  WholeTruth' = WholeTruth /\ Begun' = Begun
  BY DEF WholeTruth, Complete, Ended, Begun

\* While a job runs the whole does.
RunningWhole == \A c \in Children : truth[c] = "running" => WholeTruth = "running"

LEMMA WholeRuns == Inv => RunningWhole
<1> SUFFICES ASSUME Inv, NEW c \in Children, truth[c] = "running" PROVE WholeTruth = "running"
  BY DEF RunningWhole
<1>1. c \in Begun /\ ~Ended(c)
  BY DEF Begun, Ended
<1>2. PICK p \in Parts : c = Work(p) \/ c = Rmdirs(p)
  BY Kinds
<1>3. ASSUME c = Rmdirs(p) PROVE mode = "rmdirs" /\ truth[Work(p)] = "succeeded"
  <2>1. mode = "rmdirs" /\ told[Work(p)] = "succeeded"
    BY <1>3 DEF Inv, Started
  <2>2. told[Work(p)] \in Child!Fair(Work(p))
    BY <2>1, WorkIsChild, NoneIsNoVerdict DEF Inv, ChildrenTrue, Results
  <2> QED  BY <2>1, <2>2 DEF Child!Fair
<1>4. ~Complete
  BY <1>1, <1>2, <1>3 DEF Complete
<1> QED  BY <1>1, <1>4 DEF WholeTruth

LEMMA WholeRunsNext == Inv' => RunningWhole'
  BY WholeRuns, PTL

\* A job begun finds the whole not begun, or running.
LEMMA WholeStarts ==
  ASSUME Inv, Inv', NEW c \in Children, Child!Start(c), mode' = mode
  PROVE  WholeTruth' = "running" /\ WholeTruth \in {"none", "running"}
<1>1. truth[c] = "none" /\ told' = told /\ truth'[c] = "running"
      /\ \A b \in Children : b # c => truth'[b] = truth[b]
  BY DEF Child!Start, Inv, TypeOK, Child!PromiseTypeOK
<1>2. WholeTruth' = "running"
  BY <1>1, WholeRunsNext DEF RunningWhole
<1>3. PICK p \in Parts : c = Work(p) \/ c = Rmdirs(p)
  BY Kinds
<1>4. ASSUME c = Rmdirs(p) PROVE mode = "rmdirs" /\ truth[Work(p)] = "succeeded"
  <2>1. mode = "rmdirs" /\ told[Work(p)] = "succeeded"
    BY <1>1, <1>4 DEF Inv, Started
  <2>2. told[Work(p)] \in Child!Fair(Work(p))
    BY <2>1, WorkIsChild, NoneIsNoVerdict DEF Inv, ChildrenTrue, Results
  <2> QED  BY <2>1, <2>2 DEF Child!Fair
<1>5. ~Complete
  BY <1>1, <1>3, <1>4 DEF Complete, Ended
<1> QED  BY <1>2, <1>5 DEF WholeTruth

\* A job that ends leaves the whole running, or ends it.
LEMMA WholeEnds ==
  ASSUME Inv, Inv', NEW c \in Children, Child!End(c), mode' = mode
  PROVE  WholeTruth = "running" /\ WholeTruth' \in Whole!Truths \ {"none"}
<1>1. truth[c] = "running" /\ truth'[c] # "none" /\ truth' \in [Children -> Child!Truths]
  BY DEF Child!End, Inv, TypeOK, Child!PromiseTypeOK
<1>2. WholeTruth = "running"
  BY <1>1, WholeRuns DEF RunningWhole
<1>3. c \in Begun'
  BY <1>1 DEF Begun
<1> QED  BY <1>2, <1>3 DEF WholeTruth, Whole!Truths

\* A step of the children is a step of the whole, or none.
LEMMA WholeFollows ==
  ASSUME Inv, Inv', ChildStep, mode' = mode, answer' = answer
  PROVE  Whole!Next \/ UNCHANGED Whole!promiseVars
<1> USE DEF Whole!promiseVars
<1>1. CASE UNCHANGED childVars
  <2>1. WholeTruth' = WholeTruth
    BY <1>1, WholeUnchanged DEF childVars
  <2> QED  BY <1>1, <2>1 DEF childVars
<1>2. ASSUME NEW c \in Children, Child!Start(c) PROVE Whole!Next \/ UNCHANGED Whole!promiseVars
  <2>1. WholeTruth' = "running" /\ WholeTruth \in {"none", "running"}
    BY <1>2, WholeStarts
  <2>2. asked' = asked /\ vanished' = vanished
    BY <1>2 DEF Child!Start
  <2> QED  BY <2>1, <2>2 DEF Whole!Next, Whole!Start
<1>3. ASSUME NEW c \in Children, Child!End(c) PROVE Whole!Next \/ UNCHANGED Whole!promiseVars
  <2>1. WholeTruth = "running" /\ WholeTruth' \in Whole!Truths \ {"none"}
    BY <1>3, WholeEnds
  <2>2. asked' = asked /\ vanished' = vanished
    BY <1>3 DEF Child!End
  <2>3. CASE WholeTruth' = "running"
    BY <2>1, <2>2, <2>3
  <2>4. CASE WholeTruth' # "running"
    <3>1. Whole!End("whole")
      BY <2>1, <2>2, <2>4 DEF Whole!End
    <3> QED  BY <3>1 DEF Whole!Next
  <2> QED  BY <2>3, <2>4
<1>4. ASSUME NEW c \in Children, Child!Ask(c) PROVE Whole!Next \/ UNCHANGED Whole!promiseVars
  <2>1. /\ truth[c] # "none" /\ told[c] = None
        /\ truth' = truth /\ vanished' = vanished /\ asked'[c] = TRUE
    BY <1>4 DEF Child!Ask, Inv, TypeOK, Child!PromiseTypeOK
  <2>2. WholeTruth' = WholeTruth /\ c \in Begun /\ WholeTruth # "none"
    BY <2>1, WholeUnchanged DEF Begun, WholeTruth
  <2>3. answer = None
    BY <2>1, <2>2, AllThrough, NoneIsNoVerdict DEF Inv, AnswerRight
  <2>4. (\E b \in Children : asked'[b]) = TRUE
    BY <2>1
  <2>5. Whole!Ask("whole")
    BY <2>1, <2>2, <2>3, <2>4 DEF Whole!Ask
  <2> QED  BY <2>5 DEF Whole!Next
<1>5. ASSUME NEW c \in Children, Child!Tell(c) PROVE Whole!Next \/ UNCHANGED Whole!promiseVars
  <2>1. truth' = truth /\ asked' = asked /\ vanished' = vanished
    BY <1>5 DEF Child!Tell
  <2>2. WholeTruth' = WholeTruth
    BY <2>1, WholeUnchanged
  <2> QED  BY <2>1, <2>2
<1>6. CASE Child!Vanish
  <2>1. truth' = truth /\ asked' = asked /\ vanished \subseteq vanished'
    BY <1>6 DEF Child!Vanish
  <2>2. WholeTruth' = WholeTruth /\ Begun' = Begun
    BY <2>1, WholeUnchanged
  <2>3. vanished' # {} => WholeTruth # "none"
    BY <1>6, <2>2 DEF Child!Vanish, WholeTruth, Begun
  <2>4. Whole!Vanish
    BY <2>1, <2>2, <2>3 DEF Whole!Vanish
  <2> QED  BY <2>4 DEF Whole!Next
<1> QED  BY <1>1, <1>2, <1>3, <1>4, <1>5, <1>6 DEF ChildStep

\* The answer is the verdict of the whole, given once; a second caller of
\* wait() is given it again.
LEMMA WholeTells ==
  ASSUME Inv, Answers, mode' = mode
  PROVE  Whole!Next \/ UNCHANGED Whole!promiseVars
<1> USE DEF Answers
<1>1. WholeTruth' = WholeTruth /\ asked' = asked /\ vanished' = vanished
  BY WholeUnchanged DEF childVars
<1>2. CASE answer # None
  BY <1>1, <1>2 DEF Inv, AnswerRight, Whole!promiseVars
<1>3. CASE answer = None
  <2>1. Whole!Tell("whole")
    BY <1>1, <1>3, AggregateFair DEF Whole!Tell
  <2> QED  BY <2>1 DEF Whole!Next
<1> QED  BY <1>2, <1>3

\* A partitioned operation keeps the promise of one job, whatever the number of
\* partitions, batches and callers, if its jobs keep it: PartitionedJobHandle,
\* aggregate_results.
THEOREM Keeps == Spec => KeepsPromise
<1>1. Init => Whole!Init
  <2> SUFFICES ASSUME Init PROVE Whole!Init
    OBVIOUS
  <2>1. Begun = {} /\ \A c \in Children : asked[c] = FALSE
    BY DEF Init, Child!Init, Begun
  <2>2. WholeTruth = "none" /\ (\E c \in Children : asked[c]) = FALSE
    BY <2>1 DEF WholeTruth
  <2> QED  BY <2>2 DEF Init, Child!Init, Whole!Init
<1>2. Inv /\ Inv' /\ [Next]_vars => [Whole!Next]_(Whole!promiseVars)
  <2> SUFFICES ASSUME Inv, Inv', [Next]_vars PROVE Whole!Next \/ UNCHANGED Whole!promiseVars
    OBVIOUS
  <2>1. mode' = mode /\ ChildStep
    BY ModeStays, StepsOfChildren DEF Inv
  <2>2. CASE AnswersNot
    BY <2>1, <2>2, WholeFollows DEF AnswersNot
  <2>3. CASE Answers
    BY <2>1, <2>3, WholeTells
  <2> QED  BY <2>2, <2>3, Answering
<1> QED  BY <1>1, <1>2, InvHolds, PTL DEF Spec, KeepsPromise, Whole!Spec
=============================================================================
