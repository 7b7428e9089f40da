---------------------------- MODULE PartsUpload ----------------------------
(***************************************************************************)
(* upload_parts_resumable(): every part not yet in the directory is read   *)
(* from the local HTTP server by one pool and copied by another, each of   *)
(* Threads workers, the main thread pacing submission with a semaphore     *)
(* that the end of each copy releases.                                     *)
(***************************************************************************)
EXTENDS PartsDir

CONSTANT
  Threads,     \* the upload_threads of the call
  MinPartSize  \* _MIN_PART_UPLOAD_SIZE

ASSUME UploadAssumption == Threads \in Nat \ {0} /\ MinPartSize \in Nat

VARIABLES
  up,    \* the main thread of the call
  todo,  \* part_infos not submitted yet
  task   \* what has become of each submitted part

uploadVars == <<up, todo, task>>

UpControls == {"off", "begin", "submit", "ok", "raised"}
\* "unread" is a part whose download raised: it goes through the upload pool
\* with its exception.
TaskStates == {"none", "queued", "reading", "read", "unread", "copying", "done", "failed"}

In(states)  == {n \in AllParts : task[n] \in states}
\* Submitted, and the semaphore not released for it.
Outstanding == In({"queued", "reading", "read", "unread", "copying"})
\* The chunk files in the staging directory.
Staged      == In({"reading", "read", "copying"})

UploadInit  == up = "off" /\ todo = {} /\ task = [n \in AllParts |-> "none"]
UploadReset == up' = "off" /\ todo' = {} /\ task' = [n \in AllParts |-> "none"]

\* _check_part_size, the listing, and info.json written before the first part:
\* its chunk size is that of the first part still to do.
UploadBegin ==
  /\ up = "begin"
  /\ LET left == AllParts \ parts
         first == CHOOSE n \in left : \A m \in left : n <= m IN
     IF PartSize(1) < MinPartSize THEN up' = "raised" /\ UNCHANGED <<todo, task, info>>
     ELSE IF left = {} THEN up' = "ok" /\ UNCHANGED <<todo, task, info>>
     ELSE /\ up' = "submit" /\ todo' = left
          /\ task' = [n \in AllParts |-> "none"]
          /\ info' = [chunk |-> PartSize(first), first |-> 1, last |-> LastPart]
  /\ UNCHANGED parts

\* Mutant: the semaphore is acquired for reads only.
SubmitUnpaced(n) ==
  /\ up = "submit" /\ n \in todo /\ \A m \in todo : n <= m
  /\ Cardinality(In({"queued", "reading"})) <= Threads
  /\ todo' = todo \ {n} /\ task' = [task EXCEPT ![n] = "queued"]
  /\ UNCHANGED <<up, parts, info>>

\* read_executor.submit(), once the acquire() after the part before returned.
Submit(n) ==
  /\ up = "submit" /\ n \in todo /\ \A m \in todo : n <= m
  /\ Cardinality(Outstanding) <= Threads
  /\ todo' = todo \ {n} /\ task' = [task EXCEPT ![n] = "queued"]
  /\ UNCHANGED <<up, parts, info>>

Move(n, from, to) == task[n] = from /\ task' = [task EXCEPT ![n] = to]

ReadStart(n) ==
  /\ Cardinality(In({"reading"})) < Threads /\ Move(n, "queued", "reading")
  /\ UNCHANGED <<up, todo, parts, info>>

\* read_task, and its done callback handing the part to the other pool.
ReadEnd(n, how) ==
  /\ Move(n, "reading", how)
  /\ UNCHANGED <<up, todo, parts, info>>

CopyStart(n) ==
  /\ Cardinality(In({"copying"})) < Threads
  /\ Move(n, "read", "copying") \/ Move(n, "unread", "failed")
  /\ UNCHANGED <<up, todo, parts, info>>

\* upload_task: a copy that raises may have written the part all the same.
CopyEnd(n, how) ==
  /\ Move(n, "copying", how)
  /\ parts' \in IF how = "done" THEN {parts \cup {n}} ELSE {parts, parts \cup {n}}
  /\ UNCHANGED <<up, todo, info>>

\* Mutant: the call waits until no part is missing.
UploadEndWhenAllDone ==
  /\ up = "submit" /\ todo = {} /\ AllParts \subseteq parts
  /\ up' = IF In({"failed"}) # {} THEN "raised" ELSE "ok"
  /\ UNCHANGED <<todo, task, parts, info>>

\* Both pools have drained: the errors collected are raised; parts that are
\* missing all the same are only logged.
UploadEnd ==
  /\ up = "submit" /\ todo = {} /\ Outstanding = {}
  /\ up' = IF In({"failed"}) # {} THEN "raised" ELSE "ok"
  /\ UNCHANGED <<todo, task, parts, info>>

UploadStep ==
  \/ UploadBegin \/ UploadEnd
  \/ \E n \in AllParts :
       Submit(n) \/ ReadStart(n) \/ ReadEnd(n, "read") \/ CopyStart(n) \/ CopyEnd(n, "done")

UploadFault == \E n \in AllParts : ReadEnd(n, "unread") \/ CopyEnd(n, "failed")

UploadTypeOK ==
  /\ up \in UpControls /\ todo \subseteq AllParts /\ task \in [AllParts -> TaskStates]

(* At most Threads + 1 chunk files are staged on the local disk, whatever    *)
(* the pools do: reads may not run ahead of the copies.                      *)
StagingBounded == Cardinality(Staged) <= Threads + 1
=============================================================================
