--------------------------- MODULE MultipartCopy ---------------------------
(***************************************************************************)
(* copy_file_parts_resumable(), the upload of the parts followed by their  *)
(* merge, and the command that finishes a merge alone; called again and    *)
(* again over one destination, in a process that may die between any two   *)
(* steps and leave the parts directory and S3 as they are.                 *)
(***************************************************************************)
EXTENDS PartsUpload, PartsMerge

CONSTANTS
  MaxCalls,   \* bound: calls
  MaxCrashes, \* bound: deaths of the process
  MaxFaults   \* bound: transfers and requests that fail

ASSUME CopyAssumption == {MaxCalls, MaxCrashes, MaxFaults} \subseteq Nat

VARIABLES
  call,   \* what the process is doing
  clean,  \* history: the call met no fault so far
  budget  \* the calls, crashes and faults still to come

copyVars == <<parts, info, uploadVars, mergeVars, call, clean, budget>>

Init ==
  /\ parts = {} /\ info = None /\ UploadInit /\ MergeInit
  /\ call = "idle" /\ clean = TRUE /\ budget = [calls |-> MaxCalls, crashes |-> MaxCrashes, faults |-> MaxFaults]

Spend(what) == budget[what] > 0 /\ budget' = [budget EXCEPT ![what] = @ - 1]

StartCopy ==
  /\ call = "idle" /\ Spend("calls") /\ call' = "copy" /\ clean' = TRUE /\ up' = "begin"
  /\ UNCHANGED <<parts, info, todo, task, mergeVars>>

\* copy_large_s3_finish: the merge alone.
StartFinish ==
  /\ call = "idle" /\ Spend("calls") /\ call' = "finish" /\ clean' = TRUE /\ mg' = "begin"
  /\ UNCHANGED <<parts, info, uploadVars, durableVars, outcome, poolVars, writerVars>>

\* The upload returned or raised.
Uploaded ==
  /\ call = "copy" /\ up \in {"ok", "raised"} /\ UploadReset
  /\ IF up = "ok" THEN mg' = "begin" /\ UNCHANGED call ELSE call' = "idle" /\ UNCHANGED mg
  /\ UNCHANGED <<parts, info, durableVars, outcome, poolVars, writerVars, clean, budget>>

Return ==
  /\ mg \in {"ok", "raised"} /\ call' = "idle" /\ mg' = "off" /\ outcome' = "ok"
  /\ UNCHANGED <<parts, info, uploadVars, durableVars, poolVars, writerVars, clean, budget>>

\* The process dies: only what is stored remotely is left.
Crash ==
  /\ call # "idle" \/ late # None
  /\ Spend("crashes") /\ call' = "idle" /\ UploadReset /\ MergeReset
  /\ UNCHANGED <<parts, info, durableVars, clean>>

Step ==
  \/ Uploaded \/ Return
  \/ UploadStep /\ UNCHANGED <<mergeVars, call, clean, budget>>
  \/ MergeStep /\ UNCHANGED <<uploadVars, call, clean, budget>>

Fault ==
  /\ Spend("faults") /\ clean' = FALSE
  /\ \/ UploadFault /\ UNCHANGED <<mergeVars, call>>
     \/ MergeFault /\ UNCHANGED <<uploadVars, call>>

Next == StartCopy \/ StartFinish \/ Crash \/ Fault \/ Step

\* Threads run, and the network answers every request in the end.
Spec == Init /\ [][Next]_copyVars /\ WF_copyVars(Step)

TypeOK ==
  /\ PartsDirTypeOK /\ UploadTypeOK /\ MergeTypeOK
  /\ call \in {"idle", "copy", "finish"} /\ clean \in BOOLEAN
  /\ budget \in [calls : 0 .. MaxCalls, crashes : 0 .. MaxCrashes, faults : 0 .. MaxFaults]

(* The parts are purged only once the object holds all of them in order:     *)
(* whatever crashed, failed or was repeated before, nothing that was         *)
(* uploaded is thrown away for an object that lacks it.                      *)
PurgedWhenWhole == [][parts \ parts' # {} => object = Whole]_copyVars

(* What the merge writes is the listed parts in their order, none twice and  *)
(* none left out but possibly the first, which the check does not look for.  *)
MergedInOrder == object # None => object \in {Whole, Tail(Whole)}

(* What the guide says: a later call with the same source, destination and   *)
(* part layout can resume completed work.  One that meets no fault itself    *)
(* must not fail.                                                            *)
ResumeCompletes == call = "copy" /\ clean => up # "raised" /\ mg # "raised"
=============================================================================
