----------------------------- MODULE MCOperations -----------------------------
(***************************************************************************)
(* The operations of a client that share no state, each checked by itself: *)
(* a behavior is one of them, chosen at the start, called as often and     *)
(* failing as often as its bounds allow.                                   *)
(***************************************************************************)
EXTENDS MultipartCopy, InlineUpload, ClientClose, FsWalk, Progress, Download, ListStream, GroupFiles

CONSTANTS
  Modes,      \* the operations checked
  MaxFailures \* bound: listings, stop calls, requests and callbacks that fail

TheTree   == {<<>>, <<1>>, <<2>>, <<1, 1>>, <<1, 2>>, <<2, 1>>, <<1, 1, 1>>}
TheOther  == {<<>>, <<1>>, <<1, 2>>}
TheDepths == {-1, 0, 1, 2}
TheHomes  == {<<>>, <<1>>, <<1, 2>>, <<1, 3>>, <<1, 4>>, <<1, 1>>, <<1, 2, 3>>}

VARIABLES mode, failures

vars == <<mode, failures, copyVars, inlineVars, clientVars, walkVars, fsVars, progressVars,
          downloadVars, streamVars, groupVars>>

MCInit ==
  /\ mode \in Modes /\ failures = 0
  /\ Init /\ InlineInit /\ ClientInit /\ WalkInit /\ FsInit /\ DownloadInit /\ StreamInit
  /\ ProgressInit /\ (mode # "progress" => ~isDone)
  /\ GroupInit /\ (mode # "group" => listing = Homes)

OthersUnchanged ==
  /\ UNCHANGED mode
  /\ IF mode = "multipart" THEN TRUE ELSE UNCHANGED copyVars
  /\ IF mode = "inline"    THEN TRUE ELSE UNCHANGED inlineVars
  /\ IF mode \in {"handles", "jobs"} THEN TRUE ELSE UNCHANGED clientVars
  /\ IF mode = "walk"      THEN TRUE ELSE UNCHANGED walkVars
  /\ IF mode = "fswalk"    THEN TRUE ELSE UNCHANGED fsVars
  /\ IF mode = "progress"  THEN TRUE ELSE UNCHANGED progressVars
  /\ IF mode = "download"  THEN TRUE ELSE UNCHANGED downloadVars
  /\ IF mode = "stream"    THEN TRUE ELSE UNCHANGED streamVars
  /\ IF mode = "group"     THEN TRUE ELSE UNCHANGED groupVars

\* What threads, rclone and the network do in the end.
MCStep ==
  /\ \/ mode = "multipart" /\ Step
     \/ mode = "inline" /\ InlineStep
     \/ mode \in {"handles", "jobs"} /\ ClientStep
     \/ mode = "walk" /\ WalkStep
     \/ mode = "fswalk" /\ FsStep
     \/ mode = "progress" /\ ProgressStep
     \/ mode = "download" /\ DownloadStep
     \/ mode = "stream" /\ StreamStep
     \/ mode = "group" /\ Group
  /\ OthersUnchanged /\ UNCHANGED failures

\* What callers may do, and the process to them.
MCCall ==
  /\ \/ mode = "multipart" /\ (StartCopy \/ StartFinish \/ Crash \/ Fault)
     \/ mode = "inline" /\ (Call \/ Edit \/ Die \/ Mishap)
     \/ mode = "handles" /\ ClientCall
     \/ mode = "jobs" /\ JobCall
     \/ mode = "walk" /\ WalkCall
     \/ mode = "fswalk" /\ FsCall
     \/ mode = "progress" /\ ProgressCall
     \/ mode = "download" /\ Fetch
     \/ mode = "stream" /\ StreamCall
  /\ OthersUnchanged /\ UNCHANGED failures

MCFault ==
  /\ failures < MaxFailures /\ failures' = failures + 1
  /\ \/ mode \in {"handles", "jobs"} /\ ClientFault
     \/ mode = "walk" /\ ListFails
     \/ mode = "fswalk" /\ FsFault
     \/ mode = "download" /\ DownloadFault
     \/ mode = "stream" /\ StreamFault
  /\ OthersUnchanged

MCSpec == MCInit /\ [][MCStep \/ MCCall \/ MCFault]_vars /\ WF_vars(MCStep)

OperationsTypeOK ==
  /\ TypeOK /\ InlineTypeOK /\ ClientTypeOK /\ WalkTypeOK /\ FsTypeOK /\ ProgressTypeOK
  /\ DownloadTypeOK /\ StreamTypeOK /\ GroupTypeOK

(* What the two resumable uploads make is the whole object, in order.        *)
ObjectsAreWhole == MergedInOrder /\ MadeWhole

(* What a caller is given of a walk, a scan, a listing, a download, a list   *)
(* of files or a progress subscription is all of it, in order, or an error.  *)
Delivered ==
  /\ WalkIsWhole /\ ScanFindsMissing /\ FsWalkIsOrdered /\ StreamIsWhole
  /\ DownloadIsWhole /\ ShallowGroupsAreTrue /\ FinalShownLast

(* Every call returns, whatever fails in it: no pool, semaphore, queue,      *)
(* cursor, writer or join leaves it waiting.                                 *)
UnderWay ==
  \/ call # "idle" \/ ctl # "off" \/ ClientBusy \/ WalkBusy \/ FsBusy \/ ProgressBusy
  \/ DownloadBusy \/ StreamBusy \/ (mode = "group" /\ groups = Pending)

EverythingEnds == UnderWay ~> ~UnderWay
=============================================================================
