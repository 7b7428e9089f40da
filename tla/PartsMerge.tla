----------------------------- MODULE PartsMerge -----------------------------
(***************************************************************************)
(* s3_server_side_multi_part_merge(): the parts in the directory become    *)
(* one S3 object.  A pool of Workers threads copies each part into a       *)
(* multipart upload; every piece finished is noted in the MergeState and   *)
(* announced to WriteMergeStateThread, which rewrites merge.json, so that  *)
(* a merge that dies can be resumed by the next call.                      *)
(***************************************************************************)
EXTENDS PartsDir, Sequences, SequencesExt

CONSTANT
  Workers  \* max_workers of the merge

ASSUME MergeAssumption == Workers \in Nat \ {0}

VARIABLES
  \* What outlives the process.
  mergeJson, \* merge.json: a MergeState, or None
  uploads,   \* the multipart uploads, by id: [open, copied]
  object,    \* the parts the destination object is made of, or None
  \* The call.
  mg,        \* its main thread
  outcome,   \* what mg will end in once the writer is closed
  st,        \* the MergeState: [id, all, finished]
  job,       \* the future of each part number
  fin,       \* final_fut, which ends the stream
  wq,        \* WriteMergeStateThread.queue
  wr,        \* that thread
  snap,      \* the MergeState it is writing
  late       \* what the writer of an earlier call is still writing

durableVars == <<mergeJson, uploads, object>>
poolVars    == <<st, job, fin>>
writerVars  == <<wq, wr, snap, late>>
mergeVars   == <<mergeJson, uploads, object, mg, outcome, st, job, fin, wq, wr, snap, late>>

MergeControls == {"off", "begin", "run", "drain", "close", "cleanup", "purge", "ok", "raised"}
JobStates     == {"none", "queued", "copying", "copied", "noted", "done", "failed", "cancelled"}
MergeStates   == [id : DOMAIN uploads, all : Seq(AllParts), finished : SUBSET AllParts]

Numbers     == DOMAIN st.all
JobsIn(set) == {k \in Numbers : job[k] \in set}
Busy        == JobsIn({"copying", "copied", "noted"})
Whole       == [n \in 1 .. LastPart |-> n]
Ascending(S) == [i \in 1 .. Cardinality(S) |-> CHOOSE n \in S : Cardinality({m \in S : m < n}) = i - 1]
ObjectSize(o) == FoldSeq(LAMBDA n, sum : PartSize(n) + sum, 0, o)

MergeInit ==
  /\ mergeJson = None /\ uploads = <<>> /\ object = None
  /\ mg = "off" /\ outcome = "ok" /\ st = None /\ job = [n \in AllParts |-> "none"]
  /\ fin = "none" /\ wq = <<>> /\ wr = "off" /\ snap = None /\ late = None

\* The process is gone, and with it everything but what is stored.
MergeReset ==
  /\ mg' = "off" /\ outcome' = "ok" /\ st' = None /\ job' = [n \in AllParts |-> "none"]
  /\ fin' = "none" /\ wq' = <<>> /\ wr' = "off" /\ snap' = None /\ late' = None

\* merge(): the futures of the parts the state has left, and a fresh writer.
StartMerge(state) ==
  /\ mg' = "run" /\ st' = state
  /\ job' = [n \in AllParts |->
               IF n \in DOMAIN state.all \ state.finished THEN "none" ELSE "done"]
  /\ fin' = "none" /\ wq' = <<>> /\ wr' = "get" /\ snap' = None

\* _begin_or_resume_merge with a readable merge.json: the call resumes with it.
MergeResume ==
  /\ mg = "begin" /\ FetchIsDone /\ mergeJson # None
  /\ StartMerge(mergeJson)
  /\ UNCHANGED <<parts, info, mergeJson, uploads, object, outcome, late>>

\* With none, or none that could be read: a new upload, of the parts listed in
\* the order of their names, numbered from first_part on.
MergeNew(readable) ==
  /\ mg = "begin" /\ FetchIsDone /\ (readable => mergeJson = None)
  /\ uploads' = Append(uploads, [open |-> TRUE, copied |-> {}])
  /\ StartMerge([id |-> Len(uploads'), all |-> Ascending(parts), finished |-> {}])
  /\ UNCHANGED <<parts, info, mergeJson, object, outcome, late>>

\* info.json missing, the upload not done, or the remote out of reach.
MergeRefused(reachable) ==
  /\ mg = "begin" /\ (reachable => ~FetchIsDone)
  /\ mg' = "raised"
  /\ UNCHANGED <<parts, info, durableVars, outcome, poolVars, writerVars>>

\* executor.submit(), once the acquire() after the part before returned.
JobSubmit(k) ==
  /\ mg = "run" /\ k \in Numbers /\ job[k] = "none" /\ \A m \in JobsIn({"none"}) : k <= m
  /\ Cardinality(JobsIn({"queued"}) \cup Busy) <= Workers
  /\ job' = [job EXCEPT ![k] = "queued"]
  /\ UNCHANGED <<parts, info, durableVars, mg, outcome, st, fin, writerVars>>

JobStart(k) ==
  /\ mg \in {"run", "drain"} /\ k \in JobsIn({"queued"}) /\ \A m \in JobsIn({"queued"}) : k <= m
  /\ Cardinality(Busy) < Workers
  /\ job' = [job EXCEPT ![k] = "copying"]
  /\ UNCHANGED <<parts, info, durableVars, mg, outcome, st, fin, writerVars>>

\* _upload_part_copy_task: one of its tries is answered ("copied"), or none is,
\* though S3 may have copied the part all the same.
JobCopy(k, answered) ==
  /\ k \in JobsIn({"copying"})
  /\ (answered => uploads[st.id].open /\ st.all[k] \in parts)
  /\ job' = [job EXCEPT ![k] = IF answered THEN "copied" ELSE "failed"]
  /\ \E made \in BOOLEAN :
       /\ answered => made
       /\ made => uploads[st.id].open /\ st.all[k] \in parts
       /\ uploads' = IF made THEN [uploads EXCEPT ![st.id].copied = @ \cup {k}] ELSE uploads
  /\ UNCHANGED <<parts, info, mergeJson, object, mg, outcome, st, fin, writerVars>>

\* Mutant: the piece is noted before its copy has been answered.
JobNoteAtOnce(k) ==
  /\ k \in JobsIn({"copying", "copied"}) /\ k \notin st.finished
  /\ st' = [st EXCEPT !.finished = @ \cup {k}]
  /\ job' = [job EXCEPT ![k] = IF @ = "copied" THEN "noted" ELSE @]
  /\ UNCHANGED <<parts, info, durableVars, mg, outcome, fin, writerVars>>

\* _on_piece_finished: MergeState.on_finished, and then the queue.
JobNote(k) ==
  /\ k \in JobsIn({"copied"})
  /\ st' = [st EXCEPT !.finished = @ \cup {k}]
  /\ job' = [job EXCEPT ![k] = "noted"]
  /\ UNCHANGED <<parts, info, durableVars, mg, outcome, fin, writerVars>>

JobTell(k) ==
  /\ k \in JobsIn({"noted"})
  /\ wq' = Append(wq, "piece")
  /\ job' = [job EXCEPT ![k] = "done"]
  /\ UNCHANGED <<parts, info, durableVars, mg, outcome, st, fin, wr, snap, late>>

\* final_fut runs as soon as a worker is free, behind the queued parts but not
\* behind the running ones: the stream may end before its last pieces.
FinalRuns ==
  /\ mg \in {"run", "drain"} /\ fin = "none" /\ JobsIn({"none", "queued"}) = {}
  /\ Cardinality(Busy) < Workers
  /\ fin' = "done" /\ wq' = Append(wq, "eos")
  /\ UNCHANGED <<parts, info, durableVars, mg, outcome, st, job, wr, snap, late>>

\* fut.result() of the first future that failed: the queued ones are cancelled.
PoolFails ==
  /\ mg = "run" /\ JobsIn({"none"}) = {}
  /\ \E k \in JobsIn({"failed"}) : \A m \in Numbers : m < k => job[m] = "done"
  /\ mg' = "drain"
  /\ job' = [n \in AllParts |-> IF job[n] = "queued" THEN "cancelled" ELSE job[n]]
  /\ fin' = IF fin = "none" THEN "cancelled" ELSE fin
  /\ UNCHANGED <<parts, info, durableVars, outcome, st, writerVars>>

\* Leaving merge(), by an exception or not: write_thread.close() ends the stream.
EndStream(how) == mg' = "close" /\ outcome' = how /\ wq' = Append(wq, "eos")

PoolDrained ==
  /\ mg = "drain" /\ Busy = {} /\ EndStream("raised")
  /\ UNCHANGED <<parts, info, durableVars, poolVars, wr, snap, late>>

\* Mutant: the pieces noted are enough, however many parts were listed.
CompleteUncounted(answered) ==
  /\ mg = "run" /\ fin = "done" /\ (answered => uploads[st.id].open)
  /\ \E made \in BOOLEAN :
       /\ answered => made
       /\ made => uploads[st.id].open
       /\ IF made THEN /\ uploads' = [uploads EXCEPT ![st.id].open = FALSE]
                       /\ object' = [i \in 1 .. Cardinality(st.finished) |->
                                       st.all[Ascending(st.finished)[i]]]
          ELSE UNCHANGED <<uploads, object>>
  /\ EndStream(IF answered THEN "ok" ELSE "raised")
  /\ UNCHANGED <<parts, info, mergeJson, poolVars, wr, snap, late>>

\* All futures are in, and as many pieces as parts: complete_multipart_upload,
\* which may do its work and lose its answer.
Complete(answered) ==
  /\ mg = "run" /\ JobsIn({"done"}) = Numbers /\ fin = "done"
  /\ answered => uploads[st.id].open
  /\ \E made \in BOOLEAN :
       /\ answered => made
       /\ made => uploads[st.id].open /\ st.finished = Numbers
       /\ IF made THEN /\ uploads' = [uploads EXCEPT ![st.id].open = FALSE]
                       /\ object' = st.all
          ELSE UNCHANGED <<uploads, object>>
  /\ EndStream(IF answered /\ st.finished = Numbers THEN "ok" ELSE "raised")
  /\ UNCHANGED <<parts, info, mergeJson, poolVars, wr, snap, late>>

\* WriteMergeStateThread._get_next and to_json_str: the queue is drained, and an
\* end of stream anywhere in it wins over the pieces before it.
WriterGets ==
  /\ wr = "get" /\ wq # <<>>
  /\ IF \E i \in DOMAIN wq : wq[i] = "eos"
     THEN wr' = "stopped" /\ UNCHANGED snap
     ELSE wr' = "write" /\ snap' = st
  /\ wq' = <<>>
  /\ UNCHANGED <<parts, info, durableVars, mg, outcome, poolVars, late>>

\* write_text: an error ends the thread.
WriterWrites(how) ==
  /\ wr = "write"
  /\ wr' = IF how = "ok" THEN "get" ELSE "stopped"
  /\ mergeJson' \in IF how = "ok" THEN {snap} ELSE {mergeJson, snap}
  /\ snap' = None
  /\ UNCHANGED <<parts, info, uploads, object, mg, outcome, poolVars, wq, late>>

\* close(): the join, and its timeout, which abandons the write under way.
Closed(joined) ==
  /\ mg = "close" /\ IF joined THEN wr = "stopped" ELSE wr = "write" /\ late = None
  /\ mg' = IF joined /\ outcome = "ok" THEN "cleanup" ELSE "raised"
  /\ late' = IF joined THEN late ELSE snap
  /\ st' = None /\ job' = [n \in AllParts |-> "none"] /\ fin' = "none"
  /\ wq' = <<>> /\ wr' = "off" /\ snap' = None
  /\ UNCHANGED <<parts, info, durableVars, outcome>>

LateWrite ==
  /\ late # None /\ late' = None /\ mergeJson' \in {mergeJson, late}
  /\ UNCHANGED <<parts, info, uploads, object, mg, outcome, poolVars, wq, wr, snap>>

\* Mutant: the parts are purged without a look at the object's size.
CleanupUnchecked ==
  /\ mg = "cleanup" /\ mg' = IF object # None THEN "purge" ELSE "raised"
  /\ UNCHANGED <<parts, info, durableVars, outcome, poolVars, writerVars>>

\* _cleanup_merge: the object must be there and have the size of the source.
Cleanup ==
  /\ mg = "cleanup"
  /\ mg' = IF object # None /\ ObjectSize(object) = Size THEN "purge" ELSE "raised"
  /\ UNCHANGED <<parts, info, durableVars, outcome, poolVars, writerVars>>

\* rclone purges the directory file by file, and may fail on the way.
PurgePart(n) ==
  /\ mg = "purge" /\ n \in parts /\ parts' = parts \ {n}
  /\ UNCHANGED <<info, durableVars, mg, outcome, poolVars, writerVars>>

PurgeState ==
  /\ mg = "purge"
  /\ \/ info # None /\ info' = None /\ UNCHANGED mergeJson
     \/ mergeJson # None /\ mergeJson' = None /\ UNCHANGED info
  /\ UNCHANGED <<parts, uploads, object, mg, outcome, poolVars, writerVars>>

Purged(ok) ==
  /\ mg = "purge" /\ (ok => parts = {} /\ info = None /\ mergeJson = None)
  /\ mg' = IF ok THEN "ok" ELSE "raised"
  /\ UNCHANGED <<parts, info, durableVars, outcome, poolVars, writerVars>>

\* What the parties do when nothing goes wrong between them; a copy into, or the
\* completion of, an upload that is no longer open is refused by S3.
MergeStep ==
  \/ MergeResume \/ MergeNew(TRUE) \/ MergeRefused(TRUE)
  \/ st # None /\ \E k \in AllParts :
       \/ JobSubmit(k) \/ JobStart(k) \/ JobCopy(k, uploads[st.id].open)
       \/ JobNote(k) \/ JobTell(k)
  \/ st # None /\ (FinalRuns \/ PoolFails \/ PoolDrained \/ WriterGets)
  \/ st # None /\ Complete(uploads[st.id].open)
  \/ WriterWrites("ok") \/ Closed(TRUE) \/ LateWrite
  \/ Cleanup \/ PurgeState \/ Purged(TRUE) \/ \E n \in AllParts : PurgePart(n)

\* What the network may do to them.
MergeFault ==
  \/ MergeNew(FALSE) \/ MergeRefused(FALSE)
  \/ st # None /\ \E k \in AllParts : uploads[st.id].open /\ JobCopy(k, FALSE)
  \/ st # None /\ uploads[st.id].open /\ Complete(FALSE)
  \/ WriterWrites("raised") \/ Closed(FALSE) \/ Purged(FALSE)

MergeTypeOK ==
  /\ mg \in MergeControls /\ outcome \in {"ok", "raised"}
  /\ {mergeJson, st, snap, late} \ {None} \subseteq MergeStates
  /\ uploads \in Seq([open : BOOLEAN, copied : SUBSET AllParts])
  /\ object \in Seq(AllParts) \cup {None}
  /\ job \in [AllParts -> JobStates] /\ fin \in {"none", "done", "cancelled"}
  /\ wq \in Seq({"piece", "eos"}) /\ wr \in {"off", "get", "write", "stopped"}

(* merge.json never claims a piece that its multipart upload does not hold:  *)
(* a resumed merge trusts it and copies only the rest.                       *)
RecordIsTrue ==
  \A r \in {mergeJson, snap, late} \ {None} : r.finished \subseteq uploads[r.id].copied
=============================================================================
