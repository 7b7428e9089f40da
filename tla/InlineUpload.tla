---------------------------- MODULE InlineUpload ----------------------------
(***************************************************************************)
(* upload_file_multipart(): a file goes up in chunks.  The chunker thread  *)
(* asks a fetcher for one chunk after another, each fetch hands its chunk  *)
(* to a queue of one place as it ends, and the runner uploads what it      *)
(* finds there until an EndOfStream.  The finished parts are kept in a     *)
(* state file, with which a later call, perhaps after a crash, resumes.    *)
(***************************************************************************)
EXTENDS Integers, Sequences, FiniteSets

CONSTANTS
  Chunks,      \* total_chunks() of the file
  Uploaders,   \* upload_threads
  Suspensions, \* the max_chunks_before_suspension of a call; Chunks is Nothing
  Nothing,     \* Python's None
  MaxTries,    \* bound: calls
  MaxDeaths,   \* bound: deaths of the process
  MaxMishaps,  \* bound: requests and fetches that fail
  MaxEdits     \* bound: times the source file changes its size

ASSUME InlineAssumption ==
  /\ Chunks \in Nat \ {0} /\ Uploaders \in Nat \ {0} /\ Suspensions \subseteq 1 .. Chunks
  /\ MaxTries \in Nat /\ MaxDeaths \in Nat /\ MaxMishaps \in Nat /\ MaxEdits \in Nat

Part == 1 .. Chunks
EOS  == 0          \* EndOfStream in the queue

VARIABLES
  \* What outlives the process.
  saved,   \* the state file: [id, file, parts], or Nothing
  mpu,     \* the multipart uploads, by id: [open, got]
  made,    \* the destination object: [file, parts], or Nothing
  file,    \* the size of the source, by its number of changes
  \* The call.
  ctl,     \* upload_file_multipart, and upload_runner within it
  state,   \* its UploadState: [id, file, parts], or Nothing
  held,    \* the chunk upload_runner took from the queue
  send,    \* what became of each part's upload
  limit,   \* max_chunks_before_suspension
  next,    \* the chunker: its part number, or Nothing when it has ended
  fetch,   \* what became of each chunk's fetch
  queue,   \* queue_upload
  left     \* the calls, deaths, mishaps and edits still to come

storedVars == <<saved, mpu, made, file>>
chunkVars  == <<limit, next, fetch>>
inlineVars == <<saved, mpu, made, file, ctl, state, held, send, limit, next, fetch, queue, left>>

Fetches  == {"none", "fetching", "fetched", "given", "failed"}
Sends    == {"none", "sending", "sent", "kept", "failed"}
Controls == {"off", "begin", "get", "hold", "join", "complete",
             "uploaded", "suspended", "already_done", "raised"}

Sending  == {n \in Part : send[n] = "sending"}
Idle     == [n \in Part |-> "none"]

InlineInit ==
  /\ saved = Nothing /\ mpu = <<>> /\ made = Nothing /\ file = 0
  /\ ctl = "off" /\ state = Nothing /\ held = Nothing /\ send = Idle
  /\ limit = Chunks /\ next = Nothing /\ fetch = Idle /\ queue = <<>>
  /\ left = [tries |-> MaxTries, deaths |-> MaxDeaths, mishaps |-> MaxMishaps, edits |-> MaxEdits]

Take(what) == left[what] > 0 /\ left' = [left EXCEPT ![what] = @ - 1]

\* Nothing of a call is left but what is stored; fetches still under way end in
\* a queue that nobody reads.
Forget ==
  /\ state' = Nothing /\ held' = Nothing /\ send' = Idle
  /\ limit' = Chunks /\ next' = Nothing /\ fetch' = Idle /\ queue' = <<>>

Call ==
  /\ ctl = "off" /\ Take("tries") /\ ctl' = "begin"
  /\ limit' \in Suspensions
  /\ UNCHANGED <<storedVars, state, held, send, next, fetch, queue>>

Fresh(uploads) == Append(uploads, [open |-> TRUE, got |-> {}])
Empty(id)      == [id |-> id, file |-> file, parts |-> {}]

\* The UploadState to work with is written to the state file, and unless it is
\* done the chunker is started at the first part it lacks.
Proceed(chosen) ==
  /\ state' = chosen /\ saved' = chosen
  /\ IF chosen.parts = Part THEN ctl' = "already_done" /\ UNCHANGED next
     ELSE /\ ctl' = "get"
          /\ next' = CHOOSE n \in Part \ chosen.parts :
                       \A m \in Part \ chosen.parts : n <= m

BeginNew ==
  /\ ctl = "begin" /\ saved = Nothing
  /\ mpu' = Fresh(mpu) /\ Proceed(Empty(Len(mpu')))
  /\ UNCHANGED <<made, file, held, send, limit, fetch, queue, left>>

\* Mutant: the parts of the old upload are put to the account of the new one.
BeginResumeNewId ==
  /\ ctl = "begin" /\ saved # Nothing /\ saved.file = file
  /\ mpu' = Fresh(mpu) /\ Proceed([saved EXCEPT !.id = Len(mpu')])
  /\ UNCHANGED <<made, file, held, send, limit, fetch, queue, left>>

\* The fingerprints agree: the loaded state with its own upload id; the upload
\* that every call opens first stays open and unused.
BeginResume ==
  /\ ctl = "begin" /\ saved # Nothing /\ saved.file = file
  /\ mpu' = Fresh(mpu) /\ Proceed(saved)
  /\ UNCHANGED <<made, file, held, send, limit, fetch, queue, left>>

Abort(uploads, ids) ==
  [id \in DOMAIN uploads |-> IF id \in ids THEN [uploads[id] EXCEPT !.open = FALSE] ELSE uploads[id]]

\* They do not: the old upload is aborted and so is the new one, as far as these
\* requests succeed; a third is opened, and save() refuses to overwrite a state
\* file of another fingerprint.
BeginChanged ==
  /\ ctl = "begin" /\ saved # Nothing /\ saved.file # file
  /\ \E ids \in SUBSET {saved.id, Len(mpu) + 1} : mpu' = Fresh(Abort(Fresh(mpu), ids))
  /\ ctl' = "raised"
  /\ UNCHANGED <<saved, made, file, state, held, send, chunkVars, queue, left>>

\* file_chunker: fetch a chunk, once the queue is not full.
ChunkerFetches ==
  /\ next \in Part /\ limit > 0 /\ queue = <<>>
  /\ fetch' = [fetch EXCEPT ![next] = "fetching"] /\ limit' = limit - 1
  /\ LET rest == {n \in Part \ state.parts : n > next} IN
     next' = IF rest = {} THEN Chunks + 1 ELSE CHOOSE n \in rest : \A m \in rest : n <= m
  /\ UNCHANGED <<storedVars, ctl, state, held, send, queue, left>>

\* Mutant: a chunker that was suspended leaves without an EndOfStream.
ChunkerLeaves ==
  /\ next \in Nat /\ next > Chunks /\ queue = <<>>
  /\ queue' = <<EOS>> /\ next' = Nothing
  /\ UNCHANGED <<storedVars, ctl, state, held, send, limit, fetch, left>>

\* Its finally, after the last part or max_chunks: the fetches may still be
\* under way, and their chunks will come too late.
ChunkerEnds ==
  /\ next \in Nat /\ (next > Chunks \/ limit = 0) /\ queue = <<>>
  /\ queue' = <<EOS>> /\ next' = Nothing
  /\ UNCHANGED <<storedVars, ctl, state, held, send, limit, fetch, left>>

FetchEnds(n, how) ==
  /\ fetch[n] = "fetching" /\ fetch' = [fetch EXCEPT ![n] = how]
  /\ UNCHANGED <<storedVars, ctl, state, held, send, limit, next, queue>>

\* _OnCompleteHandler.on_complete: put() waits for the place in the queue.
FetchGives(n) ==
  /\ fetch[n] = "fetched" /\ queue = <<>>
  /\ fetch' = [fetch EXCEPT ![n] = "given"] /\ queue' = <<n>>
  /\ UNCHANGED <<storedVars, ctl, state, held, send, limit, next, left>>

RunnerGets ==
  /\ ctl = "get" /\ queue # <<>> /\ queue' = Tail(queue)
  /\ IF Head(queue) = EOS THEN ctl' = "join" /\ UNCHANGED held
     ELSE ctl' = "hold" /\ held' = Head(queue)
  /\ UNCHANGED <<storedVars, state, send, chunkVars, left>>

\* semaphore.acquire(), and the submission.
RunnerSubmits ==
  /\ ctl = "hold" /\ Cardinality(Sending) < Uploaders
  /\ send' = [send EXCEPT ![held] = "sending"] /\ held' = Nothing /\ ctl' = "get"
  /\ UNCHANGED <<storedVars, state, chunkVars, queue, left>>

\* upload_task: one of its tries is answered, or none is; then done_cb
\* releases the semaphore.
SendEnds(n, how) ==
  /\ send[n] = "sending" /\ send' = [send EXCEPT ![n] = how]
  /\ \E done \in BOOLEAN :
       /\ (done => mpu[state.id].open) /\ (how = "sent" => done)
       /\ mpu' = IF done THEN [mpu EXCEPT ![state.id].got = @ \cup {n}] ELSE mpu
  /\ UNCHANGED <<saved, made, file, ctl, state, held, chunkVars, queue>>

\* UploadState.add_finished: append and save, under its lock.
Keep(n) ==
  /\ send[n] = "sent" /\ send' = [send EXCEPT ![n] = "kept"]
  /\ state' = [state EXCEPT !.parts = @ \cup {n}] /\ saved' = state'
  /\ UNCHANGED <<mpu, made, file, ctl, held, chunkVars, queue, left>>

\* Mutant: the end of the stream is taken for the end of the file.
RunnerEndsDone ==
  /\ ctl = "join" /\ next = Nothing /\ \A n \in Part : send[n] \notin {"sending", "sent"}
  /\ ctl' = "complete"
  /\ UNCHANGED <<storedVars, state, held, send, chunkVars, queue, left>>

\* The executor and the chunker are joined, and the state saved once more.
RunnerEnds ==
  /\ ctl = "join" /\ next = Nothing /\ \A n \in Part : send[n] \notin {"sending", "sent"}
  /\ ctl' = IF state.parts = Part THEN "complete" ELSE "suspended"
  /\ UNCHANGED <<storedVars, state, held, send, chunkVars, queue, left>>

\* complete_multipart_upload, of which the answer may be lost.
CompleteInline(how) ==
  /\ ctl = "complete" /\ ctl' = how
  /\ (how = "uploaded" => mpu[state.id].open)
  /\ \E done \in BOOLEAN :
       /\ (done => mpu[state.id].open) /\ (how = "uploaded" => done)
       /\ IF done THEN /\ mpu' = [mpu EXCEPT ![state.id].open = FALSE]
                       /\ made' = [file |-> file, parts |-> state.parts]
          ELSE UNCHANGED <<mpu, made>>
  /\ UNCHANGED <<saved, file, state, held, send, chunkVars, queue>>

Finish ==
  /\ ctl \in {"uploaded", "suspended", "already_done", "raised"} /\ ctl' = "off" /\ Forget
  /\ UNCHANGED <<storedVars, left>>

Die ==
  /\ ctl # "off" /\ Take("deaths") /\ ctl' = "off" /\ Forget
  /\ UNCHANGED storedVars

\* The source is replaced by a file of another size between two calls.
Edit ==
  /\ ctl = "off" /\ Take("edits") /\ file' = file + 1
  /\ UNCHANGED <<saved, mpu, made, ctl, state, held, send, chunkVars, queue>>

InlineStep ==
  \/ BeginNew \/ BeginResume \/ BeginChanged
  \/ ChunkerFetches \/ ChunkerEnds \/ RunnerGets \/ RunnerSubmits \/ RunnerEnds
  \/ \E n \in Part : FetchGives(n) \/ Keep(n)
  \/ /\ \/ \E n \in Part : FetchEnds(n, "fetched")
        \/ \E n \in Sending : SendEnds(n, IF mpu[state.id].open THEN "sent" ELSE "failed")
        \/ ctl = "complete" /\ CompleteInline(IF mpu[state.id].open THEN "uploaded" ELSE "raised")
     /\ UNCHANGED left
  \/ Finish

Mishap ==
  /\ Take("mishaps")
  /\ \/ \E n \in Part : FetchEnds(n, "failed") \/ SendEnds(n, "failed")
     \/ CompleteInline("raised")

InlineNext == Call \/ Die \/ Edit \/ Mishap \/ InlineStep
InlineSpec == InlineInit /\ [][InlineNext]_inlineVars

UploadStates == [id : DOMAIN mpu, file : 0 .. MaxEdits, parts : SUBSET Part]

InlineTypeOK ==
  /\ {saved, state} \ {Nothing} \subseteq UploadStates
  /\ mpu \in Seq([open : BOOLEAN, got : SUBSET Part])
  /\ made \in [file : 0 .. MaxEdits, parts : SUBSET Part] \cup {Nothing} /\ file \in 0 .. MaxEdits
  /\ ctl \in Controls /\ held \in Part \cup {Nothing} /\ send \in [Part -> Sends]
  /\ limit \in 0 .. Chunks /\ next \in 1 .. Chunks + 1 \cup {Nothing}
  /\ fetch \in [Part -> Fetches] /\ queue \in Seq(Part \cup {EOS}) /\ Len(queue) <= 1

(* The state file never claims a part that its multipart upload does not     *)
(* hold, so that a later call may trust it; every call opens an upload of    *)
(* its own, and the parts must stay with the one that has them.              *)
SavedIsTrue == saved # Nothing => saved.parts \subseteq mpu[saved.id].got

(* The object is assembled of all the chunks or not at all, though fetches   *)
(* fail, are suspended, or come after the end of the stream.                 *)
MadeWhole == made # Nothing => made.parts = Part
=============================================================================
