------------------------------ MODULE Download ------------------------------
(***************************************************************************)
(* HttpServer.download_multi_threaded(): a range of a served file is       *)
(* fetched in chunks by a pool, each chunk into a file of its own beside   *)
(* the destination, named after its start; the chunks are then appended    *)
(* to the destination in their order.                                      *)
(***************************************************************************)
EXTENDS Integers, Sequences, FiniteSets, SequencesExt

CONSTANTS
  RangeStart, RangeEnd, \* the range
  RangeChunk,           \* chunk_size
  Unit,                 \* the size from which a start is named in tenths of it (1G)
  PoolSize,             \* n_threads
  Retries               \* _DOWNLOAD_RETRIES

ASSUME DownloadAssumption ==
  /\ RangeStart \in Nat /\ RangeEnd \in Nat /\ RangeStart < RangeEnd
  /\ {RangeChunk, Unit, PoolSize, Retries} \subseteq Nat \ {0}

\* The starts of the chunks, in their order.
Order  == [i \in 1 .. (RangeEnd - RangeStart + RangeChunk - 1) \div RangeChunk |-> RangeStart + (i - 1) * RangeChunk]
Starts == Range(Order)

\* with_suffix(f".{r.start}"): a SizeSuffix shows one decimal of its unit; the
\* starts before Unit are whole numbers of a smaller one.
Name(s) == IF s < Unit THEN <<"whole", s>> ELSE <<"tenths", (20 * s + Unit) \div (2 * Unit)>>
Names   == {Name(s) : s \in Starts}

Gone    == -1 \* no such file
Partial == -2 \* one that is being written

VARIABLES
  chunkFile, \* the chunk files: the start of the chunk in each
  get,       \* what became of each chunk's download()
  tries,     \* its attempts
  main,      \* the thread of the call
  index,     \* the future, or the file, it is at
  finished,  \* finished: the files of the chunks collected
  failed,    \* errors
  target,    \* the chunks appended to the destination so far
  faulty,    \* history: a request has failed
  spoilt     \* history: on_progress has raised

downloadVars == <<chunkFile, get, tries, main, index, finished, failed, target, faulty, spoilt>>

Mains == {"off", "collect", "progress", "append", "leave", "discard", "returned", "raised"}

DownloadInit ==
  /\ chunkFile = [n \in Names |-> Gone] /\ get = [s \in Starts |-> "none"] /\ tries = [s \in Starts |-> 0]
  /\ main = "off" /\ index = 1 /\ finished = <<>> /\ failed = FALSE /\ target = <<>>
  /\ faulty = FALSE /\ spoilt = FALSE

\* The range is cut, and every chunk submitted.
Fetch ==
  /\ main = "off" /\ main' = "collect" /\ get' = [s \in Starts |-> "queued"]
  /\ UNCHANGED <<chunkFile, tries, index, finished, failed, target, faulty, spoilt>>

\* attempt(): the file is opened, and truncated.
GetStart(s) ==
  /\ get[s] = "queued" /\ Cardinality({t \in Starts : get[t] = "getting"}) < PoolSize
  /\ get' = [get EXCEPT ![s] = "getting"] /\ tries' = [tries EXCEPT ![s] = @ + 1]
  /\ chunkFile' = [chunkFile EXCEPT ![Name(s)] = Partial]
  /\ UNCHANGED <<main, index, finished, failed, target, faulty, spoilt>>

GetDone(s) ==
  /\ get[s] = "getting" /\ get' = [get EXCEPT ![s] = "done"]
  /\ chunkFile' = [chunkFile EXCEPT ![Name(s)] = s]
  /\ UNCHANGED <<tries, main, index, finished, failed, target, faulty, spoilt>>

\* Mutant: a failed attempt leaves its partial file.
GetFailsMessily(s) ==
  /\ get[s] = "getting" /\ faulty' = TRUE
  /\ get' = [get EXCEPT ![s] = IF tries[s] < Retries THEN "queued" ELSE "failed"]
  /\ UNCHANGED <<chunkFile, tries, main, index, finished, failed, target, spoilt>>

\* An attempt fails, by the request or by the size of what it brought: its file
\* is removed, and all is tried again, three times in all.
GetFails(s) ==
  /\ get[s] = "getting" /\ faulty' = TRUE
  /\ get' = [get EXCEPT ![s] = IF tries[s] < Retries THEN "queued" ELSE "failed"]
  /\ chunkFile' = [chunkFile EXCEPT ![Name(s)] = Gone]
  /\ UNCHANGED <<tries, main, index, finished, failed, target, spoilt>>

\* fut.result(), in the order of the chunks.
Collect ==
  /\ main = "collect" /\ index <= Len(Order) /\ get[Order[index]] \in {"done", "failed"}
  /\ IF get[Order[index]] = "done"
     THEN finished' = Append(finished, Name(Order[index])) /\ main' = "progress" /\ UNCHANGED <<failed, index>>
     ELSE failed' = TRUE /\ index' = index + 1 /\ UNCHANGED <<finished, main>>
  /\ UNCHANGED <<chunkFile, get, tries, target, faulty, spoilt>>

\* on_progress returns, or raises out of the call.
OnProgress(raises) ==
  /\ main = "progress"
  /\ IF raises THEN main' = "leave" /\ spoilt' = TRUE /\ UNCHANGED index
     ELSE main' = "collect" /\ index' = index + 1 /\ UNCHANGED spoilt
  /\ UNCHANGED <<chunkFile, get, tries, finished, failed, target, faulty>>

\* Mutant: the errors collected are not looked at.
CollectedAnyhow ==
  /\ main = "collect" /\ index > Len(Order) /\ index' = 1
  /\ main' = "append"
  /\ UNCHANGED <<chunkFile, get, tries, finished, failed, target, faulty, spoilt>>

Collected ==
  /\ main = "collect" /\ index > Len(Order) /\ index' = 1
  /\ main' = IF failed THEN "leave" ELSE "append"
  /\ UNCHANGED <<chunkFile, get, tries, finished, failed, target, faulty, spoilt>>

\* _concatenate_chunks: each file is read and removed; one that is not there raises.
AppendChunk ==
  /\ main = "append" /\ index <= Len(finished)
  /\ IF chunkFile[finished[index]] = Gone THEN main' = "leave" /\ UNCHANGED <<chunkFile, target, index>>
     ELSE /\ target' = Append(target, chunkFile[finished[index]])
          /\ chunkFile' = [chunkFile EXCEPT ![finished[index]] = Gone]
          /\ index' = index + 1 /\ UNCHANGED main
  /\ UNCHANGED <<get, tries, finished, failed, faulty, spoilt>>

Appended ==
  /\ main = "append" /\ index > Len(finished) /\ main' = "returned"
  /\ UNCHANGED <<chunkFile, get, tries, index, finished, failed, target, faulty, spoilt>>

\* The pool is waited for before the exception leaves its with block.
LeavePool ==
  /\ main = "leave" /\ (\A s \in Starts : get[s] \in {"done", "failed"}) /\ main' = "discard"
  /\ UNCHANGED <<chunkFile, get, tries, index, finished, failed, target, faulty, spoilt>>

\* The files collected are removed.
Discard ==
  /\ main = "discard" /\ main' = "raised"
  /\ chunkFile' = [n \in Names |-> IF n \in Range(finished) THEN Gone ELSE chunkFile[n]]
  /\ UNCHANGED <<get, tries, index, finished, failed, target, faulty, spoilt>>

DownloadStep ==
  \/ Collect \/ OnProgress(FALSE) \/ Collected \/ AppendChunk \/ Appended \/ LeavePool \/ Discard
  \/ \E s \in Starts : GetStart(s) \/ GetDone(s)
DownloadFault == OnProgress(TRUE) \/ \E s \in Starts : GetFails(s)

DownloadTypeOK ==
  /\ chunkFile \in [Names -> Starts \cup {Gone, Partial}]
  /\ get \in [Starts -> {"none", "queued", "getting", "done", "failed"}] /\ tries \in [Starts -> 0 .. Retries]
  /\ main \in Mains /\ index \in 1 .. Len(Order) + 1 /\ finished \in Seq(Names)
  /\ {failed, faulty, spoilt} \subseteq BOOLEAN /\ target \in Seq(Starts \cup {Partial})

(* A download that returns has every chunk of the range in its place, though *)
(* they came in any order and were tried again; one that raises has left     *)
(* none of its chunk files behind, unless it was on_progress that raised:    *)
(* then those not collected yet stay.                                        *)
DownloadIsWhole ==
  /\ main = "returned" => target = Order
  /\ main = "returned" \/ (main = "raised" /\ ~spoilt) => \A n \in Names : chunkFile[n] = Gone

(* What the docstring says: the file is copied from src to dst, in chunks    *)
(* fetched in parallel.  With no request failing, it must not raise.         *)
CleanDownloadReturns == main = "raised" => faulty \/ spoilt

DownloadBusy == main \notin {"off", "returned", "raised"}
=============================================================================
