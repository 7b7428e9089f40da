----------------------------- MODULE ListStream -----------------------------
(***************************************************************************)
(* ls_stream() and save_to_db(): a listing that rclone produces into a     *)
(* buffer, pulled from it in batches through a cursor, and passed on in    *)
(* pages.  The cursor may be closed by another thread meanwhile.           *)
(***************************************************************************)
EXTENDS Integers, Sequences, FiniteSets, SequencesExt

CONSTANTS
  Items,     \* how many entries the remote has; FileItem.from_json rejects
  Rejected,  \* some of them
  BatchSize, \* _BATCH_SIZE
  PageSize   \* page_size

ASSUME StreamAssumption ==
  Items \in Nat /\ Rejected \subseteq 1 .. Items /\ BatchSize \in Nat \ {0} /\ PageSize \in Nat \ {0}

VARIABLES
  listed,  \* entries rclone has listed so far
  pulled,  \* entries taken from its buffer
  ending,  \* how its listing ended: "no", "done" or "error"
  cursor,  \* the native stream: open, or closed
  pager,   \* the caller of files_paged()
  batch,   \* the batch it has in hand: [from, to, last]
  page,    \* the page it fills
  pages    \* history: the pages yielded

streamVars == <<listed, pulled, ending, cursor, pager, batch, page, pages>>

NoBatch == [from |-> 1, to |-> 0, last |-> "no"]

StreamInit ==
  /\ listed = 0 /\ pulled = 0 /\ ending = "no" /\ cursor = "none" /\ pager = "off"
  /\ batch = NoBatch /\ page = <<>> /\ pages = <<>>

\* fetch_ls_stream_embedded.
OpenStream ==
  /\ cursor = "none" /\ cursor' = "open" /\ pager' = "next"
  /\ UNCHANGED <<listed, pulled, ending, batch, page, pages>>

\* rclone lists, and ends, with an error or not.
ListMore ==
  /\ cursor = "open" /\ ending = "no" /\ listed < Items /\ listed' = listed + 1
  /\ UNCHANGED <<pulled, ending, cursor, pager, batch, page, pages>>

ListEnds(how) ==
  /\ cursor = "open" /\ ending = "no" /\ (how = "done" => listed = Items) /\ ending' = how
  /\ UNCHANGED <<listed, pulled, cursor, pager, batch, page, pages>>

\* liststream/next: what there is, up to a batch, perhaps nothing within the
\* poll; done comes with the last of it.  A closed cursor is an rc error.
NextBatch ==
  /\ pager = "next"
  /\ IF cursor # "open" THEN pager' = "raised" /\ UNCHANGED <<pulled, batch>>
     ELSE /\ (listed > pulled \/ ending # "no")
          /\ LET to == IF listed > pulled + BatchSize THEN pulled + BatchSize ELSE listed IN
             /\ batch' = [from |-> pulled + 1, to |-> to, last |-> IF to = listed THEN ending ELSE "no"]
             /\ pulled' = to
          /\ pager' = "batch"
  /\ UNCHANGED <<listed, ending, cursor, page, pages>>

\* The items of a batch, those rejected left out; a full page is yielded.
TakeItem ==
  /\ pager = "batch" /\ batch.from <= batch.to
  /\ batch' = [batch EXCEPT !.from = @ + 1]
  /\ LET longer == IF batch.from \in Rejected THEN page ELSE Append(page, batch.from) IN
     IF Len(longer) >= PageSize THEN pages' = Append(pages, longer) /\ page' = <<>>
     ELSE page' = longer /\ UNCHANGED pages
  /\ UNCHANGED <<listed, pulled, ending, cursor, pager>>

\* Mutant: an error ends the listing like any other end.
BatchEndsQuietly ==
  /\ pager = "batch" /\ batch.from > batch.to /\ batch' = NoBatch
  /\ IF batch.last = "no" THEN pager' = "next" /\ UNCHANGED <<page, pages>>
     ELSE /\ pager' = "returned" /\ page' = <<>>
          /\ pages' = IF page = <<>> THEN pages ELSE Append(pages, page)
  /\ UNCHANGED <<listed, pulled, ending, cursor>>

\* The next batch; or the end, which yields the last page; or the error of the
\* listing, which loses it.
BatchEnds ==
  /\ pager = "batch" /\ batch.from > batch.to /\ batch' = NoBatch
  /\ CASE batch.last = "no"    -> pager' = "next" /\ UNCHANGED <<page, pages>>
       [] batch.last = "error" -> pager' = "raised" /\ UNCHANGED <<page, pages>>
       [] batch.last = "done"  -> /\ pager' = "returned" /\ page' = <<>>
                                  /\ pages' = IF page = <<>> THEN pages ELSE Append(pages, page)
  /\ UNCHANGED <<listed, pulled, ending, cursor>>

\* close(), by the caller's with block or by Rclone.close().
CloseStream ==
  /\ cursor = "open" /\ cursor' = "closed"
  /\ UNCHANGED <<listed, pulled, ending, pager, batch, page, pages>>

StreamStep  == ListMore \/ ListEnds("done") \/ NextBatch \/ TakeItem \/ BatchEnds
StreamCall  == OpenStream \/ CloseStream
StreamFault == ListEnds("error")

StreamTypeOK ==
  /\ listed \in 0 .. Items /\ pulled \in 0 .. listed /\ ending \in {"no", "done", "error"}
  /\ cursor \in {"none", "open", "closed"} /\ pager \in {"off", "next", "batch", "raised", "returned"}
  /\ batch \in [from : 1 .. Items + 1, to : 0 .. Items, last : {"no", "done", "error"}]
  /\ page \in Seq(1 .. Items) /\ Len(page) < PageSize /\ pages \in Seq(Seq(1 .. Items))

\* The entries a stream is to yield of the first n, and those it has yielded.
Accepted(n) == (1 .. n) \ Rejected
Given       == FlattenSeq(pages)

(* The pages give the accepted entries in order, each once, and none is lost *)
(* between two batches or pages; a generator that ends has yielded them all, *)
(* and one whose listing failed or whose cursor was closed under it raises.  *)
StreamIsWhole ==
  /\ \A i, j \in DOMAIN Given : i < j => Given[i] < Given[j]
  /\ \E n \in 0 .. Items : Range(Given) = Accepted(n)
  /\ pager = "returned" => Range(Given) = Accepted(Items)

StreamBusy == pager \in {"next", "batch"}
=============================================================================
