------------------------- MODULE InlineUpload_proofs -------------------------
(***************************************************************************)
(* Theorems about InlineUpload, for any number of chunks, uploaders, calls *)
(* and misfortunes.                                                        *)
(*                                                                         *)
(* What S3 holds of an upload only grows (InlineHoldsMore), so a part once *)
(* found there may be kept for ever; and it is kept only by the call that  *)
(* sent it, to the upload of its own state, before its runner has ended    *)
(* (Quiet).                                                                *)
(***************************************************************************)
EXTENDS InlineUpload, TLAPS

InlineUploads == [open : BOOLEAN, got : SUBSET Part]
States  == [id : Nat, file : Nat, parts : SUBSET Part]

\* An upload state that claims nothing its multipart upload does not hold.
StateTrueIn(s, u) == s \in States /\ s.id \in DOMAIN u /\ s.parts \subseteq u[s.id].got

InlineShapes ==
  /\ mpu \in Seq(InlineUploads) /\ file \in Nat
  /\ ctl \in Controls /\ send \in [Part -> Sends]

SavedState == saved # Nothing => StateTrueIn(saved, mpu)

Working == {"get", "hold", "join"}

Worked ==
  ctl \in Working \cup {"complete"} =>
    /\ StateTrueIn(state, mpu)
    /\ \A n \in Part : send[n] = "sent" => n \in mpu[state.id].got

Quiet == ctl \notin Working => \A n \in Part : send[n] \notin {"sending", "sent"}

Ready == ctl = "complete" => state.parts = Part

InlineInv == InlineShapes /\ SavedState /\ Worked /\ Quiet /\ Ready /\ MadeWhole

\* From one step to the next an upload holds no less.
InlineHoldsMore ==
  /\ mpu' \in Seq(InlineUploads) /\ DOMAIN mpu \subseteq DOMAIN mpu'
  /\ \A id \in DOMAIN mpu : mpu[id].got \subseteq mpu'[id].got

LEMMA InlineStaysTrue ==
  ASSUME InlineHoldsMore, NEW s, StateTrueIn(s, mpu)
  PROVE  StateTrueIn(s, mpu')
  BY DEF InlineHoldsMore, StateTrueIn

LEMMA FreshHoldsMore ==
  ASSUME NEW u \in Seq(InlineUploads), NEW v, v = Fresh(u)
  PROVE  /\ v \in Seq(InlineUploads) /\ DOMAIN v = 1 .. Len(u) + 1 /\ DOMAIN u = 1 .. Len(u)
         /\ \A id \in DOMAIN u : v[id] = u[id]
         /\ Len(v) = Len(u) + 1 /\ v[Len(v)] = [open |-> TRUE, got |-> {}]
<1>1. [open |-> TRUE, got |-> {}] \in InlineUploads
  BY DEF InlineUploads
<1> QED  BY <1>1 DEF Fresh

LEMMA AbortHoldsSame ==
  ASSUME NEW u \in Seq(InlineUploads), NEW ids, NEW v, v = Abort(u, ids)
  PROVE  /\ v \in Seq(InlineUploads) /\ Len(v) = Len(u)
         /\ \A id \in DOMAIN u : v[id].got = u[id].got
<1>1. ASSUME NEW id \in DOMAIN u PROVE v[id] \in InlineUploads /\ v[id].got = u[id].got
  <2>1. u[id] \in InlineUploads
    OBVIOUS
  <2>2. v[id] = u[id] \/ v[id] = [u[id] EXCEPT !.open = FALSE]
    BY DEF Abort
  <2> QED  BY <2>1, <2>2 DEF InlineUploads
<1>2. v \in [1 .. Len(u) -> InlineUploads]
  BY <1>1 DEF Abort
<1> QED  BY <1>1, <1>2

LEMMA InlineInitially == InlineInit => InlineInv
  BY DEF InlineInit, InlineInv, InlineShapes, SavedState, Worked, Working, Quiet, Ready, MadeWhole, Controls, Sends, Idle

\* A call looks at the state file, and starts from one that is true.
LEMMA ProceedKeepsInv ==
  ASSUME InlineInv, InlineHoldsMore, ctl = "begin", NEW chosen, StateTrueIn(chosen, mpu'), Proceed(chosen),
         UNCHANGED <<made, file, send>>
  PROVE  InlineInv'
<1>1. InlineShapes' /\ SavedState' /\ MadeWhole'
  BY DEF InlineInv, InlineShapes, SavedState, InlineHoldsMore, MadeWhole, Proceed, Controls
<1>2. Worked' /\ Quiet' /\ Ready'
  BY DEF InlineInv, Worked, Working, Quiet, Ready, Proceed, StateTrueIn
<1> QED  BY <1>1, <1>2 DEF InlineInv

LEMMA BeginKeepsInv ==
  ASSUME InlineInv, BeginNew \/ BeginResume \/ BeginChanged
  PROVE  InlineInv'
<1> USE DEF InlineInv, InlineShapes
<1>1. ASSUME mpu' = Fresh(mpu) PROVE InlineHoldsMore
  BY <1>1, FreshHoldsMore DEF InlineHoldsMore
<1>2. CASE BeginNew
  <2>1. PICK c : c = Empty(Len(mpu'))
    OBVIOUS
  <2>2. StateTrueIn(c, mpu')
    BY <1>2, <2>1, FreshHoldsMore DEF BeginNew, StateTrueIn, Empty, States
  <2>3. InlineHoldsMore /\ Proceed(c) /\ ctl = "begin" /\ UNCHANGED <<made, file, send>>
    BY <1>1, <1>2, <2>1 DEF BeginNew
  <2> QED  BY <2>2, <2>3, ProceedKeepsInv
<1>3. CASE BeginResume
  <2>1. PICK c : c = saved
    OBVIOUS
  <2>2. InlineHoldsMore /\ Proceed(c) /\ ctl = "begin" /\ UNCHANGED <<made, file, send>>
    BY <1>1, <1>3, <2>1 DEF BeginResume
  <2>3. StateTrueIn(c, mpu)
    BY <1>3, <2>1 DEF BeginResume, SavedState
  <2>4. StateTrueIn(c, mpu')
    BY <2>2, <2>3, InlineStaysTrue
  <2> QED  BY <2>2, <2>4, ProceedKeepsInv
<1>4. CASE BeginChanged
  <2>1. PICK ids : mpu' = Fresh(Abort(Fresh(mpu), ids))
    BY <1>4 DEF BeginChanged
  <2> DEFINE u == Fresh(mpu)
             v == Abort(u, ids)
  <2>2. InlineHoldsMore
    <3>1. u \in Seq(InlineUploads) /\ Len(u) = Len(mpu) + 1 /\ \A id \in DOMAIN mpu : u[id] = mpu[id]
      BY FreshHoldsMore
    <3>2. v \in Seq(InlineUploads) /\ Len(v) = Len(u) /\ \A id \in DOMAIN u : v[id].got = u[id].got
      BY <3>1, AbortHoldsSame
    <3>3. mpu' \in Seq(InlineUploads) /\ Len(mpu') = Len(v) + 1 /\ \A id \in DOMAIN v : mpu'[id] = v[id]
      BY <2>1, <3>2, FreshHoldsMore
    <3> HIDE DEF u, v
    <3>4. /\ DOMAIN mpu = 1 .. Len(mpu) /\ DOMAIN u = 1 .. Len(u)
          /\ DOMAIN v = 1 .. Len(v) /\ DOMAIN mpu' = 1 .. Len(mpu')
      BY <3>1, <3>2, <3>3
    <3>5. Len(mpu) \in Nat /\ DOMAIN mpu \subseteq DOMAIN u /\ DOMAIN u = DOMAIN v /\ DOMAIN v \subseteq DOMAIN mpu'
      BY <3>1, <3>2, <3>3, <3>4
    <3>6. ASSUME NEW id \in DOMAIN mpu PROVE mpu'[id].got = mpu[id].got
      <4>1. id \in DOMAIN u /\ id \in DOMAIN v
        BY <3>5
      <4>2. mpu'[id] = v[id] /\ v[id].got = u[id].got /\ u[id] = mpu[id]
        BY <3>1, <3>2, <3>3, <4>1
      <4> QED  BY <4>2
    <3> QED  BY <3>3, <3>5, <3>6 DEF InlineHoldsMore
  <2>3. SavedState' /\ MadeWhole'
    BY <1>4, <2>2, InlineStaysTrue DEF BeginChanged, SavedState, MadeWhole
  <2> QED  BY <1>4, <2>2, <2>3 DEF BeginChanged, InlineHoldsMore, Controls, Worked, Working, Quiet, Ready
<1> QED  BY <1>2, <1>3, <1>4

\* A call ends, or the process dies: what is stored stays as it is.
LEMMA EndsKeepInv ==
  ASSUME InlineInv, Call \/ Die \/ Edit \/ Finish
  PROVE  InlineInv'
<1> USE DEF InlineInv, InlineShapes
<1>1. UNCHANGED <<saved, mpu, made>> /\ file' \in Nat
  BY DEF Call, Die, Edit, Finish, storedVars
<1>2. SavedState' /\ MadeWhole'
  BY <1>1 DEF SavedState, StateTrueIn, MadeWhole
<1>3. ctl' \in {"off", "begin"} /\ send' \in [Part -> Sends]
  BY DEF Call, Die, Edit, Finish, Forget, Idle, Sends
<1>4. Quiet'
  <2>1. CASE Call
    BY <2>1 DEF Call, Quiet, Working
  <2>2. CASE Edit
    BY <2>2 DEF Edit, Quiet, Working
  <2>3. CASE Die \/ Finish
    BY <2>3 DEF Die, Finish, Forget, Idle, Quiet
  <2> QED  BY <2>1, <2>2, <2>3
<1> QED  BY <1>1, <1>2, <1>3, <1>4 DEF Worked, Working, Ready, Controls

\* The chunker, its fetches and the queue do not touch the upload.
LEMMA ChunksKeepInv ==
  ASSUME InlineInv,
         \/ ChunkerFetches \/ ChunkerEnds \/ RunnerGets
         \/ \E n \in Part : FetchGives(n) \/ FetchEnds(n, "fetched") \/ FetchEnds(n, "failed")
  PROVE  InlineInv'
<1> USE DEF InlineInv, InlineShapes
<1>1. UNCHANGED <<saved, mpu, made, file, state, send>>
  BY DEF ChunkerFetches, ChunkerEnds, RunnerGets, FetchGives, FetchEnds, storedVars
<1>2. ctl' = ctl \/ (ctl = "get" /\ ctl' \in {"join", "hold"})
  BY DEF ChunkerFetches, ChunkerEnds, RunnerGets, FetchGives, FetchEnds
<1> QED  BY <1>1, <1>2 DEF SavedState, StateTrueIn, Worked, Working, Quiet, Ready, MadeWhole, Controls

LEMMA RunnerKeepsInv ==
  ASSUME InlineInv, RunnerSubmits \/ RunnerEnds
  PROVE  InlineInv'
<1> USE DEF InlineInv, InlineShapes
<1>1. UNCHANGED <<saved, mpu, made, file, state>>
  BY DEF RunnerSubmits, RunnerEnds, storedVars
<1>2. SavedState' /\ MadeWhole'
  BY <1>1 DEF SavedState, StateTrueIn, MadeWhole
<1>3. CASE RunnerSubmits
  <2>1. ctl = "hold" /\ ctl' = "get" /\ send' = [send EXCEPT ![held] = "sending"]
    BY <1>3 DEF RunnerSubmits
  <2>2. send' \in [Part -> Sends] /\ \A n \in Part : send'[n] = "sent" => send[n] = "sent"
    BY <2>1 DEF Sends
  <2> QED  BY <1>1, <1>2, <2>1, <2>2 DEF StateTrueIn, Worked, Working, Quiet, Ready, Controls
<1>4. CASE RunnerEnds
  <2>1. /\ ctl = "join" /\ UNCHANGED send /\ \A n \in Part : send[n] \notin {"sending", "sent"}
        /\ (ctl' = "complete" /\ state.parts = Part) \/ ctl' = "suspended"
    BY <1>4 DEF RunnerEnds
  <2> QED  BY <1>1, <1>2, <2>1 DEF StateTrueIn, Worked, Working, Quiet, Ready, Controls
<1> QED  BY <1>3, <1>4

\* A part is sent to the upload of the call's own state, and only while the
\* runner is at work.
LEMMA SendKeepsInv ==
  ASSUME InlineInv, NEW n \in Part, NEW how \in {"sent", "failed"}, SendEnds(n, how)
  PROVE  InlineInv'
<1> USE DEF InlineInv, InlineShapes
<1>1. /\ send[n] = "sending" /\ send' = [send EXCEPT ![n] = how]
      /\ UNCHANGED <<saved, made, file, ctl, state>>
  BY DEF SendEnds
<1>2. ctl \in Working /\ StateTrueIn(state, mpu)
  BY <1>1 DEF Quiet, Worked
<1> DEFINE id == state.id
<1>3. id \in DOMAIN mpu /\ mpu[id] \in InlineUploads
  BY <1>2 DEF StateTrueIn
<1>4. PICK done \in BOOLEAN :
        /\ how = "sent" => done
        /\ mpu' = IF done THEN [mpu EXCEPT ![id].got = @ \cup {n}] ELSE mpu
  BY DEF SendEnds
<1>5. InlineHoldsMore /\ (how = "sent" => n \in mpu'[id].got)
  <2>1. CASE done
    <3> DEFINE more == [mpu[id] EXCEPT !.got = @ \cup {n}]
    <3>1. mpu' = [mpu EXCEPT ![id] = more]
      BY <1>4, <2>1
    <3>2. more \in InlineUploads /\ more.got = mpu[id].got \cup {n}
      BY <1>3 DEF InlineUploads
    <3> HIDE DEF more
    <3>3. mpu' \in Seq(InlineUploads) /\ DOMAIN mpu' = DOMAIN mpu
      BY <1>3, <3>1, <3>2
    <3> QED  BY <1>3, <3>1, <3>2, <3>3 DEF InlineHoldsMore
  <2>2. CASE ~done
    BY <1>4, <2>2 DEF InlineHoldsMore
  <2> QED  BY <2>1, <2>2
<1>6. SavedState' /\ StateTrueIn(state, mpu')
  BY <1>1, <1>2, <1>5, InlineStaysTrue DEF SavedState
<1>7. Worked'
  <2>1. ASSUME NEW m \in Part, send'[m] = "sent" PROVE m \in mpu'[id].got
    <3>1. CASE m = n
      BY <1>1, <1>5, <2>1, <3>1
    <3>2. CASE m # n
      BY <1>1, <1>2, <1>3, <1>5, <2>1, <3>2 DEF Worked, InlineHoldsMore
    <3> QED  BY <3>1, <3>2
  <2> QED  BY <1>1, <1>6, <2>1 DEF Worked
<1> QED  BY <1>1, <1>2, <1>5, <1>6, <1>7 DEF InlineHoldsMore, Quiet, Working, Ready, MadeWhole, Sends

LEMMA KeepKeepsInv ==
  ASSUME InlineInv, NEW n \in Part, Keep(n)
  PROVE  InlineInv'
<1> USE DEF InlineInv, InlineShapes
<1>1. /\ send[n] = "sent" /\ send' = [send EXCEPT ![n] = "kept"]
      /\ state' = [state EXCEPT !.parts = @ \cup {n}] /\ saved' = state'
      /\ UNCHANGED <<mpu, made, file, ctl>>
  BY DEF Keep
<1>2. ctl \in Working /\ StateTrueIn(state, mpu) /\ n \in mpu[state.id].got
  BY <1>1 DEF Quiet, Worked
<1>3. StateTrueIn(state', mpu) /\ state'.id = state.id
  BY <1>1, <1>2 DEF StateTrueIn, States
<1>4. send' \in [Part -> Sends] /\ \A m \in Part : send'[m] = "sent" => send[m] = "sent"
  BY <1>1 DEF Sends
<1>5. SavedState' /\ Worked'
  BY <1>1, <1>2, <1>3, <1>4 DEF SavedState, Worked, StateTrueIn
<1> QED  BY <1>1, <1>2, <1>4, <1>5 DEF Quiet, Working, Ready, MadeWhole

\* The object is assembled only of a state that has every part.
LEMMA InlineCompleteKeepsInv ==
  ASSUME InlineInv, NEW how \in {"uploaded", "raised"}, CompleteInline(how)
  PROVE  InlineInv'
<1> USE DEF InlineInv, InlineShapes
<1>1. ctl = "complete" /\ ctl' = how /\ UNCHANGED <<saved, file, state, send>>
  BY DEF CompleteInline
<1>2. StateTrueIn(state, mpu) /\ state.parts = Part
  BY <1>1 DEF Worked, Ready
<1>3. \/ /\ mpu' = [mpu EXCEPT ![state.id].open = FALSE]
         /\ made' = [file |-> file, parts |-> state.parts]
      \/ UNCHANGED <<mpu, made>>
  BY DEF CompleteInline
<1>4. MadeWhole'
  BY <1>2, <1>3 DEF MadeWhole
<1>5. InlineHoldsMore
  <2>1. CASE UNCHANGED mpu
    BY <2>1 DEF InlineHoldsMore
  <2>2. CASE mpu' = [mpu EXCEPT ![state.id].open = FALSE]
    <3> DEFINE id   == state.id
               shut == [mpu[id] EXCEPT !.open = FALSE]
    <3>1. mpu' = [mpu EXCEPT ![id] = shut] /\ id \in DOMAIN mpu /\ mpu[id] \in InlineUploads
      BY <1>2, <2>2 DEF StateTrueIn
    <3>2. shut \in InlineUploads /\ shut.got = mpu[id].got
      BY <3>1 DEF InlineUploads
    <3> HIDE DEF shut
    <3>3. mpu' \in Seq(InlineUploads) /\ DOMAIN mpu' = DOMAIN mpu
      BY <3>1, <3>2
    <3> QED  BY <3>1, <3>2, <3>3 DEF InlineHoldsMore
  <2> QED  BY <1>3, <2>1, <2>2
<1>6. SavedState'
  BY <1>1, <1>5, InlineStaysTrue DEF SavedState
<1> QED  BY <1>1, <1>4, <1>5, <1>6 DEF InlineHoldsMore, Worked, Working, Quiet, Ready, Controls

LEMMA InlineStepsKeepInv ==
  ASSUME InlineInv, [InlineNext]_inlineVars
  PROVE  InlineInv'
<1>1. CASE Call \/ Die \/ Edit \/ Finish
  BY <1>1, EndsKeepInv
<1>2. CASE BeginNew \/ BeginResume \/ BeginChanged
  BY <1>2, BeginKeepsInv
<1>3. CASE \/ ChunkerFetches \/ ChunkerEnds \/ RunnerGets
           \/ \E n \in Part : FetchGives(n) \/ FetchEnds(n, "fetched") \/ FetchEnds(n, "failed")
  BY <1>3, ChunksKeepInv
<1>4. CASE RunnerSubmits \/ RunnerEnds
  BY <1>4, RunnerKeepsInv
<1>5. CASE \E n \in Part : Keep(n)
  BY <1>5, KeepKeepsInv
<1>6. CASE \E n \in Part : SendEnds(n, "sent") \/ SendEnds(n, "failed")
  BY <1>6, SendKeepsInv
<1>7. CASE CompleteInline("uploaded") \/ CompleteInline("raised")
  BY <1>7, InlineCompleteKeepsInv
<1>8. CASE Mishap
  BY <1>3, <1>6, <1>7, <1>8 DEF Mishap
<1>9. CASE InlineStep
  BY <1>1, <1>2, <1>3, <1>4, <1>5, <1>6, <1>7, <1>9 DEF InlineStep, Sending
<1>10. CASE UNCHANGED inlineVars
  BY <1>10 DEF inlineVars, InlineInv, InlineShapes, SavedState, StateTrueIn, Worked, Quiet, Ready, MadeWhole
<1> QED  BY <1>1, <1>8, <1>9, <1>10 DEF InlineNext

LEMMA InlineInductive == InlineSpec => []InlineInv
<1>1. InlineInv /\ [InlineNext]_inlineVars => InlineInv'
  BY InlineStepsKeepInv
<1> QED  BY <1>1, InlineInitially, PTL DEF InlineSpec

(* The state file of upload_file_multipart() never claims a part that its    *)
(* multipart upload does not hold: a part is added to it only after S3 has   *)
(* taken it, under the id it was sent to, and S3 loses none.  So a later     *)
(* call may trust the file, whatever died or failed in between.              *)
THEOREM SavedStaysTrue == InlineSpec => []SavedIsTrue
<1>1. InlineInv => SavedIsTrue
  BY DEF InlineInv, SavedState, StateTrueIn, SavedIsTrue
<1> QED  BY <1>1, InlineInductive, PTL

(* What it assembles holds every chunk of the file, though fetches fail, or  *)
(* come after the end of the stream, or the call was suspended.              *)
THEOREM MadeOfAllChunks == InlineSpec => []MadeWhole
<1>1. InlineInv => MadeWhole
  BY DEF InlineInv
<1> QED  BY <1>1, InlineInductive, PTL
=============================================================================
