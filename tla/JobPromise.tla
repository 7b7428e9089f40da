----------------------------- MODULE JobPromise -----------------------------
(***************************************************************************)
(* What a JobHandle promises its caller, with no monitor in sight: a       *)
(* started job is told at most one verdict, the verdict is true of what    *)
(* the job really did, a cancellation is reported only to a caller who     *)
(* asked for one, and a job is called lost only when rclone can no longer  *)
(* answer for it.                                                          *)
(***************************************************************************)
CONSTANTS Jobs, None

VARIABLES
  truth,    \* what each job has really done
  asked,    \* whether this client asked to cancel it
  vanished, \* the jobs rclone can no longer answer for
  told      \* the verdict wait() gives, None while it blocks

promiseVars == <<truth, asked, vanished, told>>

Truths == {"none", "running", "succeeded", "failed", "interrupted", "skewed"}
Told   == {"succeeded", "failed", "cancelled", "expired", "mismatch", "closed"}

PromiseTypeOK ==
  /\ truth \in [Jobs -> Truths]
  /\ asked \in [Jobs -> BOOLEAN]
  /\ vanished \subseteq Jobs
  /\ told \in [Jobs -> Told \cup {None}]

Init ==
  /\ truth = [j \in Jobs |-> "none"]
  /\ asked = [j \in Jobs |-> FALSE]
  /\ vanished = {}
  /\ told = [j \in Jobs |-> None]

Start(j) ==
  /\ truth[j] = "none"
  /\ truth' = [truth EXCEPT ![j] = "running"]
  /\ UNCHANGED <<asked, vanished, told>>

End(j) ==
  /\ truth[j] = "running"
  /\ \E e \in Truths \ {"none", "running"} : truth' = [truth EXCEPT ![j] = e]
  /\ UNCHANGED <<asked, vanished, told>>

Vanish ==
  /\ vanished' \in SUBSET Jobs
  /\ vanished \subseteq vanished'
  /\ \A j \in vanished' : truth[j] # "none"
  /\ UNCHANGED <<truth, asked, told>>

Ask(j) ==
  /\ truth[j] # "none" /\ told[j] = None
  /\ asked' = [asked EXCEPT ![j] = TRUE]
  /\ UNCHANGED <<truth, vanished, told>>

\* The verdicts that are true of job j.
Fair(j) ==
  {v \in Told :
    \/ v = "succeeded" /\ truth[j] = "succeeded"
    \/ v = "failed"    /\ truth[j] \in {"failed", "interrupted"}
    \/ v = "cancelled" /\ truth[j] = "interrupted" /\ asked[j]
    \/ v \in {"expired", "mismatch", "closed"} /\ j \in vanished}

Tell(j) ==
  /\ told[j] = None
  /\ \E v \in Fair(j) : told' = [told EXCEPT ![j] = v]
  /\ UNCHANGED <<truth, asked, vanished>>

Next ==
  \/ \E j \in Jobs : Start(j) \/ End(j) \/ Ask(j) \/ Tell(j)
  \/ Vanish

Spec == Init /\ [][Next]_promiseVars
=============================================================================
