------------------------ MODULE Authorization_proofs ------------------------
(***************************************************************************)
(* That the manager of authorization/ runs one session at a time, for any  *)
(* sessions, names, owners and caps, and that what it tells is true.       *)
(*                                                                         *)
(* TypeOK is proved group of variables by group of variables; each other   *)
(* conjunct of Inv has a lemma of its own, *Step, that one step preserves  *)
(* it, with a leaf an action; InvHolds puts them together, and the         *)
(* properties follow from Inv.                                             *)
(***************************************************************************)
EXTENDS Authorization, TLAPS

LEMMA NameTyped == Name \in [Sessions -> Names]
  BY AuthorizationAssumption DEF AuthorizationAssumption

LEMMA NoneIsNoSession == None \notin Sessions
  BY AuthorizationAssumption DEF AuthorizationAssumption

\* What _promote_next() leaves in the slot and in the queue.
LEMMA PromoteType ==
  ASSUME TypeOK, PromoteNext
  PROVE  /\ active' \in Sessions \cup {None} /\ ticket' \in [Sessions -> Nat]
         /\ adm' \in [Sessions -> {"off", "admit", "arm", "done"}]
<1> DEFINE Live == {s \in Queued : ~Over(s)}
<1>1. CASE UNCHANGED <<active, ticket, adm>>
  BY <1>1 DEF TypeOK, QueueType, CallerType
<1>2. CASE ticket' = [r \in Sessions |-> 0] /\ UNCHANGED <<active, adm>>
  BY <1>2 DEF TypeOK, QueueType, CallerType
<1>3. ASSUME NEW s \in Live,
             active' = s,
             ticket' = [r \in Sessions |-> IF ticket[r] <= ticket[s] THEN 0 ELSE ticket[r]],
             adm' = [adm EXCEPT ![s] = "admit"]
      PROVE  /\ active' \in Sessions \cup {None} /\ ticket' \in [Sessions -> Nat]
             /\ adm' \in [Sessions -> {"off", "admit", "arm", "done"}]
  BY <1>3 DEF TypeOK, QueueType, CallerType, Queued
<1>4. QED
  BY <1>1, <1>2, <1>3 DEF PromoteNext

\* A dispatched stop thread is one of the stop threads.
LEMMA DispatchType ==
  ASSUME HelperType, NEW s \in Sessions, NEW k \in Causes, Dispatch(s, k)
  PROVE  stopper' \in [Sessions -> [Causes -> Stoppers]]
<1> DEFINE new == IF stopper[s][k] \in {"try", "look"} THEN stopper[s][k] ELSE "try"
<1>1. stopper[s] \in [Causes -> Stoppers] /\ new \in Stoppers
  BY DEF HelperType, Stoppers
<1>2. [stopper[s] EXCEPT ![k] = new] \in [Causes -> Stoppers]
  BY <1>1
<1>3. stopper' = [stopper EXCEPT ![s] = [stopper[s] EXCEPT ![k] = new]]
  BY DEF Dispatch
<1>4. QED
  BY <1>2, <1>3 DEF HelperType

LEMMA TypeStep ==
  ASSUME TypeOK, QueueShape, [Next]_vars
  PROVE  TypeOK'
<1>1. ASSUME NEW s \in Sessions, StartCheck(s) PROVE TypeOK'
  BY <1>1, AuthorizationAssumption DEF AuthorizationAssumption, StartCheck, rcloneVars,
     queueVars, recordVars, timerVars, appVars, workerVars, TypeOK, RcloneType, QueueType,
     RecordType, CallerType, WorkerType, HelperType, Terminals, Statuses, Causes, Gens,
     Sections, Apps, Drivers, Watches, Stoppers, Lates, Advance, Over, Queued
<1>2. ASSUME NEW s \in Sessions, StartAdmitted(s) PROVE TypeOK'
  BY <1>2, AuthorizationAssumption DEF AuthorizationAssumption, StartAdmitted, rcloneVars,
     queueVars, recordVars, timerVars, appVars, workerVars, TypeOK, RcloneType, QueueType,
     RecordType, CallerType, WorkerType, HelperType, Terminals, Statuses, Causes, Gens,
     Sections, Apps, Drivers, Watches, Stoppers, Lates, Advance, Over, Queued
<1>3. ASSUME NEW s \in Sessions, StartQueued(s) PROVE TypeOK'
  BY <1>3, AuthorizationAssumption DEF AuthorizationAssumption, StartQueued, rcloneVars,
     queueVars, recordVars, timerVars, appVars, workerVars, TypeOK, RcloneType, QueueType,
     RecordType, CallerType, WorkerType, HelperType, Terminals, Statuses, Causes, Gens,
     Sections, Apps, Drivers, Watches, Stoppers, Lates, Advance, Over, Queued
<1>4. ASSUME NEW s \in Sessions, StartRefused(s) PROVE TypeOK'
  BY <1>4, AuthorizationAssumption DEF AuthorizationAssumption, StartRefused, rcloneVars,
     queueVars, recordVars, timerVars, appVars, workerVars, TypeOK, RcloneType, QueueType,
     RecordType, CallerType, WorkerType, HelperType, Terminals, Statuses, Causes, Gens,
     Sections, Apps, Drivers, Watches, Stoppers, Lates, Advance, Over, Queued
<1>5. ASSUME NEW s \in Sessions, AdmitStatus(s) PROVE TypeOK'
  BY <1>5, AuthorizationAssumption DEF AuthorizationAssumption, AdmitStatus, rcloneVars,
     queueVars, recordVars, timerVars, appVars, workerVars, TypeOK, RcloneType, QueueType,
     RecordType, CallerType, WorkerType, HelperType, Terminals, Statuses, Causes, Gens,
     Sections, Apps, Drivers, Watches, Stoppers, Lates, Advance, Over, Queued
<1>6. ASSUME NEW s \in Sessions, AdmitStart(s) PROVE TypeOK'
  <2>1. RcloneType'
    BY <1>6, AuthorizationAssumption DEF AdmitStart, AuthorizationAssumption, rcloneVars,
       TypeOK, RcloneType, Sections
  <2>2. QueueType'
    BY <1>6 DEF AdmitStart, queueVars, TypeOK, QueueType
  <2>3. RecordType'
    BY <1>6 DEF AdmitStart, recordVars, timerVars, TypeOK, RecordType, Statuses, Terminals,
       Advance, Over, QueueShape
  <2>4. CallerType'
    BY <1>6 DEF AdmitStart, appVars, TypeOK, CallerType, Apps
  <2>5. WorkerType'
    BY <1>6 DEF AdmitStart, workerVars, TypeOK, WorkerType, Drivers, Watches, RcloneType
  <2>6. HelperType'
    BY <1>6 DEF AdmitStart, TypeOK, HelperType, Stoppers, Causes, Lates, Gens, RecordType
  <2>7. QED
    BY <2>1, <2>2, <2>3, <2>4, <2>5, <2>6 DEF TypeOK
<1>7. ASSUME NEW s \in Sessions, CancelCall(s) PROVE TypeOK'
  BY <1>7, AuthorizationAssumption DEF AuthorizationAssumption, CancelCall, Returned,
     rcloneVars, queueVars, recordVars, timerVars, appVars, workerVars, TypeOK, RcloneType,
     QueueType, RecordType, CallerType, WorkerType, HelperType, Terminals, Statuses, Causes,
     Gens, Sections, Apps, Drivers, Watches, Stoppers, Lates, Advance, Over, Queued
<1>8. ASSUME NEW s \in Sessions, CloseCall(s) PROVE TypeOK'
  BY <1>8, AuthorizationAssumption DEF AuthorizationAssumption, CloseCall, Returned, rcloneVars,
     queueVars, recordVars, timerVars, appVars, workerVars, TypeOK, RcloneType, QueueType,
     RecordType, CallerType, WorkerType, HelperType, Terminals, Statuses, Causes, Gens,
     Sections, Apps, Drivers, Watches, Stoppers, Lates, Advance, Over, Queued
<1>9. ASSUME NEW s \in Sessions, CancelQueued(s) PROVE TypeOK'
  BY <1>9, AuthorizationAssumption DEF AuthorizationAssumption, CancelQueued, rcloneVars,
     queueVars, recordVars, timerVars, appVars, workerVars, TypeOK, RcloneType, QueueType,
     RecordType, CallerType, WorkerType, HelperType, Terminals, Statuses, Causes, Gens,
     Sections, Apps, Drivers, Watches, Stoppers, Lates, Advance, Over, Queued
<1>10. ASSUME NEW s \in Sessions, CancelLook(s) PROVE TypeOK'
  BY <1>10, AuthorizationAssumption DEF AuthorizationAssumption, CancelLook, rcloneVars,
     queueVars, recordVars, timerVars, appVars, workerVars, TypeOK, RcloneType, QueueType,
     RecordType, CallerType, WorkerType, HelperType, Terminals, Statuses, Causes, Gens,
     Sections, Apps, Drivers, Watches, Stoppers, Lates, Advance, Over, Queued
<1>11. ASSUME NEW s \in Sessions, CancelAsk(s) PROVE TypeOK'
  <2>1. RcloneType'
    BY <1>11, AuthorizationAssumption DEF CancelAsk, Dispatch, AuthorizationAssumption,
       rcloneVars, TypeOK, RcloneType, Sections
  <2>2. QueueType'
    BY <1>11 DEF CancelAsk, Dispatch, queueVars, TypeOK, QueueType
  <2>3. RecordType'
    BY <1>11 DEF CancelAsk, Dispatch, recordVars, timerVars, TypeOK, RecordType, Statuses,
       Terminals, Advance, Over, QueueShape
  <2>4. CallerType'
    BY <1>11 DEF CancelAsk, appVars, TypeOK, CallerType, Apps
  <2>5. WorkerType'
    BY <1>11 DEF CancelAsk, Dispatch, workerVars, TypeOK, WorkerType, Drivers, Watches,
       RcloneType
  <2>6. HelperType'
    <3>1. CASE Over(s)
      BY <1>11, <3>1 DEF CancelAsk, TypeOK, HelperType, Stoppers, Causes, Lates, Gens
    <3>2. CASE ~Over(s)
      BY <1>11, <3>2, DispatchType DEF CancelAsk, TypeOK, HelperType, Stoppers, Causes, Lates,
         Gens
    <3>3. QED
      BY <3>1, <3>2
  <2>7. QED
    BY <2>1, <2>2, <2>3, <2>4, <2>5, <2>6 DEF TypeOK
<1>12. ASSUME NEW s \in Sessions, CloseRemove(s) PROVE TypeOK'
  BY <1>12, AuthorizationAssumption DEF AuthorizationAssumption, CloseRemove, rcloneVars,
     queueVars, recordVars, timerVars, appVars, workerVars, TypeOK, RcloneType, QueueType,
     RecordType, CallerType, WorkerType, HelperType, Terminals, Statuses, Causes, Gens,
     Sections, Apps, Drivers, Watches, Stoppers, Lates, Advance, Over, Queued
<1>13. ASSUME NEW s \in Sessions, CloseMark(s) PROVE TypeOK'
  BY <1>13, AuthorizationAssumption DEF AuthorizationAssumption, CloseMark, rcloneVars,
     queueVars, recordVars, timerVars, appVars, workerVars, TypeOK, RcloneType, QueueType,
     RecordType, CallerType, WorkerType, HelperType, Terminals, Statuses, Causes, Gens,
     Sections, Apps, Drivers, Watches, Stoppers, Lates, Advance, Over, Queued
<1>14. ASSUME NEW s \in Sessions, NEW k \in Causes, StopFlow(s, k) PROVE TypeOK'
  BY <1>14, AuthorizationAssumption DEF AuthorizationAssumption, StopFlow, rcloneVars,
     queueVars, recordVars, timerVars, appVars, workerVars, TypeOK, RcloneType, QueueType,
     RecordType, CallerType, WorkerType, HelperType, Terminals, Statuses, Causes, Gens,
     Sections, Apps, Drivers, Watches, Stoppers, Lates, Advance, Over, Queued
<1>15. ASSUME NEW s \in Sessions, NEW k \in Causes, StopNothing(s, k) PROVE TypeOK'
  BY <1>15, AuthorizationAssumption DEF AuthorizationAssumption, StopNothing, rcloneVars,
     queueVars, recordVars, timerVars, appVars, workerVars, TypeOK, RcloneType, QueueType,
     RecordType, CallerType, WorkerType, HelperType, Terminals, Statuses, Causes, Gens,
     Sections, Apps, Drivers, Watches, Stoppers, Lates, Advance, Over, Queued
<1>16. ASSUME NEW s \in Sessions, NEW k \in Causes, StopFails(s, k) PROVE TypeOK'
  BY <1>16, AuthorizationAssumption DEF AuthorizationAssumption, StopFails, rcloneVars,
     queueVars, recordVars, timerVars, appVars, workerVars, TypeOK, RcloneType, QueueType,
     RecordType, CallerType, WorkerType, HelperType, Terminals, Statuses, Causes, Gens,
     Sections, Apps, Drivers, Watches, Stoppers, Lates, Advance, Over, Queued
<1>17. ASSUME NEW s \in Sessions, NEW k \in Causes, StopLook(s, k) PROVE TypeOK'
  BY <1>17, AuthorizationAssumption DEF AuthorizationAssumption, StopLook, rcloneVars,
     queueVars, recordVars, timerVars, appVars, workerVars, TypeOK, RcloneType, QueueType,
     RecordType, CallerType, WorkerType, HelperType, Terminals, Statuses, Causes, Gens,
     Sections, Apps, Drivers, Watches, Stoppers, Lates, Advance, Over, Queued
<1>18. ASSUME NEW s \in Sessions, NEW k \in Causes, StopGivesUp(s, k) PROVE TypeOK'
  BY <1>18, AuthorizationAssumption DEF AuthorizationAssumption, StopGivesUp, rcloneVars,
     queueVars, recordVars, timerVars, appVars, workerVars, TypeOK, RcloneType, QueueType,
     RecordType, CallerType, WorkerType, HelperType, Terminals, Statuses, Causes, Gens,
     Sections, Apps, Drivers, Watches, Stoppers, Lates, Advance, Over, Queued
<1>19. ASSUME NEW s \in Sessions, Create(s) PROVE TypeOK'
  <2>1. RcloneType'
    BY <1>19, AuthorizationAssumption DEF Create, AuthorizationAssumption, rcloneVars, TypeOK,
       RcloneType, Sections
  <2>2. QueueType'
    BY <1>19 DEF Create, queueVars, TypeOK, QueueType
  <2>3. RecordType'
    BY <1>19 DEF Create, recordVars, timerVars, TypeOK, RecordType, Statuses, Terminals,
       Advance, Over, QueueShape
  <2>4. CallerType'
    BY <1>19 DEF Create, appVars, TypeOK, CallerType, Apps
  <2>5. WorkerType'
    BY <1>19 DEF Create, workerVars, TypeOK, WorkerType, Drivers, Watches, RcloneType
  <2>6. HelperType'
    BY <1>19 DEF Create, TypeOK, HelperType, Stoppers, Causes, Lates, Gens, RecordType
  <2>7. QED
    BY <2>1, <2>2, <2>3, <2>4, <2>5, <2>6 DEF TypeOK
<1>20. ASSUME NEW s \in Sessions, Answer(s) PROVE TypeOK'
  <2>1. RcloneType'
    BY <1>20, AuthorizationAssumption DEF Answer, AuthorizationAssumption, rcloneVars, TypeOK,
       RcloneType, Sections
  <2>2. QueueType'
    BY <1>20 DEF Answer, queueVars, TypeOK, QueueType
  <2>3. RecordType'
    BY <1>20 DEF Answer, recordVars, timerVars, TypeOK, RecordType, Statuses, Terminals,
       Advance, Over, QueueShape
  <2>4. CallerType'
    BY <1>20 DEF Answer, appVars, TypeOK, CallerType, Apps
  <2>5. WorkerType'
    BY <1>20 DEF Answer, workerVars, TypeOK, WorkerType, Drivers, Watches, RcloneType
  <2>6. HelperType'
    BY <1>20 DEF Answer, TypeOK, HelperType, Stoppers, Causes, Lates, Gens, RecordType
  <2>7. QED
    BY <2>1, <2>2, <2>3, <2>4, <2>5, <2>6 DEF TypeOK
<1>21. ASSUME NEW s \in Sessions, Bind(s) PROVE TypeOK'
  <2>1. RcloneType'
    BY <1>21, AuthorizationAssumption DEF Bind, AuthorizationAssumption, rcloneVars, TypeOK,
       RcloneType, Sections
  <2>2. QueueType'
    BY <1>21 DEF Bind, queueVars, TypeOK, QueueType
  <2>3. RecordType'
    BY <1>21 DEF Bind, recordVars, timerVars, TypeOK, RecordType, Statuses, Terminals, Advance,
       Over, QueueShape
  <2>4. CallerType'
    BY <1>21 DEF Bind, appVars, TypeOK, CallerType, Apps
  <2>5. WorkerType'
    BY <1>21 DEF Bind, workerVars, TypeOK, WorkerType, Drivers, Watches, RcloneType
  <2>6. HelperType'
    BY <1>21 DEF Bind, TypeOK, HelperType, Stoppers, Causes, Lates, Gens, RecordType
  <2>7. QED
    BY <2>1, <2>2, <2>3, <2>4, <2>5, <2>6 DEF TypeOK
<1>22. ASSUME NEW s \in Sessions, Consent(s) PROVE TypeOK'
  <2>1. RcloneType'
    BY <1>22, AuthorizationAssumption DEF Consent, AuthorizationAssumption, rcloneVars, TypeOK,
       RcloneType, Sections
  <2>2. QueueType'
    BY <1>22 DEF Consent, queueVars, TypeOK, QueueType
  <2>3. RecordType'
    BY <1>22 DEF Consent, recordVars, timerVars, TypeOK, RecordType, Statuses, Terminals,
       Advance, Over, QueueShape
  <2>4. CallerType'
    BY <1>22 DEF Consent, appVars, TypeOK, CallerType, Apps
  <2>5. WorkerType'
    BY <1>22 DEF Consent, workerVars, TypeOK, WorkerType, Drivers, Watches, RcloneType
  <2>6. HelperType'
    BY <1>22 DEF Consent, TypeOK, HelperType, Stoppers, Causes, Lates, Gens, RecordType
  <2>7. QED
    BY <2>1, <2>2, <2>3, <2>4, <2>5, <2>6 DEF TypeOK
<1>23. ASSUME NEW s \in Sessions, Built(s) PROVE TypeOK'
  <2>1. RcloneType'
    BY <1>23, AuthorizationAssumption DEF Built, AuthorizationAssumption, rcloneVars, TypeOK,
       RcloneType, Sections
  <2>2. QueueType'
    BY <1>23 DEF Built, queueVars, TypeOK, QueueType
  <2>3. RecordType'
    BY <1>23 DEF Built, recordVars, timerVars, TypeOK, RecordType, Statuses, Terminals, Advance,
       Over, QueueShape
  <2>4. CallerType'
    BY <1>23 DEF Built, appVars, TypeOK, CallerType, Apps
  <2>5. WorkerType'
    BY <1>23 DEF Built, workerVars, TypeOK, WorkerType, Drivers, Watches, RcloneType
  <2>6. HelperType'
    BY <1>23 DEF Built, TypeOK, HelperType, Stoppers, Causes, Lates, Gens, RecordType
  <2>7. QED
    BY <2>1, <2>2, <2>3, <2>4, <2>5, <2>6 DEF TypeOK
<1>24. ASSUME NEW s \in Sessions, Failed(s) PROVE TypeOK'
  BY <1>24, AuthorizationAssumption DEF AuthorizationAssumption, Failed, ErrorOutcome,
     rcloneVars, queueVars, recordVars, timerVars, appVars, workerVars, TypeOK, RcloneType,
     QueueType, RecordType, CallerType, WorkerType, HelperType, Terminals, Statuses, Causes,
     Gens, Sections, Apps, Drivers, Watches, Stoppers, Lates, Advance, Over, Queued
<1>25. ASSUME NEW s \in Sessions, Cleanup(s) PROVE TypeOK'
  <2>1. RcloneType'
    BY <1>25, AuthorizationAssumption DEF Cleanup, AuthorizationAssumption, rcloneVars, TypeOK,
       RcloneType, Sections
  <2>2. QueueType'
    BY <1>25 DEF Cleanup, queueVars, TypeOK, QueueType
  <2>3. RecordType'
    BY <1>25 DEF Cleanup, recordVars, timerVars, TypeOK, RecordType, Statuses, Terminals,
       Advance, Over, QueueShape
  <2>4. CallerType'
    BY <1>25 DEF Cleanup, appVars, TypeOK, CallerType, Apps
  <2>5. WorkerType'
    BY <1>25 DEF Cleanup, workerVars, TypeOK, WorkerType, Drivers, Watches, RcloneType
  <2>6. HelperType'
    BY <1>25 DEF Cleanup, TypeOK, HelperType, Stoppers, Causes, Lates, Gens, RecordType
  <2>7. QED
    BY <2>1, <2>2, <2>3, <2>4, <2>5, <2>6 DEF TypeOK
<1>26. ASSUME NEW s \in Sessions, Delete(s) PROVE TypeOK'
  <2>1. RcloneType'
    BY <1>26, AuthorizationAssumption DEF Delete, AuthorizationAssumption, rcloneVars, TypeOK,
       RcloneType, Sections
  <2>2. QueueType'
    BY <1>26 DEF Delete, queueVars, TypeOK, QueueType
  <2>3. RecordType'
    BY <1>26 DEF Delete, recordVars, timerVars, TypeOK, RecordType, Statuses, Terminals,
       Advance, Over, QueueShape
  <2>4. CallerType'
    BY <1>26 DEF Delete, appVars, TypeOK, CallerType, Apps
  <2>5. WorkerType'
    BY <1>26 DEF Delete, workerVars, TypeOK, WorkerType, Drivers, Watches, RcloneType
  <2>6. HelperType'
    BY <1>26 DEF Delete, TypeOK, HelperType, Stoppers, Causes, Lates, Gens, RecordType
  <2>7. QED
    BY <2>1, <2>2, <2>3, <2>4, <2>5, <2>6 DEF TypeOK
<1>27. ASSUME NEW s \in Sessions, Release(s) PROVE TypeOK'
  BY <1>27, AuthorizationAssumption DEF AuthorizationAssumption, Release, rcloneVars, queueVars,
     recordVars, timerVars, appVars, workerVars, TypeOK, RcloneType, QueueType, RecordType,
     CallerType, WorkerType, HelperType, Terminals, Statuses, Causes, Gens, Sections, Apps,
     Drivers, Watches, Stoppers, Lates, Advance, Over, Queued
<1>28. ASSUME NEW s \in Sessions, DriverPromote(s) PROVE TypeOK'
  <2>1. RcloneType'
    BY <1>28, AuthorizationAssumption DEF DriverPromote, PromoteNext, AuthorizationAssumption,
       rcloneVars, TypeOK, RcloneType, Sections
  <2>2. QueueType'
    BY <1>28, PromoteType DEF DriverPromote, queueVars, TypeOK, QueueType
  <2>3. RecordType'
    BY <1>28 DEF DriverPromote, PromoteNext, recordVars, timerVars, TypeOK, RecordType,
       Statuses, Terminals, Advance, Over, QueueShape
  <2>4. CallerType'
    BY <1>28, PromoteType DEF DriverPromote, appVars, TypeOK, CallerType, Apps
  <2>5. WorkerType'
    BY <1>28 DEF DriverPromote, PromoteNext, workerVars, TypeOK, WorkerType, Drivers, Watches,
       RcloneType
  <2>6. HelperType'
    BY <1>28 DEF DriverPromote, PromoteNext, TypeOK, HelperType, Stoppers, Causes, Lates, Gens,
       RecordType
  <2>7. QED
    BY <2>1, <2>2, <2>3, <2>4, <2>5, <2>6 DEF TypeOK
<1>29. ASSUME NEW s \in Sessions, WatchPoll(s) PROVE TypeOK'
  BY <1>29, AuthorizationAssumption DEF AuthorizationAssumption, WatchPoll, rcloneVars,
     queueVars, recordVars, timerVars, appVars, workerVars, TypeOK, RcloneType, QueueType,
     RecordType, CallerType, WorkerType, HelperType, Terminals, Statuses, Causes, Gens,
     Sections, Apps, Drivers, Watches, Stoppers, Lates, Advance, Over, Queued
<1>30. ASSUME NEW s \in Sessions, WatchEnd(s) PROVE TypeOK'
  BY <1>30, AuthorizationAssumption DEF AuthorizationAssumption, WatchEnd, Stopped, rcloneVars,
     queueVars, recordVars, timerVars, appVars, workerVars, TypeOK, RcloneType, QueueType,
     RecordType, CallerType, WorkerType, HelperType, Terminals, Statuses, Causes, Gens,
     Sections, Apps, Drivers, Watches, Stoppers, Lates, Advance, Over, Queued
<1>31. ASSUME NEW s \in Sessions, WatchTell(s) PROVE TypeOK'
  BY <1>31, AuthorizationAssumption DEF AuthorizationAssumption, WatchTell, rcloneVars,
     queueVars, recordVars, timerVars, appVars, workerVars, TypeOK, RcloneType, QueueType,
     RecordType, CallerType, WorkerType, HelperType, Terminals, Statuses, Causes, Gens,
     Sections, Apps, Drivers, Watches, Stoppers, Lates, Advance, Over, Queued
<1>32. ASSUME NEW s \in Sessions, RelayCheck(s) PROVE TypeOK'
  BY <1>32, AuthorizationAssumption DEF AuthorizationAssumption, RelayCheck, rcloneVars,
     queueVars, recordVars, timerVars, appVars, workerVars, TypeOK, RcloneType, QueueType,
     RecordType, CallerType, WorkerType, HelperType, Terminals, Statuses, Causes, Gens,
     Sections, Apps, Drivers, Watches, Stoppers, Lates, Advance, Over, Queued
<1>33. ASSUME RelayMark PROVE TypeOK'
  BY <1>33, AuthorizationAssumption DEF AuthorizationAssumption, RelayMark, rcloneVars,
     queueVars, recordVars, timerVars, appVars, workerVars, TypeOK, RcloneType, QueueType,
     RecordType, CallerType, WorkerType, HelperType, Terminals, Statuses, Causes, Gens,
     Sections, Apps, Drivers, Watches, Stoppers, Lates, Advance, Over, Queued
<1>34. ASSUME NEW s \in Sessions, Fire(s) PROVE TypeOK'
  BY <1>34, AuthorizationAssumption DEF AuthorizationAssumption, Fire, rcloneVars, queueVars,
     recordVars, timerVars, appVars, workerVars, TypeOK, RcloneType, QueueType, RecordType,
     CallerType, WorkerType, HelperType, Terminals, Statuses, Causes, Gens, Sections, Apps,
     Drivers, Watches, Stoppers, Lates, Advance, Over, Queued
<1>35. ASSUME NEW s \in Sessions, NEW g \in Gens, LateLock(s, g) PROVE TypeOK'
  BY <1>35, AuthorizationAssumption DEF AuthorizationAssumption, LateLock, rcloneVars,
     queueVars, recordVars, timerVars, appVars, workerVars, TypeOK, RcloneType, QueueType,
     RecordType, CallerType, WorkerType, HelperType, Terminals, Statuses, Causes, Gens,
     Sections, Apps, Drivers, Watches, Stoppers, Lates, Advance, Over, Queued
<1>36. ASSUME NEW s \in Sessions, NEW g \in Gens, LateAsk(s, g) PROVE TypeOK'
  <2>1. RcloneType'
    BY <1>36, AuthorizationAssumption DEF LateAsk, Dispatch, AuthorizationAssumption,
       rcloneVars, TypeOK, RcloneType, Sections
  <2>2. QueueType'
    BY <1>36 DEF LateAsk, Dispatch, queueVars, TypeOK, QueueType
  <2>3. RecordType'
    BY <1>36 DEF LateAsk, Dispatch, recordVars, timerVars, TypeOK, RecordType, Statuses,
       Terminals, Advance, Over, QueueShape
  <2>4. CallerType'
    BY <1>36 DEF LateAsk, appVars, TypeOK, CallerType, Apps
  <2>5. WorkerType'
    BY <1>36 DEF LateAsk, Dispatch, workerVars, TypeOK, WorkerType, Drivers, Watches, RcloneType
  <2>6. HelperType'
    <3>1. CASE Over(s)
      BY <1>36, <3>1 DEF LateAsk, TypeOK, HelperType, Stoppers, Causes, Lates, Gens
    <3>2. CASE ~Over(s)
      BY <1>36, <3>2, DispatchType DEF LateAsk, TypeOK, HelperType, Stoppers, Causes, Lates,
         Gens
    <3>3. QED
      BY <3>1, <3>2
  <2>7. QED
    BY <2>1, <2>2, <2>3, <2>4, <2>5, <2>6 DEF TypeOK
<1>37. ASSUME NEW s \in Sessions, NEW g \in Gens, LateExpire(s, g) PROVE TypeOK'
  BY <1>37, AuthorizationAssumption DEF AuthorizationAssumption, LateExpire, rcloneVars,
     queueVars, recordVars, timerVars, appVars, workerVars, TypeOK, RcloneType, QueueType,
     RecordType, CallerType, WorkerType, HelperType, Terminals, Statuses, Causes, Gens,
     Sections, Apps, Drivers, Watches, Stoppers, Lates, Advance, Over, Queued
<1>38. ASSUME NEW s \in Sessions, NEW g \in Gens, LatePromote(s, g) PROVE TypeOK'
  <2>1. RcloneType'
    BY <1>38, AuthorizationAssumption DEF LatePromote, PromoteNext, AuthorizationAssumption,
       rcloneVars, TypeOK, RcloneType, Sections
  <2>2. QueueType'
    BY <1>38, PromoteType DEF LatePromote, queueVars, TypeOK, QueueType
  <2>3. RecordType'
    BY <1>38 DEF LatePromote, PromoteNext, recordVars, timerVars, TypeOK, RecordType, Statuses,
       Terminals, Advance, Over, QueueShape
  <2>4. CallerType'
    BY <1>38, PromoteType DEF LatePromote, appVars, TypeOK, CallerType, Apps
  <2>5. WorkerType'
    BY <1>38 DEF LatePromote, PromoteNext, workerVars, TypeOK, WorkerType, Drivers, Watches,
       RcloneType
  <2>6. HelperType'
    BY <1>38 DEF LatePromote, PromoteNext, TypeOK, HelperType, Stoppers, Causes, Lates, Gens,
       RecordType
  <2>7. QED
    BY <2>1, <2>2, <2>3, <2>4, <2>5, <2>6 DEF TypeOK
<1>39. CASE UNCHANGED vars
  BY <1>39 DEF vars, rcloneVars, queueVars, recordVars, timerVars, appVars, workerVars, TypeOK,
     RcloneType, QueueType, RecordType, CallerType, WorkerType, HelperType, Terminals, Statuses,
     Causes, Gens, Sections, Apps, Drivers, Watches, Stoppers, Lates, Advance, Over, Queued
<1>40. QED
  BY <1>1, <1>2, <1>3, <1>4, <1>5, <1>6, <1>7, <1>8, <1>9, <1>10, <1>11, <1>12, <1>13, <1>14,
     <1>15, <1>16, <1>17, <1>18, <1>19, <1>20, <1>21, <1>22, <1>23, <1>24, <1>25, <1>26, <1>27,
     <1>28, <1>29, <1>30, <1>31, <1>32, <1>33, <1>34, <1>35, <1>36, <1>37, <1>38, <1>39 DEF
     Next, Start, Admit, Calls, Continue, Drive, Watch, Stop, Late

\* A session is in one place at a time: not yet started, queued, or admitted once.
LEMMA QueueShapeStep ==
  ASSUME Inv, TypeOK', [Next]_vars
  PROVE  QueueShape'
<1> USE NoneIsNoSession DEF rcloneVars, queueVars, recordVars, timerVars, appVars, workerVars,
   Inv, TypeOK, QueueType, RecordType, CallerType, WorkerType, RcloneType, QueueShape,
   LatecomersInStep, WorkersInStep, SingleFlight, Driving, Gens, Advance, Over, Queued,
   Terminals, After
<1>1. ASSUME NEW s \in Sessions, StartCheck(s) PROVE QueueShape'
  BY <1>1 DEF StartCheck
<1>2. ASSUME NEW s \in Sessions, StartAdmitted(s) PROVE QueueShape'
  BY <1>2 DEF StartAdmitted
<1>3. ASSUME NEW s \in Sessions, StartQueued(s) PROVE QueueShape'
  BY <1>3 DEF StartQueued
<1>4. ASSUME NEW s \in Sessions, StartRefused(s) PROVE QueueShape'
  BY <1>4 DEF StartRefused
<1>5. ASSUME NEW s \in Sessions, AdmitStatus(s) PROVE QueueShape'
  BY <1>5 DEF AdmitStatus
<1>6. ASSUME NEW s \in Sessions, AdmitStart(s) PROVE QueueShape'
  BY <1>6 DEF AdmitStart
<1>7. ASSUME NEW s \in Sessions, CancelCall(s) PROVE QueueShape'
  BY <1>7 DEF CancelCall, Returned
<1>8. ASSUME NEW s \in Sessions, CloseCall(s) PROVE QueueShape'
  BY <1>8 DEF CloseCall, Returned
<1>9. ASSUME NEW s \in Sessions, CancelQueued(s) PROVE QueueShape'
  BY <1>9 DEF CancelQueued
<1>10. ASSUME NEW s \in Sessions, CancelLook(s) PROVE QueueShape'
  BY <1>10 DEF CancelLook
<1>11. ASSUME NEW s \in Sessions, CancelAsk(s) PROVE QueueShape'
  BY <1>11 DEF CancelAsk, Dispatch
<1>12. ASSUME NEW s \in Sessions, CloseRemove(s) PROVE QueueShape'
  BY <1>12 DEF CloseRemove
<1>13. ASSUME NEW s \in Sessions, CloseMark(s) PROVE QueueShape'
  BY <1>13 DEF CloseMark
<1>14. ASSUME NEW s \in Sessions, NEW k \in Causes, StopFlow(s, k) PROVE QueueShape'
  BY <1>14 DEF StopFlow
<1>15. ASSUME NEW s \in Sessions, NEW k \in Causes, StopNothing(s, k) PROVE QueueShape'
  BY <1>15 DEF StopNothing
<1>16. ASSUME NEW s \in Sessions, NEW k \in Causes, StopFails(s, k) PROVE QueueShape'
  BY <1>16 DEF StopFails
<1>17. ASSUME NEW s \in Sessions, NEW k \in Causes, StopLook(s, k) PROVE QueueShape'
  BY <1>17 DEF StopLook
<1>18. ASSUME NEW s \in Sessions, NEW k \in Causes, StopGivesUp(s, k) PROVE QueueShape'
  BY <1>18 DEF StopGivesUp
<1>19. ASSUME NEW s \in Sessions, Create(s) PROVE QueueShape'
  BY <1>19 DEF Create
<1>20. ASSUME NEW s \in Sessions, Answer(s) PROVE QueueShape'
  BY <1>20 DEF Answer
<1>21. ASSUME NEW s \in Sessions, Bind(s) PROVE QueueShape'
  BY <1>21 DEF Bind
<1>22. ASSUME NEW s \in Sessions, Consent(s) PROVE QueueShape'
  BY <1>22 DEF Consent
<1>23. ASSUME NEW s \in Sessions, Built(s) PROVE QueueShape'
  BY <1>23 DEF Built
<1>24. ASSUME NEW s \in Sessions, Failed(s) PROVE QueueShape'
  BY <1>24 DEF Failed, ErrorOutcome
<1>25. ASSUME NEW s \in Sessions, Cleanup(s) PROVE QueueShape'
  BY <1>25 DEF Cleanup
<1>26. ASSUME NEW s \in Sessions, Delete(s) PROVE QueueShape'
  BY <1>26 DEF Delete
<1>27. ASSUME NEW s \in Sessions, Release(s) PROVE QueueShape'
  BY <1>27 DEF Release
<1>28. ASSUME NEW s \in Sessions, DriverPromote(s) PROVE QueueShape'
  BY <1>28 DEF DriverPromote, PromoteNext
<1>29. ASSUME NEW s \in Sessions, WatchPoll(s) PROVE QueueShape'
  BY <1>29 DEF WatchPoll
<1>30. ASSUME NEW s \in Sessions, WatchEnd(s) PROVE QueueShape'
  BY <1>30 DEF WatchEnd, Stopped
<1>31. ASSUME NEW s \in Sessions, WatchTell(s) PROVE QueueShape'
  BY <1>31 DEF WatchTell
<1>32. ASSUME NEW s \in Sessions, RelayCheck(s) PROVE QueueShape'
  BY <1>32 DEF RelayCheck
<1>33. ASSUME RelayMark PROVE QueueShape'
  BY <1>33 DEF RelayMark
<1>34. ASSUME NEW s \in Sessions, Fire(s) PROVE QueueShape'
  BY <1>34 DEF Fire
<1>35. ASSUME NEW s \in Sessions, NEW g \in Gens, LateLock(s, g) PROVE QueueShape'
  BY <1>35 DEF LateLock
<1>36. ASSUME NEW s \in Sessions, NEW g \in Gens, LateAsk(s, g) PROVE QueueShape'
  BY <1>36 DEF LateAsk, Dispatch
<1>37. ASSUME NEW s \in Sessions, NEW g \in Gens, LateExpire(s, g) PROVE QueueShape'
  BY <1>37 DEF LateExpire
<1>38. ASSUME NEW s \in Sessions, NEW g \in Gens, LatePromote(s, g) PROVE QueueShape'
  BY <1>38 DEF LatePromote, PromoteNext
<1>39. CASE UNCHANGED vars
  BY <1>39 DEF vars
<1>40. QED
  BY <1>1, <1>2, <1>3, <1>4, <1>5, <1>6, <1>7, <1>8, <1>9, <1>10, <1>11, <1>12, <1>13, <1>14,
     <1>15, <1>16, <1>17, <1>18, <1>19, <1>20, <1>21, <1>22, <1>23, <1>24, <1>25, <1>26, <1>27,
     <1>28, <1>29, <1>30, <1>31, <1>32, <1>33, <1>34, <1>35, <1>36, <1>37, <1>38, <1>39 DEF
     Next, Start, Admit, Calls, Continue, Drive, Watch, Stop, Late

\* The slot is handed over, never shared.
LEMMA SingleFlightStep ==
  ASSUME Inv, TypeOK', [Next]_vars
  PROVE  SingleFlight'
<1> USE NoneIsNoSession DEF rcloneVars, queueVars, recordVars, timerVars, appVars, workerVars,
   Inv, TypeOK, QueueType, RecordType, CallerType, WorkerType, RcloneType, SingleFlight,
   Driving, QueueShape, WorkersInStep, Queued, Over
<1>1. ASSUME NEW s \in Sessions, StartCheck(s) PROVE SingleFlight'
  BY <1>1 DEF StartCheck
<1>2. ASSUME NEW s \in Sessions, StartAdmitted(s) PROVE SingleFlight'
  BY <1>2 DEF StartAdmitted
<1>3. ASSUME NEW s \in Sessions, StartQueued(s) PROVE SingleFlight'
  BY <1>3 DEF StartQueued
<1>4. ASSUME NEW s \in Sessions, StartRefused(s) PROVE SingleFlight'
  BY <1>4 DEF StartRefused
<1>5. ASSUME NEW s \in Sessions, AdmitStatus(s) PROVE SingleFlight'
  BY <1>5 DEF AdmitStatus
<1>6. ASSUME NEW s \in Sessions, AdmitStart(s) PROVE SingleFlight'
  BY <1>6 DEF AdmitStart
<1>7. ASSUME NEW s \in Sessions, CancelCall(s) PROVE SingleFlight'
  BY <1>7 DEF CancelCall, Returned
<1>8. ASSUME NEW s \in Sessions, CloseCall(s) PROVE SingleFlight'
  BY <1>8 DEF CloseCall, Returned
<1>9. ASSUME NEW s \in Sessions, CancelQueued(s) PROVE SingleFlight'
  BY <1>9 DEF CancelQueued
<1>10. ASSUME NEW s \in Sessions, CancelLook(s) PROVE SingleFlight'
  BY <1>10 DEF CancelLook
<1>11. ASSUME NEW s \in Sessions, CancelAsk(s) PROVE SingleFlight'
  BY <1>11 DEF CancelAsk, Dispatch
<1>12. ASSUME NEW s \in Sessions, CloseRemove(s) PROVE SingleFlight'
  BY <1>12 DEF CloseRemove
<1>13. ASSUME NEW s \in Sessions, CloseMark(s) PROVE SingleFlight'
  BY <1>13 DEF CloseMark
<1>14. ASSUME NEW s \in Sessions, NEW k \in Causes, StopFlow(s, k) PROVE SingleFlight'
  BY <1>14 DEF StopFlow
<1>15. ASSUME NEW s \in Sessions, NEW k \in Causes, StopNothing(s, k) PROVE SingleFlight'
  BY <1>15 DEF StopNothing
<1>16. ASSUME NEW s \in Sessions, NEW k \in Causes, StopFails(s, k) PROVE SingleFlight'
  BY <1>16 DEF StopFails
<1>17. ASSUME NEW s \in Sessions, NEW k \in Causes, StopLook(s, k) PROVE SingleFlight'
  BY <1>17 DEF StopLook
<1>18. ASSUME NEW s \in Sessions, NEW k \in Causes, StopGivesUp(s, k) PROVE SingleFlight'
  BY <1>18 DEF StopGivesUp
<1>19. ASSUME NEW s \in Sessions, Create(s) PROVE SingleFlight'
  BY <1>19 DEF Create
<1>20. ASSUME NEW s \in Sessions, Answer(s) PROVE SingleFlight'
  BY <1>20 DEF Answer
<1>21. ASSUME NEW s \in Sessions, Bind(s) PROVE SingleFlight'
  BY <1>21 DEF Bind
<1>22. ASSUME NEW s \in Sessions, Consent(s) PROVE SingleFlight'
  BY <1>22 DEF Consent
<1>23. ASSUME NEW s \in Sessions, Built(s) PROVE SingleFlight'
  BY <1>23 DEF Built
<1>24. ASSUME NEW s \in Sessions, Failed(s) PROVE SingleFlight'
  BY <1>24 DEF Failed, ErrorOutcome
<1>25. ASSUME NEW s \in Sessions, Cleanup(s) PROVE SingleFlight'
  BY <1>25 DEF Cleanup
<1>26. ASSUME NEW s \in Sessions, Delete(s) PROVE SingleFlight'
  BY <1>26 DEF Delete
<1>27. ASSUME NEW s \in Sessions, Release(s) PROVE SingleFlight'
  BY <1>27 DEF Release
<1>28. ASSUME NEW s \in Sessions, DriverPromote(s) PROVE SingleFlight'
  BY <1>28 DEF DriverPromote, PromoteNext
<1>29. ASSUME NEW s \in Sessions, WatchPoll(s) PROVE SingleFlight'
  BY <1>29 DEF WatchPoll
<1>30. ASSUME NEW s \in Sessions, WatchEnd(s) PROVE SingleFlight'
  BY <1>30 DEF WatchEnd, Stopped
<1>31. ASSUME NEW s \in Sessions, WatchTell(s) PROVE SingleFlight'
  BY <1>31 DEF WatchTell
<1>32. ASSUME NEW s \in Sessions, RelayCheck(s) PROVE SingleFlight'
  BY <1>32 DEF RelayCheck
<1>33. ASSUME RelayMark PROVE SingleFlight'
  BY <1>33 DEF RelayMark
<1>34. ASSUME NEW s \in Sessions, Fire(s) PROVE SingleFlight'
  BY <1>34 DEF Fire
<1>35. ASSUME NEW s \in Sessions, NEW g \in Gens, LateLock(s, g) PROVE SingleFlight'
  BY <1>35 DEF LateLock
<1>36. ASSUME NEW s \in Sessions, NEW g \in Gens, LateAsk(s, g) PROVE SingleFlight'
  BY <1>36 DEF LateAsk, Dispatch
<1>37. ASSUME NEW s \in Sessions, NEW g \in Gens, LateExpire(s, g) PROVE SingleFlight'
  BY <1>37 DEF LateExpire
<1>38. ASSUME NEW s \in Sessions, NEW g \in Gens, LatePromote(s, g) PROVE SingleFlight'
  BY <1>38 DEF LatePromote, PromoteNext
<1>39. CASE UNCHANGED vars
  BY <1>39 DEF vars
<1>40. QED
  BY <1>1, <1>2, <1>3, <1>4, <1>5, <1>6, <1>7, <1>8, <1>9, <1>10, <1>11, <1>12, <1>13, <1>14,
     <1>15, <1>16, <1>17, <1>18, <1>19, <1>20, <1>21, <1>22, <1>23, <1>24, <1>25, <1>26, <1>27,
     <1>28, <1>29, <1>30, <1>31, <1>32, <1>33, <1>34, <1>35, <1>36, <1>37, <1>38, <1>39 DEF
     Next, Start, Admit, Calls, Continue, Drive, Watch, Stop, Late

\* A driver, its flow and its watcher agree on how far the session is.
LEMMA WorkersInStepStep ==
  ASSUME Inv, TypeOK', [Next]_vars
  PROVE  WorkersInStep'
<1> USE NoneIsNoSession DEF rcloneVars, queueVars, recordVars, timerVars, appVars, workerVars,
   Inv, TypeOK, QueueType, RecordType, CallerType, WorkerType, RcloneType, WorkersInStep,
   SingleFlight, Driving, QueueShape, Advance, Over, Queued, Terminals, After
<1>1. ASSUME NEW s \in Sessions, StartCheck(s) PROVE WorkersInStep'
  BY <1>1 DEF StartCheck
<1>2. ASSUME NEW s \in Sessions, StartAdmitted(s) PROVE WorkersInStep'
  BY <1>2 DEF StartAdmitted
<1>3. ASSUME NEW s \in Sessions, StartQueued(s) PROVE WorkersInStep'
  BY <1>3 DEF StartQueued
<1>4. ASSUME NEW s \in Sessions, StartRefused(s) PROVE WorkersInStep'
  BY <1>4 DEF StartRefused
<1>5. ASSUME NEW s \in Sessions, AdmitStatus(s) PROVE WorkersInStep'
  BY <1>5 DEF AdmitStatus
<1>6. ASSUME NEW s \in Sessions, AdmitStart(s) PROVE WorkersInStep'
  BY <1>6 DEF AdmitStart
<1>7. ASSUME NEW s \in Sessions, CancelCall(s) PROVE WorkersInStep'
  BY <1>7 DEF CancelCall, Returned
<1>8. ASSUME NEW s \in Sessions, CloseCall(s) PROVE WorkersInStep'
  BY <1>8 DEF CloseCall, Returned
<1>9. ASSUME NEW s \in Sessions, CancelQueued(s) PROVE WorkersInStep'
  BY <1>9 DEF CancelQueued
<1>10. ASSUME NEW s \in Sessions, CancelLook(s) PROVE WorkersInStep'
  BY <1>10 DEF CancelLook
<1>11. ASSUME NEW s \in Sessions, CancelAsk(s) PROVE WorkersInStep'
  BY <1>11 DEF CancelAsk, Dispatch
<1>12. ASSUME NEW s \in Sessions, CloseRemove(s) PROVE WorkersInStep'
  BY <1>12 DEF CloseRemove
<1>13. ASSUME NEW s \in Sessions, CloseMark(s) PROVE WorkersInStep'
  BY <1>13 DEF CloseMark
<1>14. ASSUME NEW s \in Sessions, NEW k \in Causes, StopFlow(s, k) PROVE WorkersInStep'
  BY <1>14 DEF StopFlow
<1>15. ASSUME NEW s \in Sessions, NEW k \in Causes, StopNothing(s, k) PROVE WorkersInStep'
  BY <1>15 DEF StopNothing
<1>16. ASSUME NEW s \in Sessions, NEW k \in Causes, StopFails(s, k) PROVE WorkersInStep'
  BY <1>16 DEF StopFails
<1>17. ASSUME NEW s \in Sessions, NEW k \in Causes, StopLook(s, k) PROVE WorkersInStep'
  BY <1>17 DEF StopLook
<1>18. ASSUME NEW s \in Sessions, NEW k \in Causes, StopGivesUp(s, k) PROVE WorkersInStep'
  BY <1>18 DEF StopGivesUp
<1>19. ASSUME NEW s \in Sessions, Create(s) PROVE WorkersInStep'
  BY <1>19 DEF Create
<1>20. ASSUME NEW s \in Sessions, Answer(s) PROVE WorkersInStep'
  BY <1>20 DEF Answer
<1>21. ASSUME NEW s \in Sessions, Bind(s) PROVE WorkersInStep'
  BY <1>21 DEF Bind
<1>22. ASSUME NEW s \in Sessions, Consent(s) PROVE WorkersInStep'
  BY <1>22 DEF Consent
<1>23. ASSUME NEW s \in Sessions, Built(s) PROVE WorkersInStep'
  BY <1>23 DEF Built
<1>24. ASSUME NEW s \in Sessions, Failed(s) PROVE WorkersInStep'
  BY <1>24 DEF Failed, ErrorOutcome
<1>25. ASSUME NEW s \in Sessions, Cleanup(s) PROVE WorkersInStep'
  BY <1>25 DEF Cleanup
<1>26. ASSUME NEW s \in Sessions, Delete(s) PROVE WorkersInStep'
  BY <1>26 DEF Delete
<1>27. ASSUME NEW s \in Sessions, Release(s) PROVE WorkersInStep'
  BY <1>27 DEF Release
<1>28. ASSUME NEW s \in Sessions, DriverPromote(s) PROVE WorkersInStep'
  BY <1>28 DEF DriverPromote, PromoteNext
<1>29. ASSUME NEW s \in Sessions, WatchPoll(s) PROVE WorkersInStep'
  BY <1>29 DEF WatchPoll
<1>30. ASSUME NEW s \in Sessions, WatchEnd(s) PROVE WorkersInStep'
  BY <1>30 DEF WatchEnd, Stopped
<1>31. ASSUME NEW s \in Sessions, WatchTell(s) PROVE WorkersInStep'
  BY <1>31 DEF WatchTell
<1>32. ASSUME NEW s \in Sessions, RelayCheck(s) PROVE WorkersInStep'
  BY <1>32 DEF RelayCheck
<1>33. ASSUME RelayMark PROVE WorkersInStep'
  BY <1>33 DEF RelayMark
<1>34. ASSUME NEW s \in Sessions, Fire(s) PROVE WorkersInStep'
  BY <1>34 DEF Fire
<1>35. ASSUME NEW s \in Sessions, NEW g \in Gens, LateLock(s, g) PROVE WorkersInStep'
  BY <1>35 DEF LateLock
<1>36. ASSUME NEW s \in Sessions, NEW g \in Gens, LateAsk(s, g) PROVE WorkersInStep'
  BY <1>36 DEF LateAsk, Dispatch
<1>37. ASSUME NEW s \in Sessions, NEW g \in Gens, LateExpire(s, g) PROVE WorkersInStep'
  BY <1>37 DEF LateExpire
<1>38. ASSUME NEW s \in Sessions, NEW g \in Gens, LatePromote(s, g) PROVE WorkersInStep'
  BY <1>38 DEF LatePromote, PromoteNext
<1>39. CASE UNCHANGED vars
  BY <1>39 DEF vars
<1>40. QED
  BY <1>1, <1>2, <1>3, <1>4, <1>5, <1>6, <1>7, <1>8, <1>9, <1>10, <1>11, <1>12, <1>13, <1>14,
     <1>15, <1>16, <1>17, <1>18, <1>19, <1>20, <1>21, <1>22, <1>23, <1>24, <1>25, <1>26, <1>27,
     <1>28, <1>29, <1>30, <1>31, <1>32, <1>33, <1>34, <1>35, <1>36, <1>37, <1>38, <1>39 DEF
     Next, Start, Admit, Calls, Continue, Drive, Watch, Stop, Late

\* What a timer, a deadline, close() and relay() hold stays true while they wait.
LEMMA LatecomersInStepStep ==
  ASSUME Inv, TypeOK', [Next]_vars
  PROVE  LatecomersInStep'
<1> USE NoneIsNoSession DEF rcloneVars, queueVars, recordVars, timerVars, appVars, workerVars,
   Inv, TypeOK, QueueType, RecordType, CallerType, WorkerType, RcloneType, HelperType,
   LatecomersInStep, WorkersInStep, SingleFlight, Driving, QueueShape, Gens, Advance, Over,
   Queued, Terminals, After
<1>1. ASSUME NEW s \in Sessions, StartCheck(s) PROVE LatecomersInStep'
  BY <1>1 DEF StartCheck
<1>2. ASSUME NEW s \in Sessions, StartAdmitted(s) PROVE LatecomersInStep'
  BY <1>2 DEF StartAdmitted
<1>3. ASSUME NEW s \in Sessions, StartQueued(s) PROVE LatecomersInStep'
  BY <1>3 DEF StartQueued
<1>4. ASSUME NEW s \in Sessions, StartRefused(s) PROVE LatecomersInStep'
  BY <1>4 DEF StartRefused
<1>5. ASSUME NEW s \in Sessions, AdmitStatus(s) PROVE LatecomersInStep'
  BY <1>5 DEF AdmitStatus
<1>6. ASSUME NEW s \in Sessions, AdmitStart(s) PROVE LatecomersInStep'
  BY <1>6 DEF AdmitStart
<1>7. ASSUME NEW s \in Sessions, CancelCall(s) PROVE LatecomersInStep'
  BY <1>7 DEF CancelCall, Returned
<1>8. ASSUME NEW s \in Sessions, CloseCall(s) PROVE LatecomersInStep'
  BY <1>8 DEF CloseCall, Returned
<1>9. ASSUME NEW s \in Sessions, CancelQueued(s) PROVE LatecomersInStep'
  BY <1>9 DEF CancelQueued
<1>10. ASSUME NEW s \in Sessions, CancelLook(s) PROVE LatecomersInStep'
  BY <1>10 DEF CancelLook
<1>11. ASSUME NEW s \in Sessions, CancelAsk(s) PROVE LatecomersInStep'
  BY <1>11 DEF CancelAsk, Dispatch
<1>12. ASSUME NEW s \in Sessions, CloseRemove(s) PROVE LatecomersInStep'
  BY <1>12 DEF CloseRemove
<1>13. ASSUME NEW s \in Sessions, CloseMark(s) PROVE LatecomersInStep'
  BY <1>13 DEF CloseMark
<1>14. ASSUME NEW s \in Sessions, NEW k \in Causes, StopFlow(s, k) PROVE LatecomersInStep'
  BY <1>14 DEF StopFlow
<1>15. ASSUME NEW s \in Sessions, NEW k \in Causes, StopNothing(s, k) PROVE LatecomersInStep'
  BY <1>15 DEF StopNothing
<1>16. ASSUME NEW s \in Sessions, NEW k \in Causes, StopFails(s, k) PROVE LatecomersInStep'
  BY <1>16 DEF StopFails
<1>17. ASSUME NEW s \in Sessions, NEW k \in Causes, StopLook(s, k) PROVE LatecomersInStep'
  BY <1>17 DEF StopLook
<1>18. ASSUME NEW s \in Sessions, NEW k \in Causes, StopGivesUp(s, k) PROVE LatecomersInStep'
  BY <1>18 DEF StopGivesUp
<1>19. ASSUME NEW s \in Sessions, Create(s) PROVE LatecomersInStep'
  BY <1>19 DEF Create
<1>20. ASSUME NEW s \in Sessions, Answer(s) PROVE LatecomersInStep'
  BY <1>20 DEF Answer
<1>21. ASSUME NEW s \in Sessions, Bind(s) PROVE LatecomersInStep'
  BY <1>21 DEF Bind
<1>22. ASSUME NEW s \in Sessions, Consent(s) PROVE LatecomersInStep'
  BY <1>22 DEF Consent
<1>23. ASSUME NEW s \in Sessions, Built(s) PROVE LatecomersInStep'
  BY <1>23 DEF Built
<1>24. ASSUME NEW s \in Sessions, Failed(s) PROVE LatecomersInStep'
  BY <1>24 DEF Failed, ErrorOutcome
<1>25. ASSUME NEW s \in Sessions, Cleanup(s) PROVE LatecomersInStep'
  BY <1>25 DEF Cleanup
<1>26. ASSUME NEW s \in Sessions, Delete(s) PROVE LatecomersInStep'
  BY <1>26 DEF Delete
<1>27. ASSUME NEW s \in Sessions, Release(s) PROVE LatecomersInStep'
  BY <1>27 DEF Release
<1>28. ASSUME NEW s \in Sessions, DriverPromote(s) PROVE LatecomersInStep'
  BY <1>28 DEF DriverPromote, PromoteNext
<1>29. ASSUME NEW s \in Sessions, WatchPoll(s) PROVE LatecomersInStep'
  BY <1>29 DEF WatchPoll
<1>30. ASSUME NEW s \in Sessions, WatchEnd(s) PROVE LatecomersInStep'
  BY <1>30 DEF WatchEnd, Stopped
<1>31. ASSUME NEW s \in Sessions, WatchTell(s) PROVE LatecomersInStep'
  BY <1>31 DEF WatchTell
<1>32. ASSUME NEW s \in Sessions, RelayCheck(s) PROVE LatecomersInStep'
  BY <1>32 DEF RelayCheck
<1>33. ASSUME RelayMark PROVE LatecomersInStep'
  BY <1>33 DEF RelayMark
<1>34. ASSUME NEW s \in Sessions, Fire(s) PROVE LatecomersInStep'
  BY <1>34 DEF Fire
<1>35. ASSUME NEW s \in Sessions, NEW g \in Gens, LateLock(s, g) PROVE LatecomersInStep'
  BY <1>35 DEF LateLock
<1>36. ASSUME NEW s \in Sessions, NEW g \in Gens, LateAsk(s, g) PROVE LatecomersInStep'
  BY <1>36 DEF LateAsk, Dispatch
<1>37. ASSUME NEW s \in Sessions, NEW g \in Gens, LateExpire(s, g) PROVE LatecomersInStep'
  BY <1>37 DEF LateExpire
<1>38. ASSUME NEW s \in Sessions, NEW g \in Gens, LatePromote(s, g) PROVE LatecomersInStep'
  BY <1>38 DEF LatePromote, PromoteNext
<1>39. CASE UNCHANGED vars
  BY <1>39 DEF vars
<1>40. QED
  BY <1>1, <1>2, <1>3, <1>4, <1>5, <1>6, <1>7, <1>8, <1>9, <1>10, <1>11, <1>12, <1>13, <1>14,
     <1>15, <1>16, <1>17, <1>18, <1>19, <1>20, <1>21, <1>22, <1>23, <1>24, <1>25, <1>26, <1>27,
     <1>28, <1>29, <1>30, <1>31, <1>32, <1>33, <1>34, <1>35, <1>36, <1>37, <1>38, <1>39 DEF
     Next, Start, Admit, Calls, Continue, Drive, Watch, Stop, Late

\* Every outcome was earned when it was written, and stays so.
LEMMA OutcomeEarnedStep ==
  ASSUME Inv, TypeOK', [Next]_vars
  PROVE  OutcomeEarned'
<1> USE NoneIsNoSession DEF rcloneVars, queueVars, recordVars, timerVars, appVars, workerVars,
   Inv, TypeOK, QueueType, RecordType, CallerType, WorkerType, RcloneType, OutcomeEarned,
   LatecomersInStep, WorkersInStep, QueueShape, SingleFlight, Driving, Dropped, Gens, Advance,
   Over, Queued, Terminals, After
<1>1. ASSUME NEW s \in Sessions, StartCheck(s) PROVE OutcomeEarned'
  BY <1>1 DEF StartCheck
<1>2. ASSUME NEW s \in Sessions, StartAdmitted(s) PROVE OutcomeEarned'
  BY <1>2 DEF StartAdmitted
<1>3. ASSUME NEW s \in Sessions, StartQueued(s) PROVE OutcomeEarned'
  BY <1>3 DEF StartQueued
<1>4. ASSUME NEW s \in Sessions, StartRefused(s) PROVE OutcomeEarned'
  BY <1>4 DEF StartRefused
<1>5. ASSUME NEW s \in Sessions, AdmitStatus(s) PROVE OutcomeEarned'
  BY <1>5 DEF AdmitStatus
<1>6. ASSUME NEW s \in Sessions, AdmitStart(s) PROVE OutcomeEarned'
  BY <1>6 DEF AdmitStart
<1>7. ASSUME NEW s \in Sessions, CancelCall(s) PROVE OutcomeEarned'
  BY <1>7 DEF CancelCall, Returned
<1>8. ASSUME NEW s \in Sessions, CloseCall(s) PROVE OutcomeEarned'
  BY <1>8 DEF CloseCall, Returned
<1>9. ASSUME NEW s \in Sessions, CancelQueued(s) PROVE OutcomeEarned'
  BY <1>9 DEF CancelQueued
<1>10. ASSUME NEW s \in Sessions, CancelLook(s) PROVE OutcomeEarned'
  BY <1>10 DEF CancelLook
<1>11. ASSUME NEW s \in Sessions, CancelAsk(s) PROVE OutcomeEarned'
  BY <1>11 DEF CancelAsk, Dispatch
<1>12. ASSUME NEW s \in Sessions, CloseRemove(s) PROVE OutcomeEarned'
  BY <1>12 DEF CloseRemove
<1>13. ASSUME NEW s \in Sessions, CloseMark(s) PROVE OutcomeEarned'
  BY <1>13 DEF CloseMark
<1>14. ASSUME NEW s \in Sessions, NEW k \in Causes, StopFlow(s, k) PROVE OutcomeEarned'
  BY <1>14 DEF StopFlow
<1>15. ASSUME NEW s \in Sessions, NEW k \in Causes, StopNothing(s, k) PROVE OutcomeEarned'
  BY <1>15 DEF StopNothing
<1>16. ASSUME NEW s \in Sessions, NEW k \in Causes, StopFails(s, k) PROVE OutcomeEarned'
  BY <1>16 DEF StopFails
<1>17. ASSUME NEW s \in Sessions, NEW k \in Causes, StopLook(s, k) PROVE OutcomeEarned'
  BY <1>17 DEF StopLook
<1>18. ASSUME NEW s \in Sessions, NEW k \in Causes, StopGivesUp(s, k) PROVE OutcomeEarned'
  BY <1>18 DEF StopGivesUp
<1>19. ASSUME NEW s \in Sessions, Create(s) PROVE OutcomeEarned'
  BY <1>19 DEF Create
<1>20. ASSUME NEW s \in Sessions, Answer(s) PROVE OutcomeEarned'
  BY <1>20 DEF Answer
<1>21. ASSUME NEW s \in Sessions, Bind(s) PROVE OutcomeEarned'
  BY <1>21 DEF Bind
<1>22. ASSUME NEW s \in Sessions, Consent(s) PROVE OutcomeEarned'
  BY <1>22 DEF Consent
<1>23. ASSUME NEW s \in Sessions, Built(s) PROVE OutcomeEarned'
  BY <1>23 DEF Built
<1>24. ASSUME NEW s \in Sessions, Failed(s) PROVE OutcomeEarned'
  BY <1>24 DEF Failed, ErrorOutcome
<1>25. ASSUME NEW s \in Sessions, Cleanup(s) PROVE OutcomeEarned'
  BY <1>25 DEF Cleanup
<1>26. ASSUME NEW s \in Sessions, Delete(s) PROVE OutcomeEarned'
  BY <1>26 DEF Delete
<1>27. ASSUME NEW s \in Sessions, Release(s) PROVE OutcomeEarned'
  BY <1>27 DEF Release
<1>28. ASSUME NEW s \in Sessions, DriverPromote(s) PROVE OutcomeEarned'
  BY <1>28 DEF DriverPromote, PromoteNext
<1>29. ASSUME NEW s \in Sessions, WatchPoll(s) PROVE OutcomeEarned'
  BY <1>29 DEF WatchPoll
<1>30. ASSUME NEW s \in Sessions, WatchEnd(s) PROVE OutcomeEarned'
  BY <1>30 DEF WatchEnd, Stopped
<1>31. ASSUME NEW s \in Sessions, WatchTell(s) PROVE OutcomeEarned'
  BY <1>31 DEF WatchTell
<1>32. ASSUME NEW s \in Sessions, RelayCheck(s) PROVE OutcomeEarned'
  BY <1>32 DEF RelayCheck
<1>33. ASSUME RelayMark PROVE OutcomeEarned'
  BY <1>33 DEF RelayMark
<1>34. ASSUME NEW s \in Sessions, Fire(s) PROVE OutcomeEarned'
  BY <1>34 DEF Fire
<1>35. ASSUME NEW s \in Sessions, NEW g \in Gens, LateLock(s, g) PROVE OutcomeEarned'
  BY <1>35 DEF LateLock
<1>36. ASSUME NEW s \in Sessions, NEW g \in Gens, LateAsk(s, g) PROVE OutcomeEarned'
  BY <1>36 DEF LateAsk, Dispatch
<1>37. ASSUME NEW s \in Sessions, NEW g \in Gens, LateExpire(s, g) PROVE OutcomeEarned'
  BY <1>37 DEF LateExpire
<1>38. ASSUME NEW s \in Sessions, NEW g \in Gens, LatePromote(s, g) PROVE OutcomeEarned'
  BY <1>38 DEF LatePromote, PromoteNext
<1>39. CASE UNCHANGED vars
  BY <1>39 DEF vars
<1>40. QED
  BY <1>1, <1>2, <1>3, <1>4, <1>5, <1>6, <1>7, <1>8, <1>9, <1>10, <1>11, <1>12, <1>13, <1>14,
     <1>15, <1>16, <1>17, <1>18, <1>19, <1>20, <1>21, <1>22, <1>23, <1>24, <1>25, <1>26, <1>27,
     <1>28, <1>29, <1>30, <1>31, <1>32, <1>33, <1>34, <1>35, <1>36, <1>37, <1>38, <1>39 DEF
     Next, Start, Admit, Calls, Continue, Drive, Watch, Stop, Late

\* With names apart, nobody else touches what a session found, made or deletes.
LEMMA SectionsInStepStep ==
  ASSUME Inv, NamesApart, TypeOK', [Next]_vars
  PROVE  SectionsInStep'
<1> USE NoneIsNoSession, NameTyped DEF rcloneVars, queueVars, recordVars, timerVars, appVars,
   workerVars, Inv, TypeOK, QueueType, RecordType, CallerType, WorkerType, RcloneType,
   NamesApart, SectionsInStep, SingleFlight, Driving, WorkersInStep, QueueShape, Over,
   Terminals, Sections
<1>1. ASSUME NEW s \in Sessions, StartCheck(s) PROVE SectionsInStep'
  BY <1>1 DEF StartCheck
<1>2. ASSUME NEW s \in Sessions, StartAdmitted(s) PROVE SectionsInStep'
  BY <1>2 DEF StartAdmitted
<1>3. ASSUME NEW s \in Sessions, StartQueued(s) PROVE SectionsInStep'
  BY <1>3 DEF StartQueued
<1>4. ASSUME NEW s \in Sessions, StartRefused(s) PROVE SectionsInStep'
  BY <1>4 DEF StartRefused
<1>5. ASSUME NEW s \in Sessions, AdmitStatus(s) PROVE SectionsInStep'
  BY <1>5 DEF AdmitStatus
<1>6. ASSUME NEW s \in Sessions, AdmitStart(s) PROVE SectionsInStep'
  BY <1>6 DEF AdmitStart
<1>7. ASSUME NEW s \in Sessions, CancelCall(s) PROVE SectionsInStep'
  BY <1>7 DEF CancelCall, Returned
<1>8. ASSUME NEW s \in Sessions, CloseCall(s) PROVE SectionsInStep'
  BY <1>8 DEF CloseCall, Returned
<1>9. ASSUME NEW s \in Sessions, CancelQueued(s) PROVE SectionsInStep'
  BY <1>9 DEF CancelQueued
<1>10. ASSUME NEW s \in Sessions, CancelLook(s) PROVE SectionsInStep'
  BY <1>10 DEF CancelLook
<1>11. ASSUME NEW s \in Sessions, CancelAsk(s) PROVE SectionsInStep'
  BY <1>11 DEF CancelAsk, Dispatch
<1>12. ASSUME NEW s \in Sessions, CloseRemove(s) PROVE SectionsInStep'
  BY <1>12 DEF CloseRemove
<1>13. ASSUME NEW s \in Sessions, CloseMark(s) PROVE SectionsInStep'
  BY <1>13 DEF CloseMark
<1>14. ASSUME NEW s \in Sessions, NEW k \in Causes, StopFlow(s, k) PROVE SectionsInStep'
  BY <1>14 DEF StopFlow
<1>15. ASSUME NEW s \in Sessions, NEW k \in Causes, StopNothing(s, k) PROVE SectionsInStep'
  BY <1>15 DEF StopNothing
<1>16. ASSUME NEW s \in Sessions, NEW k \in Causes, StopFails(s, k) PROVE SectionsInStep'
  BY <1>16 DEF StopFails
<1>17. ASSUME NEW s \in Sessions, NEW k \in Causes, StopLook(s, k) PROVE SectionsInStep'
  BY <1>17 DEF StopLook
<1>18. ASSUME NEW s \in Sessions, NEW k \in Causes, StopGivesUp(s, k) PROVE SectionsInStep'
  BY <1>18 DEF StopGivesUp
<1>19. ASSUME NEW s \in Sessions, Create(s) PROVE SectionsInStep'
  BY <1>19 DEF Create
<1>20. ASSUME NEW s \in Sessions, Answer(s) PROVE SectionsInStep'
  BY <1>20 DEF Answer
<1>21. ASSUME NEW s \in Sessions, Bind(s) PROVE SectionsInStep'
  BY <1>21 DEF Bind
<1>22. ASSUME NEW s \in Sessions, Consent(s) PROVE SectionsInStep'
  BY <1>22 DEF Consent
<1>23. ASSUME NEW s \in Sessions, Built(s) PROVE SectionsInStep'
  BY <1>23 DEF Built
<1>24. ASSUME NEW s \in Sessions, Failed(s) PROVE SectionsInStep'
  BY <1>24 DEF Failed, ErrorOutcome
<1>25. ASSUME NEW s \in Sessions, Cleanup(s) PROVE SectionsInStep'
  BY <1>25 DEF Cleanup
<1>26. ASSUME NEW s \in Sessions, Delete(s) PROVE SectionsInStep'
  BY <1>26 DEF Delete
<1>27. ASSUME NEW s \in Sessions, Release(s) PROVE SectionsInStep'
  BY <1>27 DEF Release
<1>28. ASSUME NEW s \in Sessions, DriverPromote(s) PROVE SectionsInStep'
  BY <1>28 DEF DriverPromote, PromoteNext
<1>29. ASSUME NEW s \in Sessions, WatchPoll(s) PROVE SectionsInStep'
  BY <1>29 DEF WatchPoll
<1>30. ASSUME NEW s \in Sessions, WatchEnd(s) PROVE SectionsInStep'
  BY <1>30 DEF WatchEnd, Stopped
<1>31. ASSUME NEW s \in Sessions, WatchTell(s) PROVE SectionsInStep'
  BY <1>31 DEF WatchTell
<1>32. ASSUME NEW s \in Sessions, RelayCheck(s) PROVE SectionsInStep'
  BY <1>32 DEF RelayCheck
<1>33. ASSUME RelayMark PROVE SectionsInStep'
  BY <1>33 DEF RelayMark
<1>34. ASSUME NEW s \in Sessions, Fire(s) PROVE SectionsInStep'
  BY <1>34 DEF Fire
<1>35. ASSUME NEW s \in Sessions, NEW g \in Gens, LateLock(s, g) PROVE SectionsInStep'
  BY <1>35 DEF LateLock
<1>36. ASSUME NEW s \in Sessions, NEW g \in Gens, LateAsk(s, g) PROVE SectionsInStep'
  BY <1>36 DEF LateAsk, Dispatch
<1>37. ASSUME NEW s \in Sessions, NEW g \in Gens, LateExpire(s, g) PROVE SectionsInStep'
  BY <1>37 DEF LateExpire
<1>38. ASSUME NEW s \in Sessions, NEW g \in Gens, LatePromote(s, g) PROVE SectionsInStep'
  BY <1>38 DEF LatePromote, PromoteNext
<1>39. CASE UNCHANGED vars
  BY <1>39 DEF vars
<1>40. QED
  BY <1>1, <1>2, <1>3, <1>4, <1>5, <1>6, <1>7, <1>8, <1>9, <1>10, <1>11, <1>12, <1>13, <1>14,
     <1>15, <1>16, <1>17, <1>18, <1>19, <1>20, <1>21, <1>22, <1>23, <1>24, <1>25, <1>26, <1>27,
     <1>28, <1>29, <1>30, <1>31, <1>32, <1>33, <1>34, <1>35, <1>36, <1>37, <1>38, <1>39 DEF
     Next, Start, Admit, Calls, Continue, Drive, Watch, Stop, Late

\* Whoever frees the slot looks at the queue, and queueing needs a taken slot.
LEMMA NoLostWakeupStep ==
  ASSUME Inv, NoLostWakeup, TypeOK', [Next]_vars
  PROVE  NoLostWakeup'
<1> USE NoneIsNoSession DEF rcloneVars, queueVars, recordVars, timerVars, appVars, workerVars,
   Inv, TypeOK, QueueType, RecordType, CallerType, WorkerType, RcloneType, HelperType,
   NoLostWakeup, Promoting, Queued, Over, SingleFlight, Driving, QueueShape, Gens
<1>1. ASSUME NEW s \in Sessions, StartCheck(s) PROVE NoLostWakeup'
  BY <1>1 DEF StartCheck
<1>2. ASSUME NEW s \in Sessions, StartAdmitted(s) PROVE NoLostWakeup'
  BY <1>2 DEF StartAdmitted
<1>3. ASSUME NEW s \in Sessions, StartQueued(s) PROVE NoLostWakeup'
  BY <1>3 DEF StartQueued
<1>4. ASSUME NEW s \in Sessions, StartRefused(s) PROVE NoLostWakeup'
  BY <1>4 DEF StartRefused
<1>5. ASSUME NEW s \in Sessions, AdmitStatus(s) PROVE NoLostWakeup'
  BY <1>5 DEF AdmitStatus
<1>6. ASSUME NEW s \in Sessions, AdmitStart(s) PROVE NoLostWakeup'
  BY <1>6 DEF AdmitStart
<1>7. ASSUME NEW s \in Sessions, CancelCall(s) PROVE NoLostWakeup'
  BY <1>7 DEF CancelCall, Returned
<1>8. ASSUME NEW s \in Sessions, CloseCall(s) PROVE NoLostWakeup'
  BY <1>8 DEF CloseCall, Returned
<1>9. ASSUME NEW s \in Sessions, CancelQueued(s) PROVE NoLostWakeup'
  BY <1>9 DEF CancelQueued
<1>10. ASSUME NEW s \in Sessions, CancelLook(s) PROVE NoLostWakeup'
  BY <1>10 DEF CancelLook
<1>11. ASSUME NEW s \in Sessions, CancelAsk(s) PROVE NoLostWakeup'
  BY <1>11 DEF CancelAsk, Dispatch
<1>12. ASSUME NEW s \in Sessions, CloseRemove(s) PROVE NoLostWakeup'
  BY <1>12 DEF CloseRemove
<1>13. ASSUME NEW s \in Sessions, CloseMark(s) PROVE NoLostWakeup'
  BY <1>13 DEF CloseMark
<1>14. ASSUME NEW s \in Sessions, NEW k \in Causes, StopFlow(s, k) PROVE NoLostWakeup'
  BY <1>14 DEF StopFlow
<1>15. ASSUME NEW s \in Sessions, NEW k \in Causes, StopNothing(s, k) PROVE NoLostWakeup'
  BY <1>15 DEF StopNothing
<1>16. ASSUME NEW s \in Sessions, NEW k \in Causes, StopFails(s, k) PROVE NoLostWakeup'
  BY <1>16 DEF StopFails
<1>17. ASSUME NEW s \in Sessions, NEW k \in Causes, StopLook(s, k) PROVE NoLostWakeup'
  BY <1>17 DEF StopLook
<1>18. ASSUME NEW s \in Sessions, NEW k \in Causes, StopGivesUp(s, k) PROVE NoLostWakeup'
  BY <1>18 DEF StopGivesUp
<1>19. ASSUME NEW s \in Sessions, Create(s) PROVE NoLostWakeup'
  BY <1>19 DEF Create
<1>20. ASSUME NEW s \in Sessions, Answer(s) PROVE NoLostWakeup'
  BY <1>20 DEF Answer
<1>21. ASSUME NEW s \in Sessions, Bind(s) PROVE NoLostWakeup'
  BY <1>21 DEF Bind
<1>22. ASSUME NEW s \in Sessions, Consent(s) PROVE NoLostWakeup'
  BY <1>22 DEF Consent
<1>23. ASSUME NEW s \in Sessions, Built(s) PROVE NoLostWakeup'
  BY <1>23 DEF Built
<1>24. ASSUME NEW s \in Sessions, Failed(s) PROVE NoLostWakeup'
  BY <1>24 DEF Failed, ErrorOutcome
<1>25. ASSUME NEW s \in Sessions, Cleanup(s) PROVE NoLostWakeup'
  BY <1>25 DEF Cleanup
<1>26. ASSUME NEW s \in Sessions, Delete(s) PROVE NoLostWakeup'
  BY <1>26 DEF Delete
<1>27. ASSUME NEW s \in Sessions, Release(s) PROVE NoLostWakeup'
  BY <1>27 DEF Release
<1>28. ASSUME NEW s \in Sessions, DriverPromote(s) PROVE NoLostWakeup'
  BY <1>28 DEF DriverPromote, PromoteNext
<1>29. ASSUME NEW s \in Sessions, WatchPoll(s) PROVE NoLostWakeup'
  BY <1>29 DEF WatchPoll
<1>30. ASSUME NEW s \in Sessions, WatchEnd(s) PROVE NoLostWakeup'
  BY <1>30 DEF WatchEnd, Stopped
<1>31. ASSUME NEW s \in Sessions, WatchTell(s) PROVE NoLostWakeup'
  BY <1>31 DEF WatchTell
<1>32. ASSUME NEW s \in Sessions, RelayCheck(s) PROVE NoLostWakeup'
  BY <1>32 DEF RelayCheck
<1>33. ASSUME RelayMark PROVE NoLostWakeup'
  BY <1>33 DEF RelayMark
<1>34. ASSUME NEW s \in Sessions, Fire(s) PROVE NoLostWakeup'
  <2> DEFINE g == timer[s]
  <2>1. late' = [late EXCEPT ![s] = [late[s] EXCEPT ![g] = "fired"]]
    BY <1>34 DEF Fire
  <2>2. UNCHANGED <<active, ticket, driver>> /\ g \in Gens
    BY <1>34 DEF Fire
  <2>3. \A r \in Sessions, h \in Gens : late[r][h] = "promote" /\ ~(r = s /\ h = g)
                                         => late'[r][h] = "promote"
    BY <2>1, <2>2
  <2>4. late[s][g] # "promote"
    BY <1>34, <2>2 DEF Fire, LatecomersInStep
  <2>5. QED
    BY <2>2, <2>3, <2>4
<1>35. ASSUME NEW s \in Sessions, NEW g \in Gens, LateLock(s, g) PROVE NoLostWakeup'
  BY <1>35 DEF LateLock
<1>36. ASSUME NEW s \in Sessions, NEW g \in Gens, LateAsk(s, g) PROVE NoLostWakeup'
  BY <1>36 DEF LateAsk, Dispatch
<1>37. ASSUME NEW s \in Sessions, NEW g \in Gens, LateExpire(s, g) PROVE NoLostWakeup'
  BY <1>37 DEF LateExpire
<1>38. ASSUME NEW s \in Sessions, NEW g \in Gens, LatePromote(s, g) PROVE NoLostWakeup'
  BY <1>38 DEF LatePromote, PromoteNext
<1>39. CASE UNCHANGED vars
  BY <1>39 DEF vars
<1> HIDE DEF NoLostWakeup
<1>40. QED
  BY <1>1, <1>2, <1>3, <1>4, <1>5, <1>6, <1>7, <1>8, <1>9, <1>10, <1>11, <1>12, <1>13, <1>14,
     <1>15, <1>16, <1>17, <1>18, <1>19, <1>20, <1>21, <1>22, <1>23, <1>24, <1>25, <1>26, <1>27,
     <1>28, <1>29, <1>30, <1>31, <1>32, <1>33, <1>34, <1>35, <1>36, <1>37, <1>38, <1>39 DEF
     Next, Start, Admit, Calls, Continue, Drive, Watch, Stop, Late

-----------------------------------------------------------------------------
\* The invariant holds initially and every step keeps it.
THEOREM InvHolds == Spec => []Inv
<1>1. Init => Inv
  <2> SUFFICES ASSUME Init PROVE Inv
    OBVIOUS
  <2> USE NoneIsNoSession DEF Init, Queued, Over, Terminals
  <2>1. TypeOK
    BY AuthorizationAssumption
    DEF AuthorizationAssumption, TypeOK, RcloneType, QueueType, RecordType, CallerType, WorkerType,
        HelperType, Statuses, Sections, Apps, Drivers, Watches, Stoppers, Lates
  <2>2. QueueShape /\ SingleFlight
    BY DEF QueueShape, SingleFlight, Driving
  <2>3. WorkersInStep /\ LatecomersInStep /\ OutcomeEarned
    BY DEF WorkersInStep, LatecomersInStep, OutcomeEarned, After
  <2>4. SectionsInStep
    BY DEF SectionsInStep
  <2>5. QED
    BY <2>1, <2>2, <2>3, <2>4 DEF Inv
<1>2. Inv /\ [Next]_vars => Inv'
  <2> SUFFICES ASSUME Inv, [Next]_vars PROVE Inv'
    OBVIOUS
  <2>1. TypeOK'
    BY TypeStep DEF Inv
  <2>2. QueueShape' /\ SingleFlight' /\ WorkersInStep'
    BY <2>1, QueueShapeStep, SingleFlightStep, WorkersInStepStep
  <2>3. LatecomersInStep' /\ OutcomeEarned'
    BY <2>1, LatecomersInStepStep, OutcomeEarnedStep
  <2>4. (NamesApart => SectionsInStep)'
    BY <2>1, SectionsInStepStep DEF NamesApart
  <2>5. QED
    BY <2>1, <2>2, <2>3, <2>4 DEF Inv
<1>3. QED
  BY <1>1, <1>2, PTL DEF Spec

\* Every variable keeps its type, for any sessions, names and caps.
THEOREM TypeCorrect == Spec => []TypeOK
<1>1. Inv => TypeOK
  BY DEF Inv
<1>2. QED
  BY <1>1, InvHolds, PTL

\* At most one session is between its admission and the end of its cleanup
\* (_start, _promote_next, _on_settled): rclone's one OAuth flow is its own.
THEOREM OneAtATime == Spec => []SingleFlight
<1>1. Inv => SingleFlight
  BY DEF Inv
<1>2. QED
  BY <1>1, InvHolds, PTL

\* No outcome is claimed that did not happen (_run_driver, cancel, _on_deadline).
THEOREM Truthful == Spec => []TruthfulOutcome
<1>1. Inv => TruthfulOutcome
  BY DEF Inv, OutcomeEarned, TruthfulOutcome, Dropped, QueueShape, WorkersInStep
<1>2. QED
  BY <1>1, InvHolds, PTL

\* Whenever the slot is free and sessions wait, somebody is about to promote one.
THEOREM SlotIsNoticed == Spec => []NoLostWakeup
<1>1. Init => NoLostWakeup
  BY DEF Init, NoLostWakeup, Queued
<1>2. Inv /\ Inv' /\ NoLostWakeup /\ [Next]_vars => NoLostWakeup'
  BY NoLostWakeupStep DEF Inv
<1>3. QED
  BY <1>1, <1>2, InvHolds, PTL DEF Spec

\* A settled session stays as it settled (_advance), whoever comes late.
THEOREM SettledOnce == Spec => SettledForGood
<1> DEFINE Kept == \A s \in Sessions : Over(s) => status'[s] = status[s]
<1>1. Inv /\ [Next]_vars => Kept
  <2> SUFFICES ASSUME Inv, [Next]_vars PROVE Kept
    OBVIOUS
  <2> USE DEF Over, Terminals, Advance, Inv, TypeOK, RecordType
  <2>1. ASSUME NEW r \in Sessions,
               AdmitStatus(r) \/ CancelQueued(r) \/ CloseMark(r) \/ Built(r) \/ Failed(r) \/ WatchTell(r)
        PROVE  Kept
    BY <2>1 DEF AdmitStatus, CancelQueued, CloseMark, Built, Failed, WatchTell, ErrorOutcome
  <2>2. ASSUME NEW r \in Sessions, NEW g \in Gens, LateExpire(r, g) PROVE Kept
    BY <2>2 DEF LateExpire
  <2>3. CASE RelayMark
    BY <2>3 DEF RelayMark
  <2>4. CASE UNCHANGED status
    BY <2>4
  <2>5. ASSUME NEW r \in Sessions, Start(r) \/ AdmitStart(r) \/ Calls(r) \/ CancelLook(r)
                 \/ CancelAsk(r) \/ CloseRemove(r) \/ Consent(r) \/ Fire(r) \/ RelayCheck(r)
        PROVE  UNCHANGED status
    BY <2>5
    DEF recordVars, Start, StartCheck, StartAdmitted, StartQueued, StartRefused, AdmitStart, Calls,
        CancelCall, CloseCall, CancelLook, CancelAsk, CloseRemove, Consent, Fire, RelayCheck
  <2>6. ASSUME NEW r \in Sessions, Create(r) \/ Answer(r) \/ Bind(r) \/ Cleanup(r) \/ Delete(r)
                 \/ Release(r) \/ DriverPromote(r) \/ WatchPoll(r) \/ WatchEnd(r)
        PROVE  UNCHANGED status
    BY <2>6
    DEF recordVars, Create, Answer, Bind, Cleanup, Delete, Release, DriverPromote, WatchPoll, WatchEnd
  <2>7. ASSUME NEW r \in Sessions, NEW k \in Causes, Stop(r, k) PROVE UNCHANGED status
    BY <2>7 DEF recordVars, Stop, StopFlow, StopNothing, StopFails, StopLook, StopGivesUp
  <2>8. ASSUME NEW r \in Sessions, NEW g \in Gens, LateLock(r, g) \/ LateAsk(r, g) \/ LatePromote(r, g)
        PROVE  UNCHANGED status
    BY <2>8 DEF recordVars, LateLock, LateAsk, LatePromote
  <2>9. CASE UNCHANGED vars
    BY <2>9 DEF vars, recordVars
  <2>10. QED
    BY <2>1, <2>2, <2>3, <2>4, <2>5, <2>6, <2>7, <2>8, <2>9
    DEF Next, Admit, Continue, Drive, Watch, Late
<1>2. Inv /\ [Next]_vars => [\A s \in Sessions : Over(s) => status'[s] = status[s]]_vars
  BY <1>1
<1>3. QED
  BY <1>2, InvHolds, PTL DEF Spec, SettledForGood

\* No session takes a token out of the configuration (start, _cleanup_on_failure),
\* provided no two of them create a remote of the same name: start() alone does
\* not see to that.
THEOREM TokensKept ==
  ASSUME NamesApart
  PROVE  Spec => TokenKept
<1> DEFINE Kept == \A n \in Names : section[n] = "token" => section'[n] = "token"
<1>1. Inv /\ [Next]_vars => Kept
  <2> SUFFICES ASSUME Inv, [Next]_vars PROVE Kept
    OBVIOUS
  <2> USE NamesApart, NameTyped DEF Inv, TypeOK, RcloneType
  <2>1. ASSUME NEW s \in Sessions, Create(s) PROVE Kept
    BY <2>1 DEF Create, SectionsInStep, QueueShape
  <2>2. ASSUME NEW s \in Sessions, Consent(s) PROVE Kept
    BY <2>2 DEF Consent
  <2>3. ASSUME NEW s \in Sessions, Delete(s) PROVE Kept
    BY <2>3 DEF Delete, SectionsInStep
  <2>4. CASE UNCHANGED section
    BY <2>4
  <2>5. ASSUME NEW s \in Sessions, Start(s) \/ Admit(s) \/ Calls(s) \/ Continue(s) \/ Fire(s)
                 \/ RelayCheck(s)
        PROVE  UNCHANGED section
    BY <2>5
    DEF rcloneVars, Start, StartCheck, StartAdmitted, StartQueued, StartRefused, Admit, AdmitStatus,
        AdmitStart, Calls, CancelCall, CloseCall, Continue, CancelQueued, CancelLook, CancelAsk,
        CloseRemove, CloseMark, Fire, RelayCheck
  <2>6. ASSUME NEW s \in Sessions, Answer(s) \/ Bind(s) \/ Built(s) \/ Failed(s) \/ Cleanup(s)
                 \/ Release(s) \/ DriverPromote(s) \/ Watch(s)
        PROVE  UNCHANGED section
    BY <2>6
    DEF rcloneVars, Answer, Bind, Built, Failed, Cleanup, Release, DriverPromote, Watch, WatchPoll,
        WatchEnd, WatchTell
  <2>7. ASSUME NEW s \in Sessions, NEW k \in Causes, Stop(s, k) PROVE UNCHANGED section
    BY <2>7 DEF rcloneVars, Stop, StopFlow, StopNothing, StopFails, StopLook, StopGivesUp
  <2>8. ASSUME NEW s \in Sessions, NEW g \in Gens, Late(s, g) PROVE UNCHANGED section
    BY <2>8 DEF rcloneVars, Late, LateLock, LateAsk, LateExpire, LatePromote
  <2>9. CASE RelayMark \/ UNCHANGED vars
    BY <2>9 DEF RelayMark, vars, rcloneVars
  <2>10. QED
    BY <2>1, <2>2, <2>3, <2>4, <2>5, <2>6, <2>7, <2>8, <2>9 DEF Next, Drive
<1>2. QED
  BY <1>1, InvHolds, PTL DEF Spec, TokenKept
============================================================================
