------------------------- MODULE RunLifecycleProofs -------------------------
(***************************************************************************)
(* Proofs about one agent run, for any number of control requests, any     *)
(* step limit and any combination of the failures of RunLifecycle.         *)
(*                                                                         *)
(* None of the properties is inductive as it stands.  The strengthenings,  *)
(* each defined where it is first used, are                                *)
(*   TypeInv      the types, and a turn left while the loop goes on;       *)
(*   Ownership    who may close which channel;                             *)
(*   Admitted     which requests got past the check of the row's status;   *)
(*   PauseWindow  when a channel and a completion mark are registered;     *)
(*   PausedRow    what the row "paused" says about the loop;               *)
(*   Publication  that what is stored, published and received agrees;      *)
(*   Retirement   that a completion mark has a handler to remove it.       *)
(***************************************************************************)
EXTENDS RunLifecycle, TLAPS

-----------------------------------------------------------------------------
(* Types *)

\* The initial state is well typed.
LEMMA InitTypeOK == Init => TypeOK
<1> SUFFICES ASSUME Init PROVE TypeOK
  OBVIOUS
<1> USE DEF Init, NoChan
<1>1. HubTypeOK /\ ChanTypeOK
  <2>1. signals \in Seq(Signals)
    OBVIOUS
  <2> QED
    BY <2>1 DEF HubTypeOK, ChanTypeOK
<1>2. LoopTypeOK
  BY RunAssumption DEF LoopTypeOK, LoopSteps
<1>3. ReqTypeOK
  BY DEF ReqTypeOK, ReqSteps, Hubs
<1>4. RowTypeOK /\ ClientTypeOK /\ EnvTypeOK
  BY DEF RowTypeOK, ClientTypeOK, EnvTypeOK, Hubs
<1> QED
  BY <1>1, <1>2, <1>3, <1>4 DEF TypeOK

\* A step that leaves a group of variables alone leaves its types alone.
LEMMA TypeFrame ==
    ASSUME TypeOK
    PROVE  /\ UNCHANGED rowVars => RowTypeOK'
           /\ UNCHANGED hubVars => HubTypeOK'
           /\ UNCHANGED chanVars => ChanTypeOK'
           /\ UNCHANGED loopVars => LoopTypeOK'
           /\ UNCHANGED clientVars => ClientTypeOK'
           /\ UNCHANGED reqVars => ReqTypeOK'
           /\ UNCHANGED envVars => EnvTypeOK'
<1> USE DEF TypeOK
<1>1. UNCHANGED rowVars => RowTypeOK'
  BY DEF rowVars, RowTypeOK
<1>2. UNCHANGED hubVars => HubTypeOK'
  BY DEF hubVars, HubTypeOK
<1>3. UNCHANGED chanVars => ChanTypeOK'
  BY DEF chanVars, ChanTypeOK
<1>4. UNCHANGED loopVars => LoopTypeOK'
  BY DEF loopVars, LoopTypeOK
<1>5. UNCHANGED clientVars => ClientTypeOK'
  BY DEF clientVars, ClientTypeOK
<1>6. UNCHANGED reqVars => ReqTypeOK'
  BY DEF reqVars, ReqTypeOK
<1>7. UNCHANGED envVars => EnvTypeOK'
  BY DEF envVars, EnvTypeOK
<1> QED
  BY <1>1, <1>2, <1>3, <1>4, <1>5, <1>6, <1>7

\* Two facts the types depend on: a loop that may still call the model has a
\* turn left, and only a request for a signal reaches RunHub.Send.
Looping == {"ask", "prepare", "poll", "persist", "lookup", "wait", "turn"}

TurnsLeft == loop \in Looping => turns < TurnLimit

SendsSignal == \A r \in Requests : rpc[r] = "send" => rkind[r] \in Signals

TypeInv == TypeOK /\ TurnsLeft /\ SendsSignal

\* Every step keeps every variable in its type.
LEMMA NextTypeOK == TypeInv /\ [Next]_vars => TypeOK'
<1> USE DEF TypeOK, TypeInv
<1>1. ASSUME TypeInv, Create PROVE TypeOK'
  <2> USE <1>1 DEF Create
  <2>1. RowTypeOK'
    BY DEF RowTypeOK, Active, Ended
  <2>2. LoopTypeOK'
    BY DEF GoTo, LoopTypeOK, LoopSteps, Ended
  <2>3. EnvTypeOK'
    BY DEF EnvTypeOK, Hubs
  <2> QED
    BY <2>1, <2>2, <2>3, TypeFrame
<1>2. ASSUME TypeInv, Prepare PROVE TypeOK'
  <2> USE <1>2 DEF Prepare
  <2>1. LoopTypeOK'
    BY DEF GoTo, LoopTypeOK, LoopSteps, Ended
  <2>2. ClientTypeOK'
    BY DEF ClientTypeOK, Ended
  <2> QED
    BY <2>1, <2>2, TypeFrame
<1>3. ASSUME TypeInv, PollNone PROVE TypeOK'
  <2> USE <1>3 DEF PollNone
  <2>1. LoopTypeOK'
    BY DEF GoTo, LoopTypeOK, LoopSteps, Ended
  <2> QED
    BY <2>1, TypeFrame
<1>4. ASSUME TypeInv, PollNudge PROVE TypeOK'
  <2> USE <1>4 DEF PollNudge
  <2>1. HubTypeOK'
    BY DEF HubTypeOK
  <2> QED
    BY <2>1, TypeFrame
<1>5. ASSUME TypeInv, PollAbort PROVE TypeOK'
  <2> USE <1>5 DEF PollAbort
  <2>1. HubTypeOK'
    BY DEF HubTypeOK
  <2>2. LoopTypeOK'
    BY DEF GoTo, LoopTypeOK, LoopSteps, Ended
  <2> QED
    BY <2>1, <2>2, TypeFrame
<1>6. ASSUME TypeInv, PollPause PROVE TypeOK'
  <2> USE <1>6 DEF PollPause
  <2>1. HubTypeOK'
    BY DEF NoChan, HubTypeOK, ChanTypeOK
  <2>2. ChanTypeOK'
    BY DEF NoChan, ChanTypeOK
  <2>3. LoopTypeOK'
    BY DEF GoTo, NoChan, LoopTypeOK, LoopSteps, Ended, HubTypeOK
  <2> QED
    BY <2>1, <2>2, <2>3, TypeFrame
<1>7. ASSUME TypeInv, PersistPause PROVE TypeOK'
  <2> USE <1>7 DEF PersistPause
  <2>1. RowTypeOK'
    BY DEF Transition, RowTypeOK, Active, Ended
  <2>2. LoopTypeOK'
    BY DEF GoTo, LoopTypeOK, LoopSteps, Ended
  <2> QED
    BY <2>1, <2>2, TypeFrame
<1>8. ASSUME TypeInv, Rollback PROVE TypeOK'
  <2> USE <1>8 DEF Rollback
  <2>1. HubTypeOK'
    BY DEF NoChan, HubTypeOK
  <2>2. LoopTypeOK'
    BY DEF GoTo, NoChan, LoopTypeOK, LoopSteps, Ended, HubTypeOK
  <2> QED
    BY <2>1, <2>2, TypeFrame
<1>9. ASSUME TypeInv, RollbackClose PROVE TypeOK'
  <2> USE <1>9 DEF RollbackClose
  <2>1. ChanTypeOK'
    BY DEF Close, NoChan, ChanTypeOK, chanVars, LoopTypeOK
  <2>2. LoopTypeOK'
    BY DEF GoTo, NoChan, LoopTypeOK, LoopSteps, Ended, HubTypeOK
  <2> QED
    BY <2>1, <2>2, TypeFrame
<1>10. ASSUME TypeInv, WaitLookup PROVE TypeOK'
  <2> USE <1>10 DEF WaitLookup
  <2>1. LoopTypeOK'
    BY DEF GoTo, NoChan, LoopTypeOK, LoopSteps, Ended, HubTypeOK
  <2> QED
    BY <2>1, TypeFrame
<1>11. ASSUME TypeInv, WaitReleased PROVE TypeOK'
  <2> USE <1>11 DEF WaitReleased
  <2>1. LoopTypeOK'
    BY DEF GoTo, NoChan, LoopTypeOK, LoopSteps, Ended, HubTypeOK
  <2> QED
    BY <2>1, TypeFrame
<1>12. ASSUME TypeInv, WaitCancelled PROVE TypeOK'
  <2> USE <1>12 DEF WaitCancelled
  <2>1. LoopTypeOK'
    BY DEF GoTo, RunContextDone, NoChan, LoopTypeOK, LoopSteps, Ended, HubTypeOK
  <2> QED
    BY <2>1, TypeFrame
<1>13. ASSUME TypeInv, Turn PROVE TypeOK'
  <2> USE <1>13 DEF Turn
  <2>1. LoopTypeOK'
    <3>1. turns + 1 \in 0..TurnLimit
      BY RunAssumption DEF LoopTypeOK, TurnsLeft, Looping
    <3> QED
      BY <3>1 DEF GoTo, LoopTypeOK, LoopSteps, Ended
  <2> QED
    BY <2>1, TypeFrame
<1>14. ASSUME TypeInv, Conclude PROVE TypeOK'
  <2> USE <1>14 DEF Conclude
  <2>1. LoopTypeOK'
    BY DEF GoTo, LoopTypeOK, LoopSteps, Ended
  <2> QED
    BY <2>1, TypeFrame
<1>15. ASSUME TypeInv, CompleteLock PROVE TypeOK'
  <2> USE <1>15 DEF CompleteLock
  <2>1. HubTypeOK'
    <3>1. <<>> \in Seq(Signals)
      OBVIOUS
    <3>2. CASE UNCHANGED hubVars
      BY <3>2 DEF HubTypeOK, hubVars
    <3>3. CASE completed' = TRUE /\ signals' = <<>> /\ paused' = NoChan
      BY <3>1, <3>3 DEF HubTypeOK, NoChan
    <3> QED
      BY <3>2, <3>3
  <2>2. LoopTypeOK'
    BY DEF GoTo, NoChan, LoopTypeOK, LoopSteps, Ended, HubTypeOK
  <2> QED
    BY <2>1, <2>2, TypeFrame
<1>16. ASSUME TypeInv, CompleteRelease PROVE TypeOK'
  <2> USE <1>16 DEF CompleteRelease
  <2>1. ChanTypeOK'
    BY DEF Close, NoChan, ChanTypeOK, chanVars, LoopTypeOK
  <2>2. LoopTypeOK'
    BY DEF GoTo, NoChan, LoopTypeOK, LoopSteps, Ended, HubTypeOK
  <2> QED
    BY <2>1, <2>2, TypeFrame
<1>17. ASSUME TypeInv, CompleteStore PROVE TypeOK'
  <2> USE <1>17 DEF CompleteStore
  <2>1. RowTypeOK'
    BY DEF Transition, RowTypeOK, Active, Ended, LoopTypeOK
  <2>2. LoopTypeOK'
    BY DEF GoTo, Reported, LoopTypeOK, LoopSteps, Ended
  <2> QED
    BY <2>1, <2>2, TypeFrame
<1>18. ASSUME TypeInv, CompletePublish PROVE TypeOK'
  <2> USE <1>18 DEF CompletePublish
  <2>1. LoopTypeOK'
    BY DEF GoTo, Subscribed, LoopTypeOK, LoopSteps, Ended
  <2>2. ClientTypeOK'
    BY DEF Subscribed, ClientTypeOK, Ended, LoopTypeOK
  <2> QED
    BY <2>1, <2>2, TypeFrame
<1>19. ASSUME TypeInv, CompleteRetire PROVE TypeOK'
  <2> USE <1>19 DEF CompleteRetire
  <2>1. HubTypeOK'
    BY DEF Subscribed, HubTypeOK
  <2>2. LoopTypeOK'
    BY DEF GoTo, Subscribed, LoopTypeOK, LoopSteps, Ended
  <2> QED
    BY <2>1, <2>2, TypeFrame
<1>20. ASSUME TypeInv, Receive PROVE TypeOK'
  <2> USE <1>20 DEF Receive
  <2>1. ClientTypeOK'
    BY DEF ClientTypeOK, Ended
  <2> QED
    BY <2>1, TypeFrame
<1>21. ASSUME TypeInv, GiveUp PROVE TypeOK'
  <2> USE <1>21 DEF GiveUp
  <2>1. ClientTypeOK'
    BY DEF ClientTypeOK, Ended
  <2> QED
    BY <2>1, TypeFrame
<1>22. ASSUME TypeInv, Unsubscribe PROVE TypeOK'
  <2> USE <1>22 DEF Unsubscribe
  <2>1. HubTypeOK'
    BY DEF HubTypeOK
  <2>2. ClientTypeOK'
    BY DEF ClientTypeOK, Ended
  <2> QED
    BY <2>1, <2>2, TypeFrame
<1>23. ASSUME TypeInv, Expire PROVE TypeOK'
  <2> USE <1>23 DEF Expire
  <2>1. EnvTypeOK'
    BY DEF EnvTypeOK, Hubs
  <2> QED
    BY <2>1, TypeFrame
<1>24. ASSUME TypeInv, Disconnect PROVE TypeOK'
  <2> USE <1>24 DEF Disconnect
  <2>1. ClientTypeOK'
    BY DEF ClientTypeOK, Ended
  <2> QED
    BY <2>1, TypeFrame
<1>25. ASSUME TypeInv, DeleteSession PROVE TypeOK'
  <2> USE <1>25 DEF DeleteSession
  <2>1. RowTypeOK'
    BY DEF RowTypeOK, Active, Ended
  <2> QED
    BY <2>1, TypeFrame
<1>26. ASSUME TypeInv, Reload PROVE TypeOK'
  <2> USE <1>26 DEF Reload
  <2>1. EnvTypeOK'
    BY DEF EnvTypeOK, Hubs
  <2> QED
    BY <2>1, TypeFrame
<1>27. ASSUME TypeInv, Crash PROVE TypeOK'
  <2> USE <1>27 DEF Crash
  <2>1. HubTypeOK'
    <3>1. <<>> \in Seq(Signals)
      OBVIOUS
    <3> QED
      BY <3>1 DEF HubTypeOK, NoChan
  <2>2. ChanTypeOK'
    BY DEF NoChan, ChanTypeOK
  <2>3. LoopTypeOK'
    BY DEF NoChan, LoopTypeOK, LoopSteps, Ended, HubTypeOK
  <2>4. ClientTypeOK'
    BY DEF NoChan, ClientTypeOK, Ended
  <2>5. ReqTypeOK'
    BY DEF NoChan, ReqTypeOK, ReqSteps, Hubs
  <2>6. EnvTypeOK'
    BY DEF NoChan, EnvTypeOK, Hubs
  <2> QED
    BY <2>1, <2>2, <2>3, <2>4, <2>5, <2>6, TypeFrame
<1>28. ASSUME TypeInv, Restart PROVE TypeOK'
  <2> USE <1>28 DEF Restart
  <2>1. RowTypeOK'
    BY DEF RowTypeOK, Active, Ended
  <2>2. EnvTypeOK'
    BY DEF EnvTypeOK, Hubs
  <2> QED
    BY <2>1, <2>2, TypeFrame
<1>29. ASSUME TypeInv, NEW r \in Requests, Arrive(r) PROVE TypeOK'
  <2> USE <1>29 DEF Arrive
  <2>1. ReqTypeOK'
    <3>1. PICK k \in Kinds : rkind' = [rkind EXCEPT ![r] = k]
      OBVIOUS
    <3>2. PICK s \in {"rejected", "lookup", "send"} : rpc' = [rpc EXCEPT ![r] = s]
      BY DEF ReqAt
    <3>3. PICK hub \in Hubs : rhub' = [rhub EXCEPT ![r] = hub]
      BY DEF EnvTypeOK, Hubs
    <3> QED
      BY <3>1, <3>2, <3>3 DEF ReqTypeOK, ReqSteps
  <2> QED
    BY <2>1, TypeFrame
<1>30. ASSUME TypeInv, NEW r \in Requests, Misdirected(r) PROVE TypeOK'
  <2> USE <1>30 DEF Misdirected
  <2>1. ReqTypeOK'
    BY DEF ReqAt, ReqTypeOK, ReqSteps, Hubs
  <2> QED
    BY <2>1, TypeFrame
<1>31. ASSUME TypeInv, NEW r \in Requests, SendSignal(r) PROVE TypeOK'
  <2> USE <1>31 DEF SendSignal
  <2>1. HubTypeOK'
    <3>1. rkind[r] \in Signals
      BY DEF SendsSignal
    <3> QED
      BY <3>1 DEF HubTypeOK
  <2>2. ReqTypeOK'
    BY DEF ReqAt, ReqTypeOK, ReqSteps, Hubs
  <2> QED
    BY <2>1, <2>2, TypeFrame
<1>32. ASSUME TypeInv, NEW r \in Requests, SendAbort(r) PROVE TypeOK'
  <2> USE <1>32 DEF SendAbort
  <2>1. HubTypeOK'
    BY DEF NoChan, HubTypeOK, Signals
  <2>2. ReqTypeOK'
    BY DEF ReqAt, AfterTake, NoChan, ReqTypeOK, ReqSteps, Hubs, HubTypeOK
  <2> QED
    BY <2>1, <2>2, TypeFrame
<1>33. ASSUME TypeInv, NEW r \in Requests, ResumeQueued(r) PROVE TypeOK'
  <2> USE <1>33 DEF ResumeQueued
  <2>1. HubTypeOK'
    <3>1. PICK n \in 0..Len(signals) :
            \E at \in [1..n -> 1..Len(signals)] : signals' = [i \in 1..n |-> signals[at[i]]]
      BY DEF WithoutPauses
    <3>2. PICK at \in [1..n -> 1..Len(signals)] : signals' = [i \in 1..n |-> signals[at[i]]]
      BY <3>1
    <3>3. \A i \in 1..n : signals[at[i]] \in Signals
      BY <3>2 DEF HubTypeOK
    <3>4. signals' \in Seq(Signals)
      BY <3>1, <3>2, <3>3 DEF HubTypeOK
    <3> QED
      BY <3>4 DEF HubTypeOK
  <2>2. ReqTypeOK'
    BY DEF ReqAt, NoChan, ReqTypeOK, ReqSteps, Hubs
  <2> QED
    BY <2>1, <2>2, TypeFrame
<1>34. ASSUME TypeInv, NEW r \in Requests, ResumeLookup(r) PROVE TypeOK'
  <2> USE <1>34 DEF ResumeLookup
  <2>1. ReqTypeOK'
    BY DEF ReqAt, NoChan, ReqTypeOK, ReqSteps, Hubs, HubTypeOK
  <2> QED
    BY <2>1, TypeFrame
<1>35. ASSUME TypeInv, NEW r \in Requests, ResumeTransition(r) PROVE TypeOK'
  <2> USE <1>35 DEF ResumeTransition
  <2>1. RowTypeOK'
    BY DEF Transition, RowTypeOK, Active, Ended
  <2>2. ReqTypeOK'
    BY DEF ReqAt, ReqTypeOK, ReqSteps, Hubs
  <2> QED
    BY <2>1, <2>2, TypeFrame
<1>36. ASSUME TypeInv, NEW r \in Requests, ResumeRelease(r) PROVE TypeOK'
  <2> USE <1>36 DEF ResumeRelease
  <2>1. HubTypeOK'
    BY DEF NoChan, HubTypeOK
  <2>2. ReqTypeOK'
    BY DEF ReqAt, NoChan, ReqTypeOK, ReqSteps, Hubs
  <2> QED
    BY <2>1, <2>2, TypeFrame
<1>37. ASSUME TypeInv, NEW r \in Requests, CloseTaken(r) PROVE TypeOK'
  <2> USE <1>37 DEF CloseTaken
  <2>1. ChanTypeOK'
    BY DEF Close, NoChan, ChanTypeOK, chanVars, ReqTypeOK
  <2>2. ReqTypeOK'
    BY DEF ReqAt, NoChan, ReqTypeOK, ReqSteps, Hubs
  <2> QED
    BY <2>1, <2>2, TypeFrame
<1>38. ASSUME TypeInv, UNCHANGED vars PROVE TypeOK'
  BY <1>38, TypeFrame DEF vars
<1> QED
  BY <1>1, <1>2, <1>3, <1>4, <1>5, <1>6, <1>7, <1>8, <1>9, <1>10, <1>11,
     <1>12, <1>13, <1>14, <1>15, <1>16, <1>17, <1>18, <1>19, <1>20, <1>21,
     <1>22, <1>23, <1>24, <1>25, <1>26, <1>27, <1>28, <1>29, <1>30, <1>31,
     <1>32, <1>33, <1>34, <1>35, <1>36, <1>37, <1>38
  DEF Next, Run, Serve, Progress, Environment

\* Only the run's own goroutine and a crash move the loop.
LEMMA LoopFrame ==
    ASSUME Serve \/ Environment \/ UNCHANGED vars \/ \E r \in Requests : Arrive(r) \/ Progress(r)
    PROVE  Crash \/ UNCHANGED loopVars
BY DEF Serve, Environment, Progress, vars, Receive, GiveUp, Unsubscribe,
       Expire, Disconnect, DeleteSession, Reload, Restart, Arrive,
       Misdirected, SendSignal, SendAbort, ResumeQueued, ResumeLookup,
       ResumeTransition, ResumeRelease, CloseTaken

\* Only a request's own steps and a crash move the requests.
LEMMA RequestFrame ==
    ASSUME [Run \/ Serve \/ Environment]_vars
    PROVE  Crash \/ UNCHANGED reqVars
BY DEF Run, Serve, Environment, vars, Create, Prepare, PollNone, PollNudge,
       PollAbort, PollPause, PersistPause, Rollback, RollbackClose,
       WaitLookup, WaitReleased, WaitCancelled, Turn, Conclude, CompleteLock,
       CompleteRelease, CompleteStore, CompletePublish, CompleteRetire,
       Receive, GiveUp, Unsubscribe, Expire, Disconnect, DeleteSession,
       Reload, Restart

\* A step leaves a turn for the loop that goes on.
LEMMA NextTurnsLeft == TypeInv /\ [Next]_vars => TurnsLeft'
<1> USE DEF TypeInv, TurnsLeft, Looping, TypeOK, LoopTypeOK
<1>1. ASSUME TypeInv, Create PROVE TurnsLeft'
  BY <1>1 DEF Create, GoTo
<1>2. ASSUME TypeInv, Prepare PROVE TurnsLeft'
  BY <1>2 DEF Prepare, GoTo
<1>3. ASSUME TypeInv, PollNone PROVE TurnsLeft'
  BY <1>3 DEF PollNone, GoTo
<1>4. ASSUME TypeInv, PollNudge PROVE TurnsLeft'
  BY <1>4 DEF PollNudge, loopVars
<1>5. ASSUME TypeInv, PollAbort PROVE TurnsLeft'
  BY <1>5 DEF PollAbort, GoTo
<1>6. ASSUME TypeInv, PollPause PROVE TurnsLeft'
  BY <1>6 DEF PollPause, GoTo
<1>7. ASSUME TypeInv, PersistPause PROVE TurnsLeft'
  BY <1>7 DEF PersistPause, GoTo
<1>8. ASSUME TypeInv, Rollback PROVE TurnsLeft'
  BY <1>8 DEF Rollback, GoTo
<1>9. ASSUME TypeInv, RollbackClose PROVE TurnsLeft'
  BY <1>9 DEF RollbackClose, GoTo
<1>10. ASSUME TypeInv, WaitLookup PROVE TurnsLeft'
  BY <1>10 DEF WaitLookup, GoTo
<1>11. ASSUME TypeInv, WaitReleased PROVE TurnsLeft'
  BY <1>11 DEF WaitReleased, GoTo
<1>12. ASSUME TypeInv, WaitCancelled PROVE TurnsLeft'
  BY <1>12 DEF WaitCancelled, GoTo
<1>13. ASSUME TypeInv, Turn PROVE TurnsLeft'
  BY <1>13, RunAssumption DEF Turn, MoreTurns, GoTo
<1>14. ASSUME TypeInv, Conclude PROVE TurnsLeft'
  BY <1>14 DEF Conclude, GoTo
<1>15. ASSUME TypeInv, CompleteLock PROVE TurnsLeft'
  BY <1>15 DEF CompleteLock, GoTo
<1>16. ASSUME TypeInv, CompleteRelease PROVE TurnsLeft'
  BY <1>16 DEF CompleteRelease, GoTo
<1>17. ASSUME TypeInv, CompleteStore PROVE TurnsLeft'
  BY <1>17 DEF CompleteStore, GoTo
<1>18. ASSUME TypeInv, CompletePublish PROVE TurnsLeft'
  BY <1>18 DEF CompletePublish, GoTo
<1>19. ASSUME TypeInv, CompleteRetire PROVE TurnsLeft'
  BY <1>19 DEF CompleteRetire, GoTo
<1>20. ASSUME TypeInv, Crash PROVE TurnsLeft'
  BY <1>20 DEF Crash
<1>21. ASSUME TypeInv, UNCHANGED loopVars PROVE TurnsLeft'
  BY <1>21 DEF loopVars
<1> QED
  BY <1>1, <1>2, <1>3, <1>4, <1>5, <1>6, <1>7, <1>8, <1>9, <1>10, <1>11,
     <1>12, <1>13, <1>14, <1>15, <1>16, <1>17, <1>18, <1>19, <1>20, <1>21,
     LoopFrame
  DEF Next, Run

\* A request that was let through as a signal still asks for a signal.
LEMMA NextSendsSignal == TypeInv /\ [Next]_vars => SendsSignal'
<1> USE DEF TypeInv, SendsSignal, TypeOK, ReqTypeOK
<1>1. ASSUME TypeInv, UNCHANGED reqVars PROVE SendsSignal'
  BY <1>1 DEF reqVars
<1>2. ASSUME TypeInv, Crash PROVE SendsSignal'
  BY <1>2 DEF Crash
<1>3. ASSUME TypeInv, NEW r \in Requests, Arrive(r) PROVE SendsSignal'
  BY <1>3, RunAssumption DEF Arrive, ReqAt, Signals
<1>4. ASSUME TypeInv, NEW r \in Requests, Progress(r) PROVE SendsSignal'
  BY <1>4 DEF Progress, Misdirected, SendSignal, SendAbort, AfterTake,
          ResumeQueued, ResumeLookup, ResumeTransition, ResumeRelease,
          CloseTaken, ReqAt
<1> QED
  BY <1>1, <1>2, <1>3, <1>4, RequestFrame DEF Next

\* In every reachable state the variables are well typed, the loop still has a
\* turn left while it goes on, and only signals are on their way to Send.
THEOREM TypeInvariant == Spec => []TypeInv
<1>1. Init => TypeInv
  BY InitTypeOK, RunAssumption DEF Init, TypeInv, TurnsLeft, SendsSignal
<1>2. TypeInv /\ [Next]_vars => TypeInv'
  BY NextTypeOK, NextTurnsLeft, NextSendsSignal DEF TypeInv
<1> QED
  BY <1>1, <1>2, PTL DEF Spec

\* Every reachable state is well typed; the loop never takes more than
\* TurnLimit model turns.
THEOREM TypeCorrect == Spec => []TypeOK
BY TypeInvariant, PTL DEF TypeInv

-----------------------------------------------------------------------------
(* Channels *)

Fresh(ch) == ch \in 1..made /\ ch \notin closed

Registered == ~panicked /\ closed \subseteq 1..made /\ (paused # NoChan => Fresh(paused))

LookedUp == \A r \in Requests : rpc[r] \in {"transition", "release"} => rch[r] \in 1..made

Taken == \A r \in Requests : rpc[r] = "close" => Fresh(rch[r]) /\ rch[r] # paused

TakenOnce ==
    \A r, s \in Requests :
        rpc[r] = "close" /\ rpc[s] = "close" /\ rch[r] = rch[s] => r = s

TakenByLoop ==
    loop \in {"rollback close", "release"} /\ held # NoChan =>
        /\ Fresh(held) /\ held # paused
        /\ \A r \in Requests : rpc[r] = "close" => rch[r] # held

\* A channel is closed by whoever took it out of the map: a request about to
\* close it, a completion or a rolled-back pause.  Nobody holds a channel that
\* another one holds, that is still registered or that is closed already.
Ownership ==
    /\ Registered /\ LookedUp /\ Taken /\ TakenOnce /\ TakenByLoop
    /\ ParkedCanBeWoken

\* Steps that touch neither a channel nor whoever holds one.
LEMMA OwnershipFrame ==
    ASSUME Ownership, UNCHANGED <<paused, chanVars, rpc, rch, loop, held>>
    PROVE  Ownership'
BY DEF Ownership, Registered, LookedUp, Taken, TakenOnce, TakenByLoop,
       ParkedCanBeWoken, Parked, Fresh, chanVars

\* Steps of the loop that take, wait for and close no channel.
LEMMA OwnershipOfLoop ==
    ASSUME Ownership, UNCHANGED <<paused, chanVars, rpc, rch>>,
           loop' \notin {"rollback close", "release", "wait"}
    PROVE  Ownership'
BY DEF Ownership, Registered, LookedUp, Taken, TakenOnce, TakenByLoop,
       ParkedCanBeWoken, Parked, Fresh, chanVars

\* Steps of a request that neither take nor close a channel.
LEMMA OwnershipOfRequest ==
    ASSUME TypeOK, Ownership, UNCHANGED <<paused, chanVars, loop, held>>,
           NEW r \in Requests, NEW step \in ReqSteps \ {"close"},
           ReqAt(r, step), rpc[r] # "close",
           \A q \in Requests \ {r} : rch'[q] = rch[q],
           step \in {"transition", "release"} => rch'[r] \in 1..made
    PROVE  Ownership'
<1> USE DEF TypeOK, ReqTypeOK, ReqAt, Ownership
<1>1. Registered' /\ LookedUp'
  BY DEF Registered, LookedUp, Fresh, chanVars
<1>2. Taken' /\ TakenOnce'
  BY DEF Taken, TakenOnce, Fresh, chanVars
<1>3. TakenByLoop' /\ ParkedCanBeWoken'
  BY DEF TakenByLoop, ParkedCanBeWoken, Parked, Fresh, chanVars
<1> QED
  BY <1>1, <1>2, <1>3

\* A request takes the registered channel in order to close it.
LEMMA OwnershipOfTake ==
    ASSUME TypeOK, Ownership, UNCHANGED <<chanVars, loop, held>>,
           NEW r \in Requests, ReqAt(r, "close"), rpc[r] # "close",
           paused # NoChan, paused' = NoChan, rch'[r] = paused,
           \A q \in Requests \ {r} : rch'[q] = rch[q]
    PROVE  Ownership'
<1> USE DEF TypeOK, HubTypeOK, ChanTypeOK, ReqTypeOK, ReqAt, NoChan, Ownership
<1>1. /\ rpc'[r] = "close"
      /\ \A q \in Requests \ {r} : rpc'[q] = rpc[q]
  OBVIOUS
<1>2. Registered' /\ LookedUp'
  BY <1>1 DEF Registered, LookedUp, Fresh, chanVars
<1>3. Taken' /\ TakenOnce'
  BY <1>1 DEF Registered, Taken, TakenOnce, Fresh, chanVars
<1>4. TakenByLoop' /\ ParkedCanBeWoken'
  BY <1>1 DEF Registered, TakenByLoop, ParkedCanBeWoken, Parked, Fresh, chanVars
<1> QED
  BY <1>2, <1>3, <1>4

\* Every step keeps the ownership of channels.
LEMMA NextOwnership == TypeInv /\ Ownership /\ [Next]_vars => Ownership'
<1> USE DEF TypeInv, TypeOK, HubTypeOK, ChanTypeOK, LoopTypeOK, ReqTypeOK, NoChan
<1>1. ASSUME TypeInv, Ownership, PollPause PROVE Ownership'
  <2> USE <1>1 DEF PollPause, Ownership
  <2>1. Registered' /\ LookedUp'
    BY DEF Registered, LookedUp, Fresh, reqVars
  <2>2. Taken' /\ TakenOnce'
    BY DEF Registered, Taken, TakenOnce, Fresh, reqVars
  <2>3. TakenByLoop' /\ ParkedCanBeWoken'
    BY DEF TakenByLoop, ParkedCanBeWoken, Parked, GoTo
  <2> QED
    BY <2>1, <2>2, <2>3
<1>2. ASSUME TypeInv, Ownership, Rollback \/ CompleteLock PROVE Ownership'
  <2>1. UNCHANGED <<chanVars, rpc, rch>> /\ loop' # "wait"
    BY <1>2 DEF Rollback, CompleteLock, GoTo, reqVars
  <2>2. CASE loop' = "finished" /\ UNCHANGED paused
    BY <1>2, <2>1, <2>2, OwnershipOfLoop
  <2>3. CASE paused' = NoChan /\ held' = paused
    <3> USE <1>2, <2>1, <2>3 DEF Ownership
    <3>1. Registered' /\ LookedUp'
      BY DEF Registered, LookedUp, Fresh, chanVars
    <3>2. Taken' /\ TakenOnce'
      BY DEF Taken, TakenOnce, Fresh, chanVars
    <3>3. TakenByLoop' /\ ParkedCanBeWoken'
      BY DEF Registered, Taken, TakenByLoop, ParkedCanBeWoken, Parked, Fresh, chanVars
    <3> QED
      BY <3>1, <3>2, <3>3
  <2> QED
    BY <1>2, <2>2, <2>3 DEF Rollback, CompleteLock, GoTo, hubVars
<1>3. ASSUME TypeInv, Ownership, RollbackClose \/ CompleteRelease PROVE Ownership'
  <2> USE <1>3 DEF RollbackClose, CompleteRelease, Close, Ownership
  <2>1. Registered' /\ LookedUp'
    <3>1. CASE held = NoChan
      <4>1. UNCHANGED <<paused, chanVars, rpc, rch>>
        BY <3>1 DEF hubVars, reqVars
      <4> QED
        BY <4>1 DEF Registered, LookedUp, Fresh, chanVars
    <3>2. CASE held # NoChan
      BY <3>2 DEF TakenByLoop, Registered, LookedUp, Fresh, hubVars, reqVars
    <3> QED
      BY <3>1, <3>2
  <2>2. Taken' /\ TakenOnce'
    BY DEF TakenByLoop, Taken, TakenOnce, Fresh, hubVars, chanVars, reqVars
  <2>3. TakenByLoop' /\ ParkedCanBeWoken'
    BY DEF TakenByLoop, ParkedCanBeWoken, Parked, GoTo
  <2> QED
    BY <2>1, <2>2, <2>3
<1>4. ASSUME TypeInv, Ownership, WaitLookup PROVE Ownership'
  <2> USE <1>4 DEF WaitLookup, Ownership
  <2>1. Registered' /\ LookedUp' /\ Taken' /\ TakenOnce'
    BY DEF Registered, LookedUp, Taken, TakenOnce, Fresh, hubVars, chanVars,
           reqVars
  <2>2. TakenByLoop' /\ ParkedCanBeWoken'
    BY DEF TakenByLoop, ParkedCanBeWoken, Parked, GoTo, hubVars
  <2> QED
    BY <2>1, <2>2
<1>5. ASSUME TypeInv, Ownership,
             \/ Create \/ Prepare \/ PollNone \/ PollNudge \/ PollAbort
             \/ PersistPause \/ WaitReleased \/ WaitCancelled \/ Turn
             \/ Conclude \/ CompleteStore \/ CompletePublish \/ CompleteRetire
      PROVE  Ownership'
  <2>1. UNCHANGED <<paused, chanVars, rpc, rch>>
    BY <1>5 DEF Create, Prepare, PollNone, PollNudge, PollAbort, PersistPause,
            WaitReleased, WaitCancelled, Turn, Conclude, CompleteStore,
            CompletePublish, CompleteRetire, hubVars, reqVars
  <2>2. loop' \notin {"rollback close", "release", "wait"}
    BY <1>5 DEF Create, Prepare, PollNone, PollNudge, PollAbort, PersistPause,
            WaitReleased, WaitCancelled, Turn, Conclude, CompleteStore,
            CompletePublish, CompleteRetire, GoTo, loopVars
  <2> QED
    BY <1>5, <2>1, <2>2, OwnershipOfLoop
<1>6. ASSUME TypeInv, Ownership, Serve \/ Expire \/ Disconnect \/ DeleteSession
                                 \/ Reload \/ Restart \/ UNCHANGED vars
      PROVE  Ownership'
  BY <1>6, OwnershipFrame DEF Serve, Receive, GiveUp, Unsubscribe, Expire,
     Disconnect, DeleteSession, Reload, Restart, vars, hubVars, loopVars, reqVars
<1>7. ASSUME TypeInv, Ownership, Crash PROVE Ownership'
  BY <1>7 DEF Crash, Ownership, Registered, LookedUp, Taken, TakenOnce,
          TakenByLoop, ParkedCanBeWoken, Parked
<1>8. ASSUME TypeInv, Ownership, NEW r \in Requests,
             Arrive(r) \/ Misdirected(r) \/ SendSignal(r) \/ ResumeQueued(r)
      PROVE  Ownership'
  <2>1. UNCHANGED <<paused, chanVars, rch, loop, held>> /\ rpc[r] # "close"
    BY <1>8 DEF Arrive, Misdirected, SendSignal, ResumeQueued, hubVars, loopVars
  <2>2. PICK step \in {"rejected", "lookup", "send", "ok"} : ReqAt(r, step)
    BY <1>8 DEF Arrive, Misdirected, SendSignal, ResumeQueued
  <2> QED
    BY <1>8, <2>1, <2>2, OwnershipOfRequest DEF ReqSteps
<1>9. ASSUME TypeInv, Ownership, NEW r \in Requests, ResumeTransition(r)
      PROVE  Ownership'
  <2>1. UNCHANGED <<paused, chanVars, rch, loop, held>> /\ rpc[r] = "transition"
    BY <1>9 DEF ResumeTransition, hubVars, loopVars
  <2>2. PICK step \in {"release", "error"} : ReqAt(r, step)
    BY <1>9 DEF ResumeTransition
  <2>3. rch[r] \in 1..made
    BY <1>9, <2>1 DEF Ownership, LookedUp
  <2> QED
    BY <1>9, <2>1, <2>2, <2>3, OwnershipOfRequest DEF ReqSteps
<1>10. ASSUME TypeInv, Ownership, NEW r \in Requests, ResumeLookup(r)
       PROVE  Ownership'
  <2> USE <1>10 DEF ResumeLookup, ReqAt, Ownership
  <2>1. Registered' /\ LookedUp'
    BY DEF Registered, LookedUp, Fresh, hubVars, chanVars
  <2>2. Taken' /\ TakenOnce'
    BY DEF Taken, TakenOnce, Fresh, hubVars, chanVars
  <2>3. TakenByLoop' /\ ParkedCanBeWoken'
    BY DEF TakenByLoop, ParkedCanBeWoken, Parked, Fresh, hubVars, chanVars, loopVars
  <2> QED
    BY <2>1, <2>2, <2>3
<1>11. ASSUME TypeInv, Ownership, NEW r \in Requests, SendAbort(r) \/ ResumeRelease(r)
       PROVE  Ownership'
  <2>1. UNCHANGED <<chanVars, loop, held>> /\ rpc[r] # "close"
    BY <1>11 DEF SendAbort, ResumeRelease, loopVars
  <2>2. \A q \in Requests \ {r} : rch'[q] = rch[q]
    BY <1>11 DEF SendAbort, ResumeRelease
  <2>3. CASE paused # NoChan /\ paused' = NoChan /\ ReqAt(r, "close")
    <3>1. rch'[r] = paused
      BY <1>11, <2>3 DEF SendAbort, ResumeRelease, StillRegistered, ReqAt, ReqSteps
    <3> QED
      BY <1>11, <2>1, <2>2, <2>3, <3>1, OwnershipOfTake
  <2>4. CASE ReqAt(r, "ok") /\ UNCHANGED paused
    BY <1>11, <2>1, <2>2, <2>4, OwnershipOfRequest DEF ReqSteps
  <2>5. rpc[r] = "release" => rch[r] # NoChan
    BY <1>11 DEF Ownership, LookedUp
  <2> QED
    BY <1>11, <2>3, <2>4, <2>5 DEF SendAbort, ResumeRelease, AfterTake, StillRegistered
<1>12. ASSUME TypeInv, Ownership, NEW r \in Requests, CloseTaken(r)
       PROVE  Ownership'
  <2> USE <1>12 DEF CloseTaken, Close, ReqAt, Ownership
  <2>1. Registered' /\ LookedUp'
    BY DEF Registered, LookedUp, Taken, Fresh, hubVars
  <2>2. Taken' /\ TakenOnce'
    BY DEF Taken, TakenOnce, Fresh, hubVars
  <2>3. TakenByLoop' /\ ParkedCanBeWoken'
    BY DEF Taken, TakenByLoop, ParkedCanBeWoken, Parked, Fresh, hubVars, loopVars
  <2> QED
    BY <2>1, <2>2, <2>3
<1> QED
  BY <1>1, <1>2, <1>3, <1>4, <1>5, <1>6, <1>7, <1>8, <1>9, <1>10, <1>11, <1>12
  DEF Next, Run, Progress, Environment

\* Who owns which channel, in every reachable state.
THEOREM OwnershipInvariant == Spec => []Ownership
<1>1. Init => Ownership
  BY DEF Init, Ownership, Registered, LookedUp, Taken, TakenOnce, TakenByLoop,
         ParkedCanBeWoken, Parked, NoChan
<1> QED
  BY <1>1, NextOwnership, TypeInvariant, PTL DEF Spec

\* No pause channel is ever closed twice, whoever wakes the loop.
THEOREM NeverClosedTwice == Spec => []NoDoubleClose
<1>1. Ownership => NoDoubleClose
  BY DEF Ownership, Registered, NoDoubleClose
<1> QED
  BY <1>1, OwnershipInvariant, PTL

\* A parked loop can be woken: Abort still finds its channel, or a request
\* that took it is about to close it.
THEOREM ParkedIsWakeable == Spec => []ParkedCanBeWoken
<1>1. Ownership => ParkedCanBeWoken
  BY DEF Ownership
<1> QED
  BY <1>1, OwnershipInvariant, PTL

-----------------------------------------------------------------------------
(* Aborts *)

AbortQueued == \E i \in DOMAIN signals : signals[i] = "abort"

\* A step that takes another signal, appends one or cancels the pauses leaves
\* a queued abort in the queue; only ending the run drops it.
LEMMA AbortPersists ==
    ASSUME TypeOK, AbortQueued, [Next]_vars
    PROVE  AbortQueued' \/ loop' \in Ending
<1> USE DEF TypeOK, HubTypeOK, AbortQueued
<1>1. CASE UNCHANGED signals
  BY <1>1
<1>2. CASE PollAbort \/ CompleteLock \/ Crash
  BY <1>2 DEF PollAbort, CompleteLock, Crash, GoTo, Ending
<1>3. CASE PollNudge \/ PollPause
  <2>1. signals # <<>> /\ signals[1] # "abort" /\ signals' = Tail(signals)
    BY <1>3 DEF PollNudge, PollPause
  <2>2. PICK i \in 2..Len(signals) : signals[i] = "abort"
    BY <2>1
  <2>3. i - 1 \in DOMAIN signals' /\ signals'[i - 1] = "abort"
    BY <2>1, <2>2
  <2> QED
    BY <2>3
<1>4. ASSUME NEW r \in Requests, SendSignal(r) \/ SendAbort(r) PROVE AbortQueued'
  <2>1. PICK s : signals' = Append(signals, s)
    BY <1>4 DEF SendSignal, SendAbort
  <2>2. PICK i \in DOMAIN signals : signals[i] = "abort"
    OBVIOUS
  <2>3. i \in DOMAIN signals' /\ signals'[i] = "abort"
    BY <2>1, <2>2
  <2> QED
    BY <2>3
<1>5. ASSUME NEW r \in Requests, ResumeQueued(r) PROVE AbortQueued'
  <2>1. PICK n \in 0..Len(signals) : \E at \in [1..n -> 1..Len(signals)] :
          /\ {at[i] : i \in 1..n} = {i \in 1..Len(signals) : ~Cancelled(signals[i])}
          /\ signals' = [i \in 1..n |-> signals[at[i]]]
    BY <1>5 DEF ResumeQueued, WithoutPauses
  <2>2. PICK at \in [1..n -> 1..Len(signals)] :
          /\ {at[i] : i \in 1..n} = {i \in 1..Len(signals) : ~Cancelled(signals[i])}
          /\ signals' = [i \in 1..n |-> signals[at[i]]]
    BY <2>1
  <2>3. PICK i \in 1..Len(signals) : signals[i] = "abort"
    OBVIOUS
  <2>4. i \in {at[j] : j \in 1..n}
    BY <2>2, <2>3 DEF Cancelled
  <2>5. PICK j \in 1..n : at[j] = i
    BY <2>4
  <2> QED
    BY <2>2, <2>3, <2>5
<1>6. \/ UNCHANGED signals \/ PollAbort \/ CompleteLock \/ Crash \/ PollNudge \/ PollPause
      \/ \E r \in Requests : SendSignal(r) \/ SendAbort(r) \/ ResumeQueued(r)
  BY DEF Next, Run, Serve, Progress, Environment, Create, Prepare, PollNone,
     PersistPause, Rollback, RollbackClose, WaitLookup, WaitReleased,
     WaitCancelled, Turn, Conclude, CompleteRelease, CompleteStore,
     CompletePublish, CompleteRetire, Receive, GiveUp, Unsubscribe, Expire,
     Disconnect, DeleteSession, Reload, Restart, Arrive, Misdirected,
     ResumeLookup, ResumeTransition, ResumeRelease, CloseTaken, vars, hubVars
<1> QED
  BY <1>1, <1>2, <1>3, <1>4, <1>5, <1>6

\* A run that is ending goes on ending.
LEMMA EndingStays ==
    ASSUME [Next]_vars, loop \in Ending
    PROVE  loop' \in Ending
<1>1. CASE Run
  BY <1>1 DEF Ending, Run, Create, Prepare, PollNone, PollNudge, PollAbort, PollPause,
     PersistPause, Rollback, RollbackClose, WaitLookup, WaitReleased,
     WaitCancelled, Turn, Conclude, CompleteLock, CompleteRelease,
     CompleteStore, CompletePublish, CompleteRetire, GoTo, loopVars
<1>2. CASE Crash
  BY <1>2 DEF Crash, Ending
<1> QED
  BY <1>1, <1>2, LoopFrame DEF Next, loopVars

\* Before the run exists no request gets past the check of its status, and
\* only resumes walk the steps of RunHub.Resume.
Admitted ==
    /\ loop = "ask" => row = "none" /\ \A r \in Requests : rpc[r] \in {"idle", "rejected"}
    /\ \A r \in Requests :
          rpc[r] \in {"lookup", "transition", "release"} => rkind[r] = "resume"

\* Every step keeps requests behind the check of the row's status.
LEMMA NextAdmitted == TypeInv /\ Admitted /\ [Next]_vars => Admitted'
<1> USE DEF TypeInv, TypeOK, ReqTypeOK, Admitted
<1>1. ASSUME TypeInv, Admitted, Run \/ Crash PROVE Admitted'
  <2>1. loop' # "ask"
    BY <1>1 DEF Run, Crash, Create, Prepare, PollNone, PollNudge, PollAbort,
       PollPause, PersistPause, Rollback, RollbackClose, WaitLookup,
       WaitReleased, WaitCancelled, Turn, Conclude, CompleteLock,
       CompleteRelease, CompleteStore, CompletePublish, CompleteRetire, GoTo,
       loopVars
  <2>2. CASE Run
    BY <2>1, <2>2, RequestFrame, <1>1 DEF reqVars, Crash
  <2>3. CASE Crash
    BY <2>1, <2>3 DEF Crash
  <2> QED
    BY <1>1, <2>2, <2>3
<1>2. ASSUME TypeInv, Admitted, Serve \/ Expire \/ Disconnect \/ DeleteSession
                                \/ Reload \/ Restart \/ UNCHANGED vars
      PROVE  Admitted'
  BY <1>2 DEF Serve, Receive, GiveUp, Unsubscribe, Expire, Disconnect,
     DeleteSession, Reload, Restart, vars, rowVars, loopVars, reqVars, Active
<1>3. ASSUME TypeInv, Admitted, NEW r \in Requests, Arrive(r) PROVE Admitted'
  BY <1>3 DEF Arrive, ReqAt, rowVars, loopVars, Active
<1>4. ASSUME TypeInv, Admitted, NEW r \in Requests, Progress(r) PROVE Admitted'
  <2>1. loop # "ask" /\ UNCHANGED <<loop, rkind>>
    BY <1>4 DEF Progress, Misdirected, SendSignal, SendAbort, ResumeQueued,
       ResumeLookup, ResumeTransition, ResumeRelease, CloseTaken, loopVars
  <2>2. PICK step \in ReqSteps :
          /\ rpc' = [rpc EXCEPT ![r] = step]
          /\ step \in {"lookup", "transition", "release"} =>
                rpc[r] \in {"lookup", "transition", "release"}
    BY <1>4 DEF Progress, Misdirected, SendSignal, SendAbort, AfterTake,
       ResumeQueued, ResumeLookup, ResumeTransition, ResumeRelease, CloseTaken,
       ReqAt, ReqSteps
  <2> QED
    BY <1>4, <2>1, <2>2
<1> QED
  BY <1>1, <1>2, <1>3, <1>4 DEF Next, Environment

\* Every step keeps an accepted abort queued until the run is ending.
LEMMA NextAbortIsKept == TypeInv /\ Admitted /\ AbortIsKept /\ [Next]_vars => AbortIsKept'
<1> SUFFICES ASSUME TypeInv, Admitted, AbortIsKept, [Next]_vars, loop' \notin Ending,
                    NEW r \in Requests, Accepted(r, "abort")', OnRunHub(r)'
             PROVE  AbortQueued'
  BY DEF AbortIsKept, AbortQueued
<1> USE DEF TypeInv, TypeOK, ReqTypeOK
<1>1. loop \notin Ending
  BY EndingStays
<1>2. CASE Accepted(r, "abort") /\ OnRunHub(r)
  BY <1>1, <1>2, AbortPersists DEF AbortIsKept, AbortQueued
<1>3. CASE Create
  BY <1>3 DEF Create, Admitted, Accepted, reqVars
<1>4. CASE UNCHANGED <<reqVars, runHub>>
  BY <1>2, <1>4 DEF Accepted, OnRunHub, reqVars
<1>5. ASSUME NEW q \in Requests, Arrive(q) PROVE AbortQueued'
  BY <1>2, <1>5 DEF Arrive, ReqAt, Accepted, OnRunHub, envVars
<1>6. ASSUME NEW q \in Requests, Progress(q) PROVE AbortQueued'
  <2>1. UNCHANGED <<rkind, rhub, runHub>> /\ \A o \in Requests \ {q} : rpc'[o] = rpc[o]
    BY <1>6 DEF Progress, Misdirected, SendSignal, SendAbort, ResumeQueued,
       ResumeLookup, ResumeTransition, ResumeRelease, CloseTaken, ReqAt, envVars
  <2>2. CASE q # r \/ CloseTaken(q)
    BY <1>2, <2>1, <2>2 DEF Accepted, OnRunHub, CloseTaken
  <2>3. CASE SendAbort(q)
    <3>1. signals' = Append(signals, "abort") /\ signals \in Seq(Signals)
      BY <2>3 DEF SendAbort, HubTypeOK
    <3>2. Len(signals) + 1 \in DOMAIN signals' /\ signals'[Len(signals) + 1] = "abort"
      BY <3>1
    <3> QED
      BY <3>2 DEF AbortQueued
  <2>4. q = r => ~ (Misdirected(q) \/ SendSignal(q))
    BY <2>1 DEF Misdirected, SendSignal, Accepted, OnRunHub
  <2>5. q = r => ~ (ResumeQueued(q) \/ ResumeLookup(q) \/ ResumeTransition(q) \/ ResumeRelease(q))
    BY <2>1 DEF ResumeQueued, ResumeLookup, ResumeTransition, ResumeRelease,
       Accepted, Admitted
  <2> QED
    BY <1>6, <2>2, <2>3, <2>4, <2>5 DEF Progress
<1>7. CASE Crash
  BY <1>7 DEF Crash, Ending
<1>8. Create \/ Crash \/ UNCHANGED <<reqVars, runHub>> \/ \E q \in Requests : Arrive(q) \/ Progress(q)
  BY DEF Next, Run, Serve, Environment, vars, Prepare, PollNone, PollNudge,
     PollAbort, PollPause, PersistPause, Rollback, RollbackClose, WaitLookup,
     WaitReleased, WaitCancelled, Turn, Conclude, CompleteLock,
     CompleteRelease, CompleteStore, CompletePublish, CompleteRetire, Receive,
     GiveUp, Unsubscribe, Expire, Disconnect, DeleteSession, Reload, Restart,
     envVars
<1> QED
  BY <1>3, <1>4, <1>5, <1>6, <1>7, <1>8

\* An abort that the hub accepted stays queued until the run is ending.
THEOREM AbortsAreKept == Spec => []AbortIsKept
<1>1. Init => Admitted /\ AbortIsKept
  BY DEF Init, Admitted, AbortIsKept, Accepted
<1> QED
  BY <1>1, NextAdmitted, NextAbortIsKept, TypeInvariant, PTL DEF Spec

-----------------------------------------------------------------------------
(* Pauses *)

Untaken == \A r \in Requests : rpc[r] = "release" => rch[r] # paused

\* A pause channel exists only while the loop is on its way into, in or on
\* its way out of a pause, and the run is marked completed only after that.
PauseWindow ==
    /\ paused # NoChan => loop \in {"persist", "lookup", "wait", "rollback", "complete"}
    /\ loop = "wait" /\ paused # NoChan => paused = held
    /\ completed => loop \in {"release", "store", "publish", "retire", "finished"}

\* While the row says "paused" the loop is waiting, or an abort is queued.
PausedRow ==
    /\ loop \in {"prepare", "turn"} => row # "paused"
    /\ loop = "poll" /\ row = "paused" => AbortQueued
    /\ loop = "persist" /\ (row = "paused" \/ paused = NoChan \/ ~Untaken) => AbortQueued
    /\ loop \in {"lookup", "wait"} /\ row = "paused" /\ (paused = NoChan \/ ~Untaken) =>
          AbortQueued

\* Every step keeps the pause channel within the pause.
LEMMA NextPauseWindow == TypeInv /\ Ownership /\ PauseWindow /\ [Next]_vars => PauseWindow'
<1> USE DEF TypeInv, TypeOK, HubTypeOK, PauseWindow
<1>1. ASSUME TypeInv, Ownership, PauseWindow, UNCHANGED <<loop, held>>,
             paused' \in {paused, NoChan}, completed' => completed
      PROVE  PauseWindow'
  BY <1>1
<1>2. ASSUME TypeInv, Ownership, PauseWindow, Run PROVE PauseWindow'
  <2>1. CASE Create \/ Prepare \/ PollNone \/ PollNudge \/ PollAbort \/ Turn \/ Conclude
    BY <1>2, <2>1 DEF Create, Prepare, PollNone, PollNudge, PollAbort, Turn,
       Conclude, GoTo, hubVars, loopVars
  <2>2. CASE PollPause \/ PersistPause \/ Rollback \/ RollbackClose
    <3> USE <1>2, <2>2 DEF PollPause, PersistPause, Rollback, RollbackClose, GoTo
    <3>1. (paused # NoChan => loop \in {"persist", "lookup", "wait", "rollback", "complete"})'
      BY DEF NoChan, hubVars
    <3>2. loop' # "wait"
      OBVIOUS
    <3>3. (completed => loop \in {"release", "store", "publish", "retire", "finished"})'
      BY DEF hubVars
    <3> QED
      BY <3>1, <3>2, <3>3
  <2>3. CASE WaitLookup \/ WaitCancelled
    BY <1>2, <2>3 DEF WaitLookup, WaitCancelled, GoTo, hubVars
  <2>4. CASE WaitReleased
    BY <1>2, <2>4 DEF WaitReleased, GoTo, hubVars, Ownership, Registered, Fresh
  <2>5. CASE \/ CompleteLock \/ CompleteRelease \/ CompleteStore
             \/ CompletePublish \/ CompleteRetire
    BY <1>2, <2>5 DEF CompleteLock, CompleteRelease, CompleteStore,
       CompletePublish, CompleteRetire, GoTo, hubVars
  <2> QED
    BY <1>2, <2>1, <2>2, <2>3, <2>4, <2>5 DEF Run
<1>3. ASSUME TypeInv, Crash PROVE PauseWindow'
  BY <1>3 DEF Crash
<1>4. ASSUME \/ Serve \/ Environment \/ UNCHANGED vars
             \/ \E r \in Requests : Arrive(r) \/ Progress(r)
      PROVE  Crash \/ (paused' \in {paused, NoChan} /\ (completed' => completed))
  BY <1>4 DEF Serve, Receive, GiveUp, Unsubscribe, Environment, Expire,
     Disconnect, DeleteSession, Reload, Restart, Arrive, Progress, Misdirected,
     SendSignal, SendAbort, ResumeQueued, ResumeLookup, ResumeTransition,
     ResumeRelease, CloseTaken, vars, hubVars
<1> QED
  BY <1>1, <1>2, <1>3, <1>4, LoopFrame DEF Next, loopVars

\* Steps that move neither the row, the loop nor the pause.
LEMMA PausedRowFrame ==
    ASSUME PausedRow, UNCHANGED <<row, loop, paused>>,
           AbortQueued => AbortQueued', Untaken => Untaken'
    PROVE  PausedRow'
BY DEF PausedRow

PauseInv == TypeInv /\ Ownership /\ PauseWindow /\ PausedRow

\* Every step of the run's goroutine keeps PausedRow.
LEMMA RunPausedRow == PauseInv /\ Run => PausedRow'
<1> USE DEF PauseInv
<1>1. ASSUME PauseInv, \/ PollAbort \/ Rollback \/ RollbackClose \/ WaitCancelled
                       \/ Conclude \/ CompleteLock \/ CompleteRelease
                       \/ CompleteStore \/ CompletePublish \/ CompleteRetire
      PROVE  PausedRow'
  <2>1. loop' \notin {"prepare", "turn", "poll", "persist", "lookup", "wait"}
    BY <1>1 DEF PollAbort, Rollback, RollbackClose, WaitCancelled, Conclude,
       CompleteLock, CompleteRelease, CompleteStore, CompletePublish,
       CompleteRetire, GoTo
  <2> QED
    BY <2>1 DEF PausedRow
<1>2. ASSUME PauseInv, Create \/ Prepare \/ Turn PROVE PausedRow'
  BY <1>2 DEF Create, Prepare, Turn, GoTo, rowVars, PausedRow
<1>3. ASSUME PauseInv, PollNone PROVE PausedRow'
  <2>1. ~AbortQueued
    BY <1>3 DEF PollNone, AbortQueued
  <2> QED
    BY <1>3, <2>1 DEF PollNone, GoTo, rowVars, PausedRow
<1>4. ASSUME PauseInv, PollNudge \/ PollPause PROVE PausedRow'
  <2>1. AbortQueued => AbortQueued'
    <3>1. [Next]_vars /\ loop' \notin Ending
      BY <1>4 DEF Next, Run, PollNudge, PollPause, loopVars, GoTo, Ending
    <3> QED
      BY <1>4, <3>1, AbortPersists DEF TypeInv
  <2>2. CASE PollNudge
    BY <2>1, <2>2, <1>4 DEF PollNudge, rowVars, loopVars, PausedRow
  <2>3. CASE PollPause
    <3>1. paused' = made + 1 /\ made \in Nat
      BY <1>4, <2>3 DEF PollPause, PauseWindow, TypeInv, TypeOK, ChanTypeOK
    <3>2. paused' # NoChan /\ Untaken'
      BY <1>4, <2>3, <3>1 DEF PollPause, Untaken, NoChan, Ownership, LookedUp, reqVars
    <3> QED
      BY <1>4, <2>1, <2>3, <3>2 DEF PollPause, GoTo, rowVars, PausedRow
  <2> QED
    BY <1>4, <2>2, <2>3
<1>5. ASSUME PauseInv, PersistPause PROVE PausedRow'
  <2>1. /\ (AbortQueued' <=> AbortQueued) /\ (Untaken' <=> Untaken)
        /\ UNCHANGED paused /\ loop' \in {"lookup", "rollback"}
    BY <1>5 DEF PersistPause, GoTo, AbortQueued, Untaken, hubVars, reqVars
  <2> QED
    BY <1>5, <2>1 DEF PersistPause, PausedRow
<1>6. ASSUME PauseInv, WaitLookup \/ WaitReleased PROVE PausedRow'
  <2>1. /\ (AbortQueued' <=> AbortQueued) /\ (Untaken' <=> Untaken)
        /\ UNCHANGED <<row, paused>>
    BY <1>6 DEF WaitLookup, WaitReleased, AbortQueued, Untaken, rowVars,
       hubVars, reqVars
  <2>2. CASE WaitLookup
    BY <1>6, <2>1, <2>2 DEF WaitLookup, GoTo, PausedRow
  <2>3. CASE WaitReleased
    <3>1. paused = NoChan
      BY <1>6, <2>3 DEF WaitReleased, PauseWindow, Ownership, Registered, Fresh
    <3> QED
      BY <1>6, <2>1, <2>3, <3>1 DEF WaitReleased, GoTo, PausedRow
  <2> QED
    BY <1>6, <2>2, <2>3
<1> QED
  BY <1>1, <1>2, <1>3, <1>4, <1>5, <1>6 DEF Run

\* Every step keeps PausedRow.
LEMMA NextPausedRow == PauseInv /\ [Next]_vars => PausedRow'
<1> USE DEF PauseInv
<1>1. ASSUME PauseInv, [Next]_vars, UNCHANGED loop
      PROVE  AbortQueued => AbortQueued' \/ loop \in Ending
  BY <1>1, AbortPersists DEF TypeInv
<1>2. ASSUME PauseInv, loop \in Ending, UNCHANGED loop PROVE PausedRow'
  BY <1>2 DEF PausedRow, Ending
<1>3. ASSUME PauseInv, Serve \/ Expire \/ Disconnect \/ Reload \/ UNCHANGED vars PROVE PausedRow'
  <2>1. UNCHANGED <<row, loop, paused, signals, rpc, rch>>
    BY <1>3 DEF Serve, Receive, GiveUp, Unsubscribe, Expire, Disconnect,
       Reload, vars, rowVars, hubVars, loopVars, reqVars
  <2> QED
    BY <1>3, <2>1, PausedRowFrame DEF AbortQueued, Untaken
<1>4. ASSUME PauseInv, DeleteSession \/ Restart PROVE PausedRow'
  <2>1. UNCHANGED <<loop, paused, signals, rpc, rch>> /\ (row' = "paused" => row = "paused")
    BY <1>4 DEF DeleteSession, Restart, hubVars, loopVars, reqVars, Active
  <2>2. (AbortQueued' <=> AbortQueued) /\ (Untaken' <=> Untaken)
    BY <2>1 DEF AbortQueued, Untaken
  <2> QED
    BY <1>4, <2>1, <2>2 DEF PausedRow
<1>5. ASSUME PauseInv, Crash PROVE PausedRow'
  BY <1>5 DEF Crash, PausedRow
<1>6. ASSUME PauseInv, NEW r \in Requests, Arrive(r) \/ Progress(r), ~ResumeTransition(r),
             ~ResumeRelease(r), ~SendAbort(r)
      PROVE  PausedRow'
  <2> USE DEF TypeInv, TypeOK, ReqTypeOK
  <2>1. UNCHANGED <<row, loop, paused>> /\ [Next]_vars
    BY <1>6 DEF Next, Arrive, Progress, Misdirected, SendSignal, ResumeQueued,
       ResumeLookup, CloseTaken, rowVars, hubVars, loopVars
  <2>2. Untaken => Untaken'
    <3>1. rpc'[r] # "release" /\ \A q \in Requests \ {r} : rpc'[q] = rpc[q] /\ rch'[q] = rch[q]
      BY <1>6 DEF Arrive, Progress, Misdirected, SendSignal, ResumeQueued,
         ResumeLookup, CloseTaken, ReqAt
    <3> QED
      BY <2>1, <3>1 DEF Untaken
  <2> QED
    BY <1>1, <1>2, <1>6, <2>1, <2>2, PausedRowFrame
<1>7. ASSUME PauseInv, NEW r \in Requests, SendAbort(r) PROVE PausedRow'
  <2>1. AbortQueued'
    BY <1>7 DEF SendAbort, AbortQueued, TypeInv, TypeOK, HubTypeOK
  <2> QED
    BY <1>7, <2>1 DEF SendAbort, PausedRow, rowVars, loopVars
<1>8. ASSUME PauseInv, NEW r \in Requests, ResumeTransition(r) PROVE PausedRow'
  <2>1. UNCHANGED <<loop, paused>> /\ (AbortQueued' <=> AbortQueued)
    BY <1>8 DEF ResumeTransition, AbortQueued, hubVars, loopVars
  <2>2. CASE row = "paused" /\ row' = "running"
    BY <1>8, <2>1, <2>2 DEF PausedRow
  <2>3. CASE UNCHANGED row /\ ReqAt(r, "error")
    <3>1. Untaken => Untaken'
      BY <1>8, <2>1, <2>3 DEF ResumeTransition, ReqAt, Untaken, TypeInv, TypeOK, ReqTypeOK
    <3> QED
      BY <1>8, <2>1, <2>3, <3>1, PausedRowFrame
  <2> QED
    BY <1>8, <2>2, <2>3 DEF ResumeTransition, Transition
<1>9. ASSUME PauseInv, NEW r \in Requests, ResumeRelease(r) PROVE PausedRow'
  <2>1. UNCHANGED <<row, loop>> /\ (AbortQueued' <=> AbortQueued)
    BY <1>9 DEF ResumeRelease, AbortQueued, rowVars, loopVars
  <2>2. CASE StillRegistered(r)
    <3>1. ~Untaken
      BY <1>9, <2>2 DEF ResumeRelease, StillRegistered, Untaken
    <3> QED
      BY <1>9, <2>1, <3>1 DEF PausedRow
  <2>3. CASE ~StillRegistered(r)
    <3>1. UNCHANGED paused /\ (Untaken => Untaken')
      BY <1>9, <2>3 DEF ResumeRelease, ReqAt, Untaken, TypeInv, TypeOK, ReqTypeOK
    <3> QED
      BY <1>9, <2>1, <3>1, PausedRowFrame
  <2> QED
    BY <2>2, <2>3
<1> QED
  BY <1>3, <1>4, <1>5, <1>6, <1>7, <1>8, <1>9, RunPausedRow DEF Next, Environment

\* The model is never called while the row says that the run is paused.
THEOREM NeverTurnsWhilePaused == Spec => []NoTurnWhilePaused
<1>1. Init => PauseWindow /\ PausedRow
  BY DEF Init, PauseWindow, PausedRow, NoChan
<1>2. PausedRow => NoTurnWhilePaused
  BY DEF PausedRow, NoTurnWhilePaused
<1> QED
  BY <1>1, <1>2, NextPauseWindow, NextPausedRow, TypeInvariant, OwnershipInvariant,
     PTL DEF Spec, PauseInv

-----------------------------------------------------------------------------

(* The row, and what the client is told of it *)

\* The steps that move the row or speak to the client.
LEMMA RowFrame ==
    ASSUME [Next]_vars
    PROVE  \/ UNCHANGED <<row, told, inbox, serve, saved>>
           \/ Create \/ Prepare \/ PersistPause \/ CompleteStore \/ CompletePublish
           \/ Receive \/ GiveUp \/ Unsubscribe \/ DeleteSession \/ Crash \/ Restart
           \/ \E r \in Requests : ResumeTransition(r)
<1>1. ASSUME UNCHANGED <<rowVars, clientVars>>
      PROVE  UNCHANGED <<row, told, inbox, serve, saved>>
  BY <1>1 DEF rowVars, clientVars
<1>2. CASE PollNone \/ PollNudge \/ PollAbort \/ PollPause \/ Rollback \/ RollbackClose
  BY <1>1, <1>2 DEF PollNone, PollNudge, PollAbort, PollPause, Rollback, RollbackClose
<1>3. CASE WaitLookup \/ WaitReleased \/ WaitCancelled \/ Turn \/ Conclude
  BY <1>1, <1>3 DEF WaitLookup, WaitReleased, WaitCancelled, Turn, Conclude
<1>4. CASE CompleteLock \/ CompleteRelease \/ CompleteRetire
  BY <1>1, <1>4 DEF CompleteLock, CompleteRelease, CompleteRetire
<1>5. CASE Expire \/ Disconnect \/ Reload \/ UNCHANGED vars
  BY <1>5 DEF Expire, Disconnect, Reload, vars, rowVars, clientVars
<1>6. ASSUME NEW r \in Requests,
             \/ Arrive(r) \/ Misdirected(r) \/ SendSignal(r) \/ SendAbort(r)
             \/ ResumeQueued(r) \/ ResumeLookup(r) \/ ResumeRelease(r) \/ CloseTaken(r)
      PROVE  UNCHANGED <<row, told, inbox, serve, saved>>
  <2>1. UNCHANGED <<rowVars, clientVars>>
    BY <1>6 DEF Arrive, Misdirected, SendSignal, SendAbort, ResumeQueued, ResumeLookup,
       ResumeRelease, CloseTaken
  <2> QED
    BY <1>1, <2>1
<1>7. CASE Run
  BY <1>2, <1>3, <1>4, <1>7 DEF Run
<1>8. CASE Serve
  BY <1>8 DEF Serve
<1>9. CASE Environment
  BY <1>5, <1>9 DEF Environment
<1>10. ASSUME NEW r \in Requests, Arrive(r) \/ Progress(r)
       PROVE  UNCHANGED <<row, told, inbox, serve, saved>> \/ ResumeTransition(r)
  BY <1>6, <1>10 DEF Progress
<1> QED
  BY <1>5, <1>7, <1>8, <1>9, <1>10 DEF Next

\* A terminal status is only ever removed, and a removed row stays removed.
LEMMA RowMoves ==
    ASSUME Admitted, [Next]_vars
    PROVE  /\ row \in Ended => row' \in {row, "deleted"}
           /\ row = "deleted" => row' = "deleted"
<1> USE DEF Ended, Active
<1>1. CASE UNCHANGED row
  BY <1>1
<1>2. CASE Create
  BY <1>2 DEF Create, Admitted
<1>3. CASE PersistPause \/ CompleteStore
  BY <1>3 DEF PersistPause, CompleteStore, Transition
<1>4. CASE DeleteSession \/ Restart
  BY <1>4 DEF DeleteSession, Restart
<1>5. ASSUME NEW r \in Requests, ResumeTransition(r)
      PROVE  (row \in Ended => row' = row) /\ (row = "deleted" => row' = "deleted")
  BY <1>5 DEF ResumeTransition, Transition
<1> QED
  BY <1>1, <1>2, <1>3, <1>4, <1>5, RowFrame DEF Prepare, CompletePublish,
     Receive, GiveUp, Unsubscribe, Crash, rowVars

\* A run ends once: pause, resume, completion and recovery leave a terminal
\* status alone.
THEOREM EndedIsFinal == Spec => EndedStays
<1>1. Init => Admitted
  BY DEF Init, Admitted
<1>2. Admitted /\ [Next]_vars => [(row \in Ended) => (row' \in {row, "deleted"})]_vars
  BY RowMoves
<1> QED
  BY <1>1, <1>2, NextAdmitted, TypeInvariant, PTL DEF Spec, EndedStays

\* What is stored, published and received agrees.
Publication ==
    /\ loop \in {"rollback close", "complete", "release", "store", "publish"} => outcome \in Ended
    /\ loop = "publish" /\ outcome # "failed" => row \in {outcome, "deleted"}
    /\ inbox \in {"done", "aborted"} => row \in {inbox, "deleted"}
    /\ loop \in {"ask", "prepare"} => serve = "asking"
    /\ serve \in {"asking", "streaming"} => told = "none"
    /\ ClientKnowsTheRow

\* The run's goroutine has an outcome before it completes the run.
LEMMA NextOutcome ==
    TypeInv /\ Publication /\ [Next]_vars =>
        (loop' \in {"rollback close", "complete", "release", "store", "publish"} => outcome' \in Ended)
<1> SUFFICES ASSUME TypeInv, Publication, [Next]_vars,
                    loop' \in {"rollback close", "complete", "release", "store", "publish"}
             PROVE  outcome' \in Ended
  OBVIOUS
<1>1. CASE UNCHANGED loopVars
  BY <1>1 DEF Publication, loopVars
<1>2. CASE Crash
  BY <1>2 DEF Crash
<1>3. CASE Create \/ PollNone \/ PollNudge \/ PollPause \/ PersistPause \/ WaitLookup
           \/ WaitReleased \/ CompletePublish \/ CompleteRetire
  BY <1>1, <1>3 DEF Create, PollNone, PollNudge, PollPause, PersistPause,
     WaitLookup, WaitReleased, CompletePublish, CompleteRetire, GoTo
<1>4. CASE Prepare \/ PollAbort \/ Rollback \/ WaitCancelled \/ Turn \/ Conclude
  BY <1>4 DEF Prepare, PollAbort, Rollback, WaitCancelled, Turn, Conclude, GoTo, Ended
<1>5. CASE RollbackClose \/ CompleteLock \/ CompleteRelease
  BY <1>5 DEF RollbackClose, CompleteLock, CompleteRelease, GoTo, Publication
<1>6. CASE CompleteStore
  BY <1>6 DEF CompleteStore, Reported, Publication, Ended
<1> QED
  BY <1>1, <1>2, <1>3, <1>4, <1>5, <1>6, LoopFrame DEF Next, Run

\* Every step keeps what is published true.
LEMMA NextPublication == TypeInv /\ Admitted /\ Publication /\ [Next]_vars => Publication'
<1> SUFFICES ASSUME TypeInv, Admitted, Publication, [Next]_vars
             PROVE  Publication'
  OBVIOUS
<1>1. loop' \in {"rollback close", "complete", "release", "store", "publish"} => outcome' \in Ended
  BY NextOutcome
<1>2. loop' = "publish" /\ outcome' # "failed" => row' \in {outcome', "deleted"}
  <2>1. CASE UNCHANGED <<loop, outcome>>
    BY <2>1, RowMoves DEF Publication
  <2>2. CASE CompleteStore
    BY <2>2 DEF CompleteStore, Transition, Reported
  <2>3. loop' = "publish" => CompleteStore \/ UNCHANGED <<loop, outcome>>
    BY LoopFrame DEF Next, Run, Create, Prepare, PollNone, PollNudge, PollAbort,
       PollPause, PersistPause, Rollback, RollbackClose, WaitLookup,
       WaitReleased, WaitCancelled, Turn, Conclude, CompleteLock,
       CompleteRelease, CompletePublish, CompleteRetire, Crash, GoTo, loopVars
  <2> QED
    BY <2>1, <2>2, <2>3
<1>3. inbox' \in {"done", "aborted"} => row' \in {inbox', "deleted"}
  <2>1. CASE UNCHANGED inbox
    BY <2>1, RowMoves DEF Publication, Ended
  <2>2. CASE CompletePublish
    BY <2>2 DEF CompletePublish, Publication, rowVars
  <2>3. inbox' = "none" \/ CompletePublish \/ UNCHANGED inbox
    BY RowFrame DEF Create, Prepare, PersistPause, CompleteStore, Receive, GiveUp,
       Unsubscribe, DeleteSession, Crash, Restart, ResumeTransition, clientVars
  <2> QED
    BY <2>1, <2>2, <2>3
<1>4. loop' \in {"ask", "prepare"} => serve' = "asking"
  <2>1. CASE UNCHANGED <<loop, serve>>
    BY <2>1 DEF Publication
  <2>2. CASE Create \/ Crash
    BY <2>2 DEF Create, Crash, Publication, clientVars
  <2>3. CASE Serve
    BY <2>3 DEF Serve, Receive, GiveUp, Unsubscribe, Publication, loopVars
  <2>4. loop' \in {"ask", "prepare"} => Create \/ Crash \/ Serve \/ UNCHANGED <<loop, serve>>
    BY DEF Next, Run, Environment, Progress, Prepare, PollNone, PollNudge, PollAbort,
       PollPause, PersistPause, Rollback, RollbackClose, WaitLookup,
       WaitReleased, WaitCancelled, Turn, Conclude, CompleteLock,
       CompleteRelease, CompleteStore, CompletePublish, CompleteRetire, Expire,
       Disconnect, DeleteSession, Reload, Restart, Arrive, Misdirected,
       SendSignal, SendAbort, ResumeQueued, ResumeLookup, ResumeTransition,
       ResumeRelease, CloseTaken, GoTo, vars, loopVars, clientVars
  <2> QED
    BY <2>1, <2>2, <2>3, <2>4
<1>5. CASE UNCHANGED <<told, saved>> /\ (serve' \in {"asking", "streaming"} =>
                                           serve \in {"asking", "streaming"})
  <2>1. serve' \in {"asking", "streaming"} => told' = "none"
    BY <1>5 DEF Publication
  <2>2. ClientKnowsTheRow'
    BY <1>5, RowMoves DEF Publication, ClientKnowsTheRow, Ended
  <2> QED
    BY <1>1, <1>2, <1>3, <1>4, <2>1, <2>2 DEF Publication
<1>6. CASE Receive
  <2>1. serve' = "leaving" /\ told' = inbox /\ UNCHANGED row /\ (saved' => inbox = "done")
    BY <1>6 DEF Receive, rowVars
  <2>2. ClientKnowsTheRow'
    BY <2>1 DEF Publication, ClientKnowsTheRow
  <2> QED
    BY <1>1, <1>2, <1>3, <1>4, <2>1, <2>2 DEF Publication
<1>7. \/ Receive
      \/ /\ UNCHANGED <<told, saved>>
         /\ serve' \in {"asking", "streaming"} => serve \in {"asking", "streaming"}
  BY RowFrame DEF Create, Prepare, PersistPause, CompleteStore,
     CompletePublish, GiveUp, Unsubscribe, DeleteSession, Crash, Restart,
     ResumeTransition, clientVars, Publication
<1> QED
  BY <1>5, <1>6, <1>7

\* Publication, in every reachable state.
THEOREM PublicationInvariant == Spec => [](Admitted /\ Publication)
<1>1. Init => Admitted /\ Publication
  BY DEF Init, Admitted, Publication, ClientKnowsTheRow
<1> QED
  BY <1>1, NextAdmitted, NextPublication, TypeInvariant, PTL DEF Spec

\* What the client was told, and what was saved for it, is what the row says,
\* unless it was told "failed" or the session has been deleted since.
THEOREM ClientIsNotMisled == Spec => []ClientKnowsTheRow
<1>1. Publication => ClientKnowsTheRow
  BY DEF Publication
<1> QED
  BY <1>1, PublicationInvariant, PTL

-----------------------------------------------------------------------------
(* Refinement *)

\* Every step of the service is a step of RunStatus, or none.
LEMMA StatusStep ==
    TypeInv /\ Admitted /\ Publication /\ [Next]_vars => [Status!Next]_(Status!statusVars)
<1> SUFFICES ASSUME TypeInv, Admitted, Publication, [Next]_vars
             PROVE  Status!Next \/ UNCHANGED <<row, told>>
  BY DEF Status!statusVars
<1> USE DEF Status!Next, Active, Ended, Status!Active, Status!Ended
<1>1. CASE Create
  BY <1>1 DEF Create, Admitted, Status!Start, clientVars
<1>2. CASE PersistPause
  BY <1>2 DEF PersistPause, Transition, Status!Pause, clientVars
<1>3. CASE CompleteStore
  <2>1. outcome \in Ended
    BY <1>3 DEF CompleteStore, Publication
  <2> QED
    BY <1>3, <2>1 DEF CompleteStore, Transition, Status!End, clientVars
<1>4. CASE DeleteSession
  BY <1>4 DEF DeleteSession, Status!Remove, clientVars
<1>5. CASE Restart
  BY <1>5 DEF Restart, Status!End, clientVars
<1>6. ASSUME NEW r \in Requests, ResumeTransition(r)
      PROVE  Status!Next \/ UNCHANGED <<row, told>>
  BY <1>6 DEF ResumeTransition, Transition, Status!Resume, clientVars
<1>7. CASE Receive
  <2>1. told = "none" /\ inbox \in Ended /\ told' = inbox /\ UNCHANGED row
    BY <1>7 DEF Receive, Publication, TypeInv, TypeOK, ClientTypeOK, rowVars
  <2>2. inbox # "failed" => row \in {inbox, "deleted"}
    BY <2>1 DEF Publication
  <2> QED
    BY <2>1, <2>2 DEF Status!Tell
<1>8. CASE Prepare \/ CompletePublish \/ GiveUp \/ Unsubscribe \/ Crash
  BY <1>8 DEF Prepare, CompletePublish, GiveUp, Unsubscribe, Crash, rowVars
<1> QED
  BY <1>1, <1>2, <1>3, <1>4, <1>5, <1>6, <1>7, <1>8, RowFrame

\* The service implements RunStatus.
THEOREM Implements == Spec => ImplementsRunStatus
<1>1. Init => Status!Init
  BY DEF Init, Status!Init
<1> QED
  BY <1>1, StatusStep, PublicationInvariant, TypeInvariant, PTL
  DEF Spec, ImplementsRunStatus, Status!Spec

\* Every step of the service is a step of the abstract loop, or none.
LEMMA TurnsStep ==
    TypeInv /\ [Next]_vars => [Turns!Next]_(Turns!loopVars)
<1> SUFFICES ASSUME TypeInv, [Next]_vars
             PROVE  Turns!Next \/ UNCHANGED <<LoopPhase, turns, outcome>>
  BY DEF Turns!loopVars
<1>1. CASE Create \/ PollNudge \/ PollPause \/ PersistPause \/ WaitLookup \/ WaitReleased
  BY <1>1 DEF Create, PollNudge, PollPause, PersistPause, WaitLookup, WaitReleased, GoTo,
     LoopPhase, loopVars
<1>2. CASE Prepare
  <2>1. LoopPhase = "start" /\ UNCHANGED turns /\ turns < TurnLimit
    BY <1>2 DEF Prepare, LoopPhase, TypeInv, TurnsLeft, Looping
  <2>2. CASE loop' = "poll" /\ UNCHANGED outcome
    <3>1. LoopPhase' = "poll"
      BY <2>2 DEF LoopPhase
    <3> QED
      BY <2>1, <2>2, <3>1 DEF Turns!Next, Turns!Begin
  <2>3. CASE loop' = "complete" /\ outcome' = "failed"
    <3>1. LoopPhase' = "over"
      BY <2>3 DEF LoopPhase
    <3> QED
      BY <2>1, <2>3, <3>1 DEF Turns!Next, Turns!Reject
  <2> QED
    BY <1>2, <2>2, <2>3 DEF Prepare, GoTo
<1>3. CASE PollNone
  <2>1. LoopPhase = "poll" /\ LoopPhase' = "turn" /\ UNCHANGED <<turns, outcome>>
    BY <1>3 DEF PollNone, GoTo, LoopPhase
  <2> QED
    BY <2>1 DEF Turns!Next, Turns!Call
<1>4. CASE PollAbort \/ Rollback \/ WaitCancelled
  <2>1. loop \in {"poll", "rollback", "wait"} /\ loop' \in {"complete", "rollback close"}
    BY <1>4 DEF PollAbort, Rollback, WaitCancelled, GoTo
  <2>2. outcome' = "aborted" /\ UNCHANGED turns
    BY <1>4 DEF PollAbort, Rollback, WaitCancelled
  <2>3. LoopPhase = "poll" /\ LoopPhase' = "over"
    BY <2>1 DEF LoopPhase
  <2> QED
    BY <2>2, <2>3 DEF Turns!Next, Turns!Abort
<1>5. CASE Turn
  <2>1. LoopPhase = "turn" /\ turns' = turns + 1 /\ turns \in Nat
    BY <1>5, RunAssumption DEF Turn, LoopPhase, TypeInv, TypeOK, LoopTypeOK
  <2>2. CASE MoreTurns /\ loop' = "poll" /\ UNCHANGED outcome
    <3>1. LoopPhase' = "poll" /\ turns' < TurnLimit
      BY <2>1, <2>2 DEF LoopPhase, MoreTurns
    <3> QED
      BY <2>1, <2>2, <3>1 DEF Turns!Next, Turns!Turn
  <2>3. CASE loop' = "conclude" /\ UNCHANGED outcome
    <3>1. LoopPhase' = "conclude"
      BY <2>3 DEF LoopPhase
    <3> QED
      BY <2>1, <2>3, <3>1 DEF Turns!Next, Turns!Turn
  <2>4. CASE loop' = "complete" /\ outcome' \in {"done", "failed"}
    <3>1. LoopPhase' = "over"
      BY <2>4 DEF LoopPhase
    <3> QED
      BY <2>1, <2>4, <3>1 DEF Turns!Next, Turns!Turn
  <2> QED
    BY <1>5, <2>2, <2>3, <2>4 DEF Turn, GoTo
<1>6. CASE Conclude
  <2>1. LoopPhase = "conclude" /\ LoopPhase' = "over" /\ UNCHANGED turns
    BY <1>6 DEF Conclude, GoTo, LoopPhase
  <2> QED
    BY <1>6, <2>1 DEF Conclude, Turns!Next, Turns!Conclude
<1>7. CASE RollbackClose \/ CompleteLock \/ CompleteRelease \/ CompletePublish \/ CompleteRetire
  BY <1>7 DEF RollbackClose, CompleteLock, CompleteRelease, CompletePublish, CompleteRetire,
     GoTo, LoopPhase
<1>8. CASE CompleteStore
  <2>1. LoopPhase = "over" /\ LoopPhase' = "over" /\ UNCHANGED turns
    BY <1>8 DEF CompleteStore, GoTo, LoopPhase
  <2>2. outcome' = outcome \/ outcome' = "failed"
    BY <1>8 DEF CompleteStore, Reported
  <2> QED
    BY <2>1, <2>2 DEF Turns!Next, Turns!Lose
<1>9. CASE Crash
  <2>1. LoopPhase' = "over" /\ UNCHANGED <<turns, outcome>>
    BY <1>9 DEF Crash, LoopPhase
  <2> QED
    BY <2>1 DEF Turns!Next, Turns!Die
<1>10. CASE UNCHANGED loopVars
  BY <1>10 DEF LoopPhase, loopVars
<1>11. Run \/ Crash \/ UNCHANGED loopVars
  BY LoopFrame DEF Next
<1> QED
  BY <1>1, <1>2, <1>3, <1>4, <1>5, <1>6, <1>7, <1>8, <1>9, <1>10, <1>11
  DEF Run

\* However control requests, deadlines, SQL errors and crashes fall, the loop is
\* aborted between two turns only, takes at most TurnLimit of them, concludes
\* at most once and returns one outcome, which at worst is reported as a failure.
THEOREM LoopImplemented == Spec => ImplementsAgentLoop
<1>1. Init => Turns!Init
  BY DEF Init, Turns!Init, LoopPhase
<1> QED
  BY <1>1, TurnsStep, TypeInvariant, PTL DEF Spec, ImplementsAgentLoop, Turns!Spec

-----------------------------------------------------------------------------
(* What the hub keeps of a finished run *)

Retirement == loop = "finished" /\ completed => Subscribed

\* Every step keeps the completion mark only for a handler that will remove it.
LEMMA NextRetirement == PauseWindow /\ Retirement /\ [Next]_vars => Retirement'
<1> SUFFICES ASSUME PauseWindow, Retirement, [Next]_vars, loop' = "finished", completed'
             PROVE  Subscribed'
  BY DEF Retirement
<1>1. CASE CompleteRetire
  BY <1>1 DEF CompleteRetire, Subscribed, clientVars, envVars
<1>2. CASE CompleteLock
  BY <1>2 DEF CompleteLock, PauseWindow, GoTo
<1>3. CASE Serve
  BY <1>3 DEF Serve, Receive, GiveUp, Unsubscribe, Retirement, Subscribed,
     hubVars, loopVars, envVars
<1>4. CASE UNCHANGED <<loop, completed, serve, runHub>>
  BY <1>4 DEF Retirement, Subscribed
<1>5. CompleteRetire \/ CompleteLock \/ Serve \/ UNCHANGED <<loop, completed, serve, runHub>>
  <2>1. loop' = "finished" => ~Crash
    BY DEF Crash
  <2>2. CASE Run
    <3>1. ASSUME Create \/ Prepare \/ PollNone \/ PollNudge \/ PollAbort \/ PollPause
          PROVE  FALSE
      BY <3>1 DEF Create, Prepare, PollNone, PollNudge, PollAbort, PollPause, GoTo, loopVars
    <3>2. ASSUME PersistPause \/ Rollback \/ RollbackClose \/ WaitLookup \/ WaitReleased
          PROVE  FALSE
      BY <3>2 DEF PersistPause, Rollback, RollbackClose, WaitLookup, WaitReleased, GoTo
    <3>3. ASSUME WaitCancelled \/ Turn \/ Conclude \/ CompleteRelease \/ CompleteStore
                 \/ CompletePublish
          PROVE  FALSE
      BY <3>3 DEF WaitCancelled, Turn, Conclude, CompleteRelease, CompleteStore,
         CompletePublish, GoTo
    <3> QED
      BY <2>2, <3>1, <3>2, <3>3 DEF Run
  <2>3. CASE Environment
    BY <2>1, <2>3 DEF Environment, Expire, Disconnect, DeleteSession, Reload, Restart,
       hubVars, loopVars, clientVars, envVars
  <2>4. ASSUME NEW r \in Requests, Arrive(r) \/ Progress(r)
        PROVE  UNCHANGED <<loop, completed, serve, runHub>>
    <3>1. UNCHANGED <<loopVars, clientVars, envVars, completed>>
      BY <2>4 DEF Progress, Arrive, Misdirected, SendSignal, SendAbort, ResumeQueued,
         ResumeLookup, ResumeTransition, ResumeRelease, CloseTaken, hubVars
    <3> QED
      BY <3>1 DEF loopVars, clientVars, envVars
  <2>5. CASE UNCHANGED vars
    BY <2>5 DEF vars, hubVars, loopVars, clientVars, envVars
  <2> QED
    BY <2>2, <2>3, <2>4, <2>5 DEF Next
<1> QED
  BY <1>1, <1>2, <1>3, <1>4, <1>5

\* Nothing of a finished run stays in the hub once its handler has left.
THEOREM HubForgets == Spec => []HubForgetsTheRun
<1>1. Init => PauseWindow /\ Retirement
  BY DEF Init, PauseWindow, Retirement, NoChan
<1>2. PauseWindow /\ Retirement => HubForgetsTheRun
  BY DEF PauseWindow, Retirement, HubForgetsTheRun, Subscribed
<1> QED
  BY <1>1, <1>2, NextPauseWindow, NextRetirement, TypeInvariant,
     OwnershipInvariant, PTL DEF Spec
=============================================================================
