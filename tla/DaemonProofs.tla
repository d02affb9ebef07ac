---------------------------- MODULE DaemonProofs ----------------------------
(***************************************************************************)
(* Proofs about the collection loop of module Daemon, for every number of  *)
(* collectors, every assignment of their abilities and every bound.        *)
(***************************************************************************)
EXTENDS Daemon, TLAPS

(* The inductive invariant.  None of the safety invariants is inductive by *)
(* itself: what a publication or a failure books depends on the locals the *)
(* loop gathered, which LoopAccounting describes.                          *)
IInv ==
    /\ TypeOK
    /\ LoopAccounting
    /\ StreakMeasuresCost
    /\ CostIsLastMetricsWindow
    /\ ReasonExplainsStreak
    /\ NoTruncatedWindow
    /\ PartialAccounted

-----------------------------------------------------------------------------
(* The initial state, before Run has called Refresh, satisfies the         *)
(* invariant.                                                              *)
LEMMA InitIInv == Init => IInv
<1> SUFFICES ASSUME Init PROVE IInv
  OBVIOUS
<1>1. TypeOK
  <2>1. NoState \in State /\ NoReason \in Reason
    BY DEF NoState, State, Verdict, NoReason, Reason, Cause
  <2>2. Flags
    BY DEF Init, Flags
  <2> QED
    BY <2>1, <2>2, NAssumption DEF Init, TypeOK, Locations
<1>2. LoopAccounting
  BY NAssumption DEF Init, LoopAccounting, NoState
<1>3. StreakMeasuresCost /\ PartialAccounted /\ NoTruncatedWindow
  BY DEF Init, StreakMeasuresCost, PartialAccounted, NoTruncatedWindow, NoState
<1>4. CostIsLastMetricsWindow /\ ReasonExplainsStreak
  BY DEF Init, CostIsLastMetricsWindow, ReasonExplainsStreak, NoState, NoReason
<1> QED
  BY <1>1, <1>2, <1>3, <1>4 DEF IInv

(* A step that leaves the published data alone, lets no error count shrink *)
(* and no clock run back, keeps what the invariant says of that data.      *)
LEMMA PublishedIInv ==
  ASSUME IInv, UNCHANGED <<state, costState, consecFails, lastReason>>,
         clock' \in Nat, clock <= clock', errs' \in Nat, errs <= errs'
  PROVE  /\ StreakMeasuresCost'
         /\ CostIsLastMetricsWindow'
         /\ ReasonExplainsStreak'
         /\ NoTruncatedWindow'
         /\ PartialAccounted'
  BY NAssumption
  DEF IInv, TypeOK, StreakMeasuresCost, CostIsLastMetricsWindow,
      ReasonExplainsStreak, NoTruncatedWindow, PartialAccounted, State, Reason

(* Starting a Refresh resets its locals: Run_Start and Run_Tick share it.  *)
LEMMA BeginIInv ==
  ASSUME IInv, BeginRefresh, UNCHANGED <<mu, clock, cancelled, cycles>>,
         ticker' \in {"off", "empty", "full"}
  PROVE  IInv'
<1>1. Flags'
  BY DEF IInv, TypeOK, Flags, BeginRefresh
<1>2. TypeOK'
  BY <1>1, NAssumption
  DEF IInv, TypeOK, BeginRefresh, NextPc, Locations, mu
<1>3. LoopAccounting'
  BY NAssumption
  DEF IInv, TypeOK, LoopAccounting, CostIsLastMetricsWindow, BeginRefresh,
      NextPc, mu
<1> QED
  BY <1>2, <1>3, PublishedIInv DEF IInv, TypeOK, mu

(* A failed cycle (recordMetricsFailure) lengthens the streak by an error  *)
(* it counts and leaves the published windows alone.                       *)
LEMMA FailureIInv ==
  ASSUME IInv, NEW err \in {"source", "normalize", "cost"},
         pc = "finish", recordMetricsFailure(err), ReturnFromRefresh,
         cycles' = cycles + 1, UNCHANGED <<clock, cancelled, locals>>
  PROVE  IInv'
<1>1. Flags'
  BY DEF IInv, TypeOK, Flags, locals
<1>2. lastReason' = [n |-> consecFails + 1, cause |-> err]
  BY DEF IInv, TypeOK, recordMetricsFailure, stalenessReason
<1>3. lastReason' \in Reason
  <2>1. err \in Cause
    BY DEF Cause
  <2> QED
    BY <1>2, <2>1 DEF IInv, TypeOK, Reason
<1>4. TypeOK'
  BY <1>1, <1>3
  DEF IInv, TypeOK, recordMetricsFailure, ReturnFromRefresh, Locations, locals
<1>5. LoopAccounting'
  BY NAssumption
  DEF IInv, TypeOK, LoopAccounting, recordMetricsFailure, ReturnFromRefresh,
      State, locals
<1>6. StreakMeasuresCost' /\ CostIsLastMetricsWindow' /\ NoTruncatedWindow'
      /\ PartialAccounted'
  BY NAssumption
  DEF IInv, TypeOK, StreakMeasuresCost, CostIsLastMetricsWindow,
      NoTruncatedWindow, PartialAccounted, recordMetricsFailure, State
<1>7. ReasonExplainsStreak'
  BY <1>2 DEF IInv, TypeOK, ReasonExplainsStreak, recordMetricsFailure
<1> QED
  BY <1>4, <1>5, <1>6, <1>7 DEF IInv

(* The fields of the published State that the arithmetic needs.            *)
LEMMA StateFields ==
  ASSUME TypeOK
  PROVE  /\ state.refreshes \in Nat /\ state.refreshAt \in Nat
         /\ state.failed \in Nat /\ state.soft \in Nat
         /\ costState.refreshes \in Nat /\ costState.refreshAt \in Nat
  BY DEF TypeOK, State

(* What Refresh knows when it is done with the collectors.                 *)
LEMMA AtFinish ==
  ASSUME IInv, pc = "finish"
  PROVE  /\ i = N + 1 /\ nobs \in Nat /\ softErrs \in Nat
         /\ N - nobs \in Nat /\ softErrs <= N - nobs /\ N - nobs <= errs
         /\ firstCollectErr = "none" => nobs = N
         /\ firstCollectErr \in {"none", "source"}
         /\ ~cut
         /\ now \in Nat /\ state.refreshAt <= now /\ now <= clock
  BY NAssumption DEF IInv, TypeOK, LoopAccounting

(* A publication: the interesting case of the induction.                   *)
LEMMA PublishIInv ==
  ASSUME IInv, NEW v \in Verdict, Refresh_Publish(v)
  PROVE  IInv'
<1> DEFINE s == NewState(v)
<1>1. /\ s.refreshes = state.refreshes + 1
      /\ s.refreshAt = now
      /\ s.metrics = metricsFresh
      /\ s.failed = N - nobs
      /\ s.soft = softErrs
      /\ s.truncated = cut
  BY DEF NewState
<1>2. pc = "finish"
  BY DEF Refresh_Publish
<1>3. s \in State
  <2>1. metricsFresh \in BOOLEAN /\ cut \in BOOLEAN
    BY DEF IInv, TypeOK, Flags
  <2>2. state.refreshes + 1 \in Nat
    BY StateFields DEF IInv
  <2> QED
    BY <1>2, <2>1, <2>2, AtFinish DEF NewState, State
<1>4. /\ state' = s
      /\ UNCHANGED <<locals, clock, errs, cancelled>>
      /\ pc' = "select" /\ ticker' = IF ticker = "off" THEN "empty" ELSE ticker
      /\ cycles' = cycles + 1
      /\ N > 0 => nobs # 0
  BY DEF Refresh_Publish, ReturnFromRefresh, AllFailed
<1> HIDE DEF s
<1>5. Flags' /\ LoopAccounting' /\ NoTruncatedWindow' /\ PartialAccounted'
  <2>1. Flags'
    BY <1>4 DEF IInv, TypeOK, Flags, locals
  <2>2. LoopAccounting'
    BY <1>1, <1>2, <1>4, AtFinish, NAssumption
    DEF IInv, TypeOK, LoopAccounting, locals
  <2>3. NoTruncatedWindow'
    BY <1>1, <1>2, <1>4, AtFinish DEF NoTruncatedWindow
  <2>4. PartialAccounted'
    BY <1>1, <1>2, <1>4, AtFinish, NAssumption DEF PartialAccounted
  <2> QED
    BY <2>1, <2>2, <2>3, <2>4
<1>6. CASE metricsFresh
  <2>1. costState' = s /\ consecFails' = 0 /\ lastReason' = NoReason
    BY <1>6 DEF Refresh_Publish, s
  <2>2. TypeOK'
    <3>1. NoReason \in Reason
      BY DEF NoReason, Reason, Cause
    <3> QED
      BY <1>3, <1>4, <1>5, <2>1, <3>1 DEF IInv, TypeOK, Locations, locals
  <2>3. StreakMeasuresCost'
    BY <1>1, <1>4, <2>1, StateFields DEF IInv, TypeOK, StreakMeasuresCost
  <2>4. s.metrics
    BY <1>1, <1>6
  <2>5. CostIsLastMetricsWindow'
    BY <1>1, <1>2, <1>4, <2>1, <2>4, AtFinish DEF CostIsLastMetricsWindow
  <2>6. ReasonExplainsStreak'
    BY <2>1 DEF ReasonExplainsStreak, NoReason
  <2> QED
    BY <1>5, <2>2, <2>3, <2>5, <2>6 DEF IInv
<1>7. CASE ~metricsFresh
  <2> DEFINE reason == stalenessReason(consecFails + 1, firstCollectErr, "no metrics")
  <2>1. /\ costState' = costState
        /\ consecFails' = consecFails + 1
        /\ lastReason' = reason
    BY <1>7 DEF Refresh_Publish
  <2>2. /\ reason.n = consecFails + 1
        /\ reason.cause \in Cause /\ reason.cause # "none"
        /\ reason = [n |-> reason.n, cause |-> reason.cause]
    BY <1>2, AtFinish DEF stalenessReason, Cause
  <2> HIDE DEF reason
  <2>3. TypeOK'
    <3>1. reason \in Reason
      BY <2>2 DEF IInv, TypeOK, Reason
    <3> QED
      BY <1>3, <1>4, <1>5, <2>1, <3>1 DEF IInv, TypeOK, Locations, locals
  <2>4. StreakMeasuresCost'
    BY <1>1, <1>4, <2>1, StateFields DEF IInv, TypeOK, StreakMeasuresCost
  <2>5. ~s.metrics
    BY <1>1, <1>7
  <2>6. CostIsLastMetricsWindow'
    BY <1>1, <1>2, <1>4, <2>1, <2>5, AtFinish, StateFields
    DEF IInv, CostIsLastMetricsWindow
  <2>7. ReasonExplainsStreak'
    BY <2>1, <2>2 DEF IInv, TypeOK, ReasonExplainsStreak
  <2> QED
    BY <1>5, <2>3, <2>4, <2>6, <2>7 DEF IInv
<1> QED
  BY <1>6, <1>7

-----------------------------------------------------------------------------
(* A step of the loop that books nothing, or of the environment.           *)
LEMMA QuietIInv ==
  ASSUME IInv, UNCHANGED <<mu, locals, cycles>>, Flags',
         clock' \in Nat, clock <= clock',
         ticker' \in {"off", "empty", "full"}, cancelled => cancelled',
         \/ pc' = pc
         \/ pc' \in {"select", "stopped"}
         \/ pc = "check" /\ pc' = "collect" /\ ~cancelled
  PROVE  IInv'
<1>1. TypeOK'
  BY DEF IInv, TypeOK, Locations, mu, locals
<1>2. cut' => pc' \notin {"collect", "finish"} /\ cancelled'
  BY DEF IInv, LoopAccounting, locals
<1>3. LoopAccounting'
  BY <1>2 DEF IInv, TypeOK, LoopAccounting, State, mu, locals
<1> QED
  BY <1>1, <1>3, PublishedIInv DEF IInv, TypeOK, mu

(* A collector answers.                                                    *)
LEMMA AnswerIInv ==
  ASSUME IInv, NEW a \in {"metrics", "events", "truncated"}, Refresh_Answer(a)
  PROVE  IInv'
<1>1. Flags'
  BY DEF IInv, TypeOK, Flags, Refresh_Answer
<1>2. i <= N /\ ~cut
  BY DEF IInv, LoopAccounting, Refresh_Answer
<1>3. TypeOK'
  BY <1>1, <1>2, NAssumption
  DEF IInv, TypeOK, Refresh_Answer, NextPc, mu, Locations
<1>4. cut' => pc' \notin {"collect", "finish"} /\ cancelled'
  <2> SUFFICES ASSUME cut' PROVE pc' \notin {"collect", "finish"} /\ cancelled'
    OBVIOUS
  <2>1. a = "truncated"
    BY <1>2 DEF Refresh_Answer
  <2>2. i \in Killable /\ cancelled
    BY <2>1 DEF Refresh_Answer, Answers
  <2>3. i < N
    BY <1>2, <2>2, KillableNotLast, NAssumption DEF IInv, TypeOK
  <2> QED
    BY <2>2, <2>3 DEF Refresh_Answer, NextPc
<1>5. LoopAccounting'
  BY <1>2, <1>4, NAssumption
  DEF IInv, TypeOK, LoopAccounting, Refresh_Answer, NextPc, State, mu
<1> QED
  BY <1>3, <1>5, PublishedIInv DEF IInv, TypeOK, Refresh_Answer, mu

(* A collector fails.                                                      *)
LEMMA CollectErrIInv ==
  ASSUME IInv, NEW e \in {"error", "capped"}, Refresh_CollectErr(e)
  PROVE  IInv'
<1>1. Flags'
  BY DEF IInv, TypeOK, Flags, Refresh_CollectErr
<1>2. i <= N /\ ~cut'
  BY DEF IInv, LoopAccounting, Refresh_CollectErr
<1>3. softErrs' \in Nat /\ softErrs' <= softErrs + 1
  BY DEF IInv, TypeOK, Refresh_CollectErr, softCollectErr
<1>4. TypeOK'
  BY <1>1, <1>2, <1>3, NAssumption
  DEF IInv, TypeOK, Refresh_CollectErr, NextPc, Locations
<1>5. LoopAccounting'
  BY <1>2, <1>3, NAssumption
  DEF IInv, TypeOK, LoopAccounting, Refresh_CollectErr, NextPc, State
<1> QED
  BY <1>4, <1>5, PublishedIInv DEF IInv, TypeOK, Refresh_CollectErr

(* Every step of the daemon and of its environment keeps the invariant.    *)
LEMMA NextIInv == IInv /\ [Next]_vars => IInv'
<1> SUFFICES ASSUME IInv, [Next]_vars PROVE IInv'
  OBVIOUS
<1> USE DEF IInv, TypeOK, Flags
<1>1. CASE Run_Start
  BY <1>1, BeginIInv DEF Run_Start
<1>2. CASE Run_Tick
  BY <1>2, BeginIInv DEF Run_Tick
<1>3. CASE Run_Done
  BY <1>3, QuietIInv DEF Run_Done, mu, locals
<1>4. CASE Refresh_Check
  BY <1>4, QuietIInv DEF Refresh_Check, ReturnFromRefresh, mu, locals
<1>5. ASSUME NEW a \in {"metrics", "events", "truncated"}, Refresh_Answer(a)
      PROVE  IInv'
  BY <1>5, AnswerIInv
<1>6. ASSUME NEW e \in {"error", "capped"}, Refresh_CollectErr(e)
      PROVE  IInv'
  BY <1>6, CollectErrIInv
<1>7. CASE Refresh_AllFailed
  <2>1. firstCollectErr = "source"
    BY <1>7, AtFinish, NAssumption DEF Refresh_AllFailed, AllFailed
  <2> QED
    BY <1>7, <2>1, FailureIInv DEF Refresh_AllFailed
<1>8. ASSUME NEW err \in {"normalize", "cost"}, Refresh_HardErr(err)
      PROVE  IInv'
  BY <1>8, FailureIInv DEF Refresh_HardErr
<1>9. ASSUME NEW v \in Verdict, Refresh_Publish(v) PROVE IInv'
  BY <1>9, PublishIInv
<1>10. CASE ClockTick
  BY <1>10, QuietIInv DEF ClockTick, mu, locals
<1>11. CASE TickerFires
  BY <1>11, QuietIInv DEF TickerFires, mu, locals
<1>12. CASE Cancel
  BY <1>12, QuietIInv DEF Cancel, mu, locals
<1>13. CASE UNCHANGED vars
  BY <1>13, QuietIInv DEF vars, mu, locals
<1> QED
  BY <1>1, <1>2, <1>3, <1>4, <1>5, <1>6, <1>7, <1>8, <1>9, <1>10, <1>11,
     <1>12, <1>13
  DEF Next, Run, Refresh

(* The inductive invariant holds of every behaviour of the daemon.         *)
LEMMA Inductive == Spec => []IInv
  BY InitIInv, NextIInv, PTL DEF Spec

(* The three ways a step can touch the published data: a failed cycle, a   *)
(* publication, or not at all.                                             *)
LEMMA StepKinds ==
  ASSUME [Next]_vars
  PROVE  \/ UNCHANGED <<state, costState, consecFails>>
         \/ \E err : recordMetricsFailure(err)
         \/ \E v \in Verdict : Refresh_Publish(v)
<1>1. CASE Refresh_AllFailed
  BY <1>1 DEF Refresh_AllFailed
<1>2. CASE \E err \in {"normalize", "cost"} : Refresh_HardErr(err)
  BY <1>2 DEF Refresh_HardErr
<1>3. CASE \E v \in Verdict : Refresh_Publish(v)
  BY <1>3
<1>4. CASE \/ Run_Start \/ Run_Tick \/ Run_Done \/ Refresh_Check
           \/ \E a \in {"metrics", "events", "truncated"} : Refresh_Answer(a)
           \/ \E e \in {"error", "capped"} : Refresh_CollectErr(e)
           \/ ClockTick \/ TickerFires \/ Cancel \/ UNCHANGED vars
  BY <1>4
  DEF Run_Start, Run_Tick, Run_Done, Refresh_Check, Refresh_Answer,
      Refresh_CollectErr, ClockTick, TickerFires, Cancel, vars, mu
<1> QED
  BY <1>1, <1>2, <1>3, <1>4 DEF Next, Run, Refresh

(* What a publication does to the numbers and times readers see.           *)
LEMMA PublishStep ==
  ASSUME IInv, NEW v \in Verdict, Refresh_Publish(v)
  PROVE  /\ state'.refreshes = state.refreshes + 1
         /\ state'.refreshAt >= state.refreshAt
         /\ \/ costState' = state' /\ consecFails' = 0
            \/ costState' = costState /\ consecFails' = consecFails + 1
<1>1. /\ state'.refreshes = state.refreshes + 1
      /\ state'.refreshAt = now
  BY DEF Refresh_Publish, NewState
<1>2. now >= state.refreshAt
  BY AtFinish, StateFields DEF Refresh_Publish, IInv
<1>3. CASE metricsFresh
  BY <1>1, <1>2, <1>3 DEF Refresh_Publish
<1>4. CASE ~metricsFresh
  BY <1>1, <1>2, <1>4 DEF Refresh_Publish
<1> QED
  BY <1>3, <1>4

-----------------------------------------------------------------------------
(* Every variable of the daemon keeps its type.                            *)
THEOREM TypeCorrect == Spec => []TypeOK
<1>1. IInv => TypeOK
  BY DEF IInv
<1> QED
  BY <1>1, Inductive, PTL

(* The failure streak measures how far the served cost window lags, for    *)
(* any number of collectors and any sequence of outcomes.                  *)
THEOREM StreakIsLag == Spec => []StreakMeasuresCost
<1>1. IInv => StreakMeasuresCost
  BY DEF IInv
<1> QED
  BY <1>1, Inductive, PTL

(* /cost serves the newest window that carried device metrics.             *)
THEOREM CostIsLastMetrics == Spec => []CostIsLastMetricsWindow
<1>1. IInv => CostIsLastMetricsWindow
  BY DEF IInv
<1> QED
  BY <1>1, Inductive, PTL

(* A recorded reason prints the streak it explains.                        *)
THEOREM ReasonIsCurrent == Spec => []ReasonExplainsStreak
<1>1. IInv => ReasonExplainsStreak
  BY DEF IInv
<1> QED
  BY <1>1, Inductive, PTL

(* As long as the last collector is not one the kill switch can cut, no    *)
(* published window contains a truncated drain.                            *)
THEOREM NoTruncation == Spec => []NoTruncatedWindow
<1>1. IInv => NoTruncatedWindow
  BY DEF IInv
<1> QED
  BY <1>1, Inductive, PTL

(* The partial-collection provenance of every published window adds up.    *)
THEOREM PartialAddsUp == Spec => []PartialAccounted
<1>1. IInv => PartialAccounted
  BY DEF IInv
<1> QED
  BY <1>1, Inductive, PTL

(* Publication never goes back and no cycle blanks the cost window.        *)
THEOREM PublicationNeverGoesBack == Spec => PublicationMonotone
<1> DEFINE A == /\ state' # state => /\ state'.refreshes = state.refreshes + 1
                                    /\ state'.refreshAt >= state.refreshAt
                /\ costState' # costState =>
                      /\ costState'.refreshes > costState.refreshes
                      /\ costState'.refreshAt >= costState.refreshAt
                      /\ costState' = state'
<1>1. IInv /\ [Next]_vars => [A]_vars
  <2> SUFFICES ASSUME IInv, [Next]_vars PROVE A
    OBVIOUS
  <2>1. CASE UNCHANGED <<state, costState, consecFails>>
    BY <2>1
  <2>2. ASSUME NEW err, recordMetricsFailure(err) PROVE A
    BY <2>2 DEF recordMetricsFailure
  <2>3. ASSUME NEW v \in Verdict, Refresh_Publish(v) PROVE A
    <3>1. /\ costState.refreshes <= state.refreshes
          /\ costState.refreshAt <= state.refreshAt
      BY StateFields DEF IInv, StreakMeasuresCost, CostIsLastMetricsWindow
    <3>2. state'.refreshAt \in Nat
      BY <2>3, AtFinish DEF Refresh_Publish, NewState
    <3> QED
      BY <2>3, <3>1, <3>2, PublishStep, StateFields DEF IInv
  <2> QED
    BY <2>1, <2>2, <2>3, StepKinds
<1> QED
  BY <1>1, Inductive, PTL DEF Spec, PublicationMonotone

(* The daemon, with all its collectors, errors and interleavings, is to    *)
(* its readers the pair of registers of SnapshotStore.                     *)
THEOREM DaemonImplementsStore == Spec => ImplementsStore
<1>1. Init => Store!StoreInit
  BY DEF Init, Store!StoreInit, Store!Nothing, NoState
<1>2. IInv /\ [Next]_vars => [Store!StoreNext]_(Store!storeVars)
  <2> SUFFICES ASSUME IInv, [Next]_vars
               PROVE  [Store!StoreNext]_(Store!storeVars)
    OBVIOUS
  <2>1. CASE UNCHANGED <<state, costState, consecFails>>
    BY <2>1 DEF Store!storeVars
  <2>2. ASSUME NEW err, recordMetricsFailure(err) PROVE Store!Miss
    BY <2>2 DEF recordMetricsFailure, Store!Miss
  <2>3. ASSUME NEW v \in Verdict, Refresh_Publish(v)
        PROVE  Store!PublishGood \/ Store!PublishOther
    BY <2>3, PublishStep
    DEF Store!PublishGood, Store!PublishOther, Store!Advance
  <2> QED
    BY <2>1, <2>2, <2>3, StepKinds DEF Store!StoreNext
<1> QED
  BY <1>1, <1>2, Inductive, PTL DEF Spec, ImplementsStore, Store!StoreSpec
=============================================================================
