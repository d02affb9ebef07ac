--------------------------- MODULE KmsgDrainProofs --------------------------
(***************************************************************************)
(* What a drain of the kernel ring returns and how promptly it stops, for  *)
(* every size of ring, cap, deadline and record.                           *)
(***************************************************************************)
EXTENDS KmsgDrain, SequenceTheorems, TLAPS

(* An empty read saw nothing beyond the position of the reader.            *)
ReachBehind ==
    /\ reach = 0 \/ reach < pos
    /\ pc = "closed" => reach = 0

(* After a late read the drain cannot begin another: the kill switch or    *)
(* the deadline that made it late is seen at the next head of the loop.    *)
OneLateRead ==
    /\ late <= 1
    /\ pc = "read" => late = 0
    /\ late = 1 /\ pc = "kill" => kill \/ elapsed >= Deadline
    /\ late = 1 /\ pc = "clock" => elapsed >= Deadline

(* A drain that ended stays as it ended until the next one is opened.      *)
HowEnded ==
    /\ ended # "no" => pc = "done"
    /\ ended = "killed" => kill
    /\ ended = "deadline" => elapsed >= Deadline

USE DrainAssumption, KernelAssumption, BoundsAssumption

-----------------------------------------------------------------------------
(* The type invariant holds before the first drain.                        *)
LEMMA InitTypes == Init => TypeOK
BY DEF Init, TypeOK

(* Every step keeps them.                                                  *)
LEMMA TypesKept ==
    ASSUME TypeOK, [Next]_vars
    PROVE  TypeOK'
<1> USE DEF TypeOK, kernel, drained
<1>1. CASE Open
  BY <1>1 DEF Open
<1>2. CASE CheckKill
  BY <1>2 DEF CheckKill, End
<1>3. CASE CheckBounds
  BY <1>3 DEF CheckBounds, End
<1>4. CASE Read_Empty
  BY <1>4 DEF Read_Empty, Late
<1>5. CASE Read_Error
  BY <1>5 DEF Read_Error, Late, End
<1>6. CASE Read_Record
  <2>0. pos \in 1..Len(log)
    BY <1>6 DEF Read_Record
  <2>1. pos \in 1..Len(log) /\ log[pos] \in 1..Chunk
    <3>1. log[pos] \in Sizes
      BY <2>0
    <3> QED
      BY <2>0, <3>1
  <2>2. bytes' \in 0..MaxBytes
    BY <1>6, <2>1 DEF Read_Record, ReadSize
  <2>3. buf' \in Seq(Nat)
    BY <1>6, <2>1 DEF Read_Record
  <2> QED
    BY <1>6, <2>1, <2>2, <2>3 DEF Read_Record, Late, End
<1>7. ASSUME NEW size \in Sizes, KernelLogs(size)
      PROVE  TypeOK'
  <2>1. log' \in Seq(Sizes)
    BY <1>7 DEF KernelLogs
  <2> QED
    BY <1>7, <2>1 DEF KernelLogs
<1>8. CASE ClockTick
  BY <1>8 DEF ClockTick
<1>9. CASE Cancel
  BY <1>9 DEF Cancel
<1>10. CASE UNCHANGED vars
  BY <1>10 DEF vars
<1> QED
  BY <1>1, <1>2, <1>3, <1>4, <1>5, <1>6, <1>7, <1>8, <1>9, <1>10 DEF Next, Drain

-----------------------------------------------------------------------------
(* Read_Record appends the next index, and no other step of a drain moves  *)
(* the reader.                                                             *)
LEMMA RunKept ==
    ASSUME TypeOK, UnbrokenRun, [Next]_vars
    PROVE  UnbrokenRun'
<1> USE DEF TypeOK, UnbrokenRun, kernel, drained
<1>1. CASE Open
  BY <1>1 DEF Open
<1>2. CASE CheckKill
  BY <1>2 DEF CheckKill, End
<1>3. CASE CheckBounds
  BY <1>3 DEF CheckBounds, End
<1>4. CASE Read_Empty
  BY <1>4 DEF Read_Empty
<1>5. CASE Read_Error
  BY <1>5 DEF Read_Error, End
<1>6. CASE Read_Record
  <2>1. pos = opened + Len(buf) /\ pos' = pos + 1 /\ buf' = Append(buf, pos)
        /\ opened' = opened
    BY <1>6 DEF Read_Record
  <2>2. /\ Len(buf') = Len(buf) + 1
        /\ \A k \in 1..Len(buf) : buf'[k] = buf[k]
        /\ buf'[Len(buf) + 1] = pos
    BY <2>1
  <2>3. Len(buf) \in Nat /\ opened \in Nat
    OBVIOUS
  <2>4. pos' = opened' + Len(buf')
    BY <2>1, <2>2, <2>3
  <2>5. ASSUME NEW k \in 1..Len(buf')
        PROVE  buf'[k] = opened' + k - 1
    <3>1. CASE k \in 1..Len(buf)
      BY <3>1, <2>1, <2>2
    <3>2. CASE k = Len(buf) + 1
      BY <3>2, <2>1, <2>2, <2>3
    <3> QED
      BY <3>1, <3>2, <2>2, <2>3
  <2> QED
    BY <2>4, <2>5
<1>7. CASE \E size \in Sizes : KernelLogs(size)
  BY <1>7 DEF KernelLogs
<1>8. CASE ClockTick \/ Cancel
  BY <1>8 DEF ClockTick, Cancel
<1>9. CASE UNCHANGED vars
  BY <1>9 DEF vars
<1> QED
  BY <1>1, <1>2, <1>3, <1>4, <1>5, <1>6, <1>7, <1>8, <1>9 DEF Next, Drain

(* Read_Empty reaches only what the reader is past.                        *)
LEMMA ReachKept ==
    ASSUME TypeOK, ReachBehind, [Next]_vars
    PROVE  ReachBehind'
<1> USE DEF TypeOK, ReachBehind, kernel, drained
<1>1. CASE Open
  BY <1>1 DEF Open
<1>2. CASE CheckKill
  BY <1>2 DEF CheckKill, End
<1>3. CASE CheckBounds
  BY <1>3 DEF CheckBounds, End
<1>4. CASE Read_Empty
  BY <1>4 DEF Read_Empty
<1>5. CASE Read_Error
  BY <1>5 DEF Read_Error, End
<1>6. CASE Read_Record
  BY <1>6 DEF Read_Record, End
<1>7. CASE \E size \in Sizes : KernelLogs(size)
  BY <1>7 DEF KernelLogs
<1>8. CASE ClockTick \/ Cancel
  BY <1>8 DEF ClockTick, Cancel
<1>9. CASE UNCHANGED vars
  BY <1>9 DEF vars
<1> QED
  BY <1>1, <1>2, <1>3, <1>4, <1>5, <1>6, <1>7, <1>8, <1>9 DEF Next, Drain

(* CheckKill and CheckBounds stop a drain whose last read was late.        *)
LEMMA LateKept ==
    ASSUME TypeOK, OneLateRead, [Next]_vars
    PROVE  OneLateRead'
<1> USE DEF TypeOK, OneLateRead, kernel, drained
<1>1. CASE Open
  BY <1>1 DEF Open
<1>2. CASE CheckKill
  BY <1>2 DEF CheckKill, End
<1>3. CASE CheckBounds
  BY <1>3 DEF CheckBounds, End
<1>4. CASE Read_Empty
  BY <1>4 DEF Read_Empty, Late
<1>5. CASE Read_Error
  BY <1>5 DEF Read_Error, End, Late
<1>6. CASE Read_Record
  BY <1>6 DEF Read_Record, End, Late
<1>7. CASE \E size \in Sizes : KernelLogs(size)
  BY <1>7 DEF KernelLogs
<1>8. CASE ClockTick
  BY <1>8 DEF ClockTick
<1>9. CASE Cancel
  BY <1>9 DEF Cancel
<1>10. CASE UNCHANGED vars
  BY <1>10 DEF vars
<1> QED
  BY <1>1, <1>2, <1>3, <1>4, <1>5, <1>6, <1>7, <1>8, <1>9, <1>10 DEF Next, Drain

(* The way a drain ended stays true until Open.                            *)
LEMMA HowEndedKept ==
    ASSUME TypeOK, HowEnded, [Next]_vars
    PROVE  HowEnded'
<1> USE DEF TypeOK, HowEnded, kernel, drained
<1>1. CASE Open
  BY <1>1 DEF Open
<1>2. CASE CheckKill
  BY <1>2 DEF CheckKill, End
<1>3. CASE CheckBounds
  BY <1>3 DEF CheckBounds, End
<1>4. CASE Read_Empty
  BY <1>4 DEF Read_Empty
<1>5. CASE Read_Error
  BY <1>5 DEF Read_Error, End
<1>6. CASE Read_Record
  BY <1>6 DEF Read_Record, End
<1>7. CASE \E size \in Sizes : KernelLogs(size)
  BY <1>7 DEF KernelLogs
<1>8. CASE ClockTick
  BY <1>8 DEF ClockTick
<1>9. CASE Cancel
  BY <1>9 DEF Cancel
<1>10. CASE UNCHANGED vars
  BY <1>10 DEF vars
<1> QED
  BY <1>1, <1>2, <1>3, <1>4, <1>5, <1>6, <1>7, <1>8, <1>9, <1>10 DEF Next, Drain

-----------------------------------------------------------------------------
IInv == TypeOK /\ UnbrokenRun /\ ReachBehind /\ OneLateRead /\ HowEnded

(* The conjuncts of IInv are preserved together.                           *)
LEMMA Inductive == Spec => []IInv
<1>1. Init => IInv
  <2> SUFFICES ASSUME Init PROVE IInv
    OBVIOUS
  <2>1. Len(buf) = 0
    BY DEF Init
  <2> QED
    BY <2>1, InitTypes
    DEF Init, IInv, UnbrokenRun, ReachBehind, OneLateRead, HowEnded
<1>2. IInv /\ [Next]_vars => IInv'
  BY TypesKept, RunKept, ReachKept, LateKept, HowEndedKept DEF IInv
<1> QED
  BY <1>1, <1>2, PTL DEF Spec

(* Every variable stays in its type; no drain goes past its cap.           *)
THEOREM TypeCorrect == Spec => []TypeOK
<1>1. IInv => TypeOK
  BY DEF IInv
<1> QED
  BY <1>1, Inductive, PTL

(* The drain returns an unbroken run of records, whatever the kernel       *)
(* overwrites under it and wherever the drain is stopped.                  *)
THEOREM RunIsUnbroken == Spec => []UnbrokenRun
<1>1. IInv => UnbrokenRun
  BY DEF IInv
<1> QED
  BY <1>1, Inductive, PTL

(* At most one read is begun after the kill or the deadline, and none goes *)
(* past the cap.                                                           *)
THEOREM PromptStop == Spec => []StopsPromptly
<1>1. IInv => StopsPromptly
  BY DEF IInv, TypeOK, OneLateRead, HowEnded, StopsPromptly
<1> QED
  BY <1>1, Inductive, PTL

(* An empty read means that everything up to the newest record of that     *)
(* moment was returned.                                                    *)
THEOREM CaughtUp == Spec => []NothingSkipped
<1>1. ASSUME IInv, NEW k \in opened..reach
      PROVE  Contains(buf, k)
  <2>1. pc # "closed" /\ reach < pos /\ pos = opened + Len(buf)
    BY <1>1 DEF IInv, TypeOK, ReachBehind, UnbrokenRun
  <2>2. k - opened + 1 \in 1..Len(buf)
    BY <1>1, <2>1 DEF IInv, TypeOK
  <2>3. buf[k - opened + 1] = opened + (k - opened + 1) - 1
    BY <1>1, <2>2 DEF IInv, UnbrokenRun
  <2>4. opened + (k - opened + 1) - 1 = k
    BY <1>1 DEF IInv, TypeOK
  <2> QED
    BY <2>2, <2>3, <2>4 DEF Contains
<1>2. IInv => NothingSkipped
  BY <1>1 DEF NothingSkipped
<1> QED
  BY <1>2, Inductive, PTL
=============================================================================
