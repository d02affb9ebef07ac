----------------------------- MODULE KmsgDrain ------------------------------
(***************************************************************************)
(* The bounded drain of the kernel ring buffer: boundedReadStream over a   *)
(* rawNonblockReader (collectors_kmsg.go), opened anew for each window by  *)
(* kmsgLogSource.Kmsg (sources_gpu.go), while the kernel keeps logging,    *)
(* overwrites its oldest records, and the daemon may close the kill        *)
(* channel.  A step is the code between two of its looks at the world: the *)
(* kill channel, the clock, the read.                                      *)
(***************************************************************************)
EXTENDS Integers, SequencesExt

CONSTANTS
    MaxBytes, Deadline,   \* the bounds of the drain
    Chunk,                \* size of the read buffer
    Ring,                 \* records the kernel keeps
    Sizes,                \* sizes of a record
    MaxLog, MaxWindows    \* bounds: records logged, windows collected

ASSUME DrainAssumption ==
    /\ MaxBytes \in Nat \ {0} /\ Deadline \in Nat \ {0}
    /\ Chunk \in Nat \ {0}
    /\ Sizes \subseteq 1..Chunk
ASSUME KernelAssumption == Ring \in Nat \ {0}
ASSUME BoundsAssumption == MaxLog \in Nat /\ MaxWindows \in Nat

VARIABLES
    log,       \* every record ever logged, by its size
    oldest,    \* index of the oldest record the kernel still has
    pos,       \* the reader's position: index of the next record
    window,    \* number of the window being collected
    pc,        \* where the drain is
    elapsed,   \* clock().Sub(start)
    kill,      \* the kill channel is closed
    buf, bytes,   \* the records drained, in order, and buf.Len()
    ended,     \* how the drain ended
    opened,    \* oldest when this drain opened the device
    reach,     \* index of the newest record at the last empty read
    late       \* reads begun after the deadline or the kill (counted to 2)

kernel == <<log, oldest>>
drained == <<buf, bytes, reach>>
vars == <<log, oldest, pos, window, pc, elapsed, kill, buf, bytes, ended,
          opened, reach, late>>

Init ==
    /\ log = <<>> /\ oldest = 1 /\ pos = 1
    /\ window = 0 /\ pc = "closed" /\ elapsed = 0 /\ kill = FALSE
    /\ buf = <<>> /\ bytes = 0 /\ ended = "no" /\ opened = 1
    /\ reach = 0 /\ late = 0

-----------------------------------------------------------------------------
(* The kernel and the daemon.                                              *)
KernelLogs(size) ==
    /\ Len(log) < MaxLog
    /\ log' = Append(log, size)
    /\ oldest' = IF Len(log') - oldest >= Ring THEN oldest + 1 ELSE oldest
    /\ UNCHANGED <<pos, window, pc, elapsed, kill, drained, ended, opened, late>>

(* Past the deadline all times are alike.                                  *)
ClockTick ==
    /\ pc \notin {"closed", "done"}
    /\ elapsed < Deadline
    /\ elapsed' = elapsed + 1
    /\ UNCHANGED <<kernel, pos, window, pc, kill, drained, ended, opened, late>>

Cancel ==
    /\ ~kill
    /\ kill' = TRUE
    /\ UNCHANGED <<kernel, pos, window, pc, elapsed, drained, ended, opened, late>>

-----------------------------------------------------------------------------
(* Kmsg: the device is opened for this window; the kernel places a new     *)
(* reader at the oldest record it has.                                     *)
Open ==
    /\ pc \in {"closed", "done"}
    /\ window < MaxWindows
    /\ window' = window + 1
    /\ pos' = oldest /\ opened' = oldest
    /\ elapsed' = 0 /\ buf' = <<>> /\ bytes' = 0 /\ ended' = "no"
    /\ reach' = 0 /\ late' = 0
    /\ pc' = "kill"
    /\ UNCHANGED <<kernel, kill>>

End(how) == pc' = "done" /\ ended' = how

(* Mutant: the kill switch is only looked at before the first read.        *)
CheckKill_OnlyFirst ==
    /\ pc = "kill"
    /\ IF kill /\ buf = <<>> THEN End("killed") ELSE pc' = "clock" /\ UNCHANGED ended
    /\ UNCHANGED <<kernel, pos, window, elapsed, kill, drained, opened, late>>

(* The head of the loop: the kill switch, the deadline, the byte cap.      *)
CheckKill ==
    /\ pc = "kill"
    /\ IF kill THEN End("killed") ELSE pc' = "clock" /\ UNCHANGED ended
    /\ UNCHANGED <<kernel, pos, window, elapsed, kill, drained, opened, late>>

(* Mutant: the drain relies on the cap and the end of the stream.          *)
CheckBounds_NoDeadline ==
    /\ pc = "clock"
    /\ IF bytes >= MaxBytes THEN End("cap") ELSE pc' = "read" /\ UNCHANGED ended
    /\ UNCHANGED <<kernel, pos, window, elapsed, kill, drained, opened, late>>

CheckBounds ==
    /\ pc = "clock"
    /\ IF elapsed >= Deadline THEN End("deadline")
       ELSE IF bytes >= MaxBytes THEN End("cap")
       ELSE pc' = "read" /\ UNCHANGED ended
    /\ UNCHANGED <<kernel, pos, window, elapsed, kill, drained, opened, late>>

(* Mutant: the last read is not cut down to the rest of the cap.           *)
ReadSize_Chunk == Chunk

ReadSize == IF MaxBytes - bytes < Chunk THEN MaxBytes - bytes ELSE Chunk

(* Two late reads are as bad as more.                                      *)
Late == late' = IF late < 2 /\ (kill \/ elapsed >= Deadline) THEN late + 1 ELSE late

(* EAGAIN or EINTR: nothing was read, yield and look again.                *)
Read_Empty ==
    /\ pc = "read"
    /\ reach' = IF pos > Len(log) THEN Len(log) ELSE reach
    /\ pc' = "kill"
    /\ Late
    /\ UNCHANGED <<kernel, pos, window, elapsed, kill, buf, bytes, ended, opened>>

(* Mutant: EPIPE is retried like an empty read; the kernel has moved the   *)
(* reader on to its oldest record.                                         *)
Read_Error_Retries ==
    /\ pc = "read"
    /\ pos < oldest
    /\ pos' = oldest
    /\ pc' = "kill"
    /\ Late
    /\ UNCHANGED <<kernel, window, elapsed, kill, drained, ended, opened>>

(* EPIPE: the next record was overwritten; EINVAL: it does not fit into    *)
(* the rest of the cap.  Any read error ends the drain.                    *)
Read_Error ==
    /\ pc = "read"
    /\ \/ pos < oldest
       \/ /\ pos \in oldest..Len(log)
          /\ log[pos] > ReadSize
    /\ End("error")
    /\ Late
    /\ UNCHANGED <<kernel, pos, window, elapsed, kill, drained, opened>>

(* One read of the device returns one whole record.                        *)
Read_Record ==
    /\ pc = "read"
    /\ pos \in oldest..Len(log)
    /\ log[pos] <= ReadSize
    /\ buf' = Append(buf, pos)
    /\ bytes' = bytes + log[pos]
    /\ pos' = pos + 1
    /\ IF bytes' >= MaxBytes THEN End("cap") ELSE pc' = "kill" /\ UNCHANGED ended
    /\ Late
    /\ UNCHANGED <<kernel, window, elapsed, kill, opened, reach>>

-----------------------------------------------------------------------------
Drain == CheckKill \/ CheckBounds \/ Read_Empty \/ Read_Error \/ Read_Record

Next ==
    \/ Open
    \/ Drain
    \/ \E size \in Sizes : KernelLogs(size)
    \/ ClockTick
    \/ Cancel

Spec == Init /\ [][Next]_vars

(* The goroutine is scheduled and time passes; nothing is assumed of the   *)
(* kernel, which may log or interrupt for ever.                            *)
FairSpec == Spec /\ WF_vars(Drain) /\ WF_vars(ClockTick)

-----------------------------------------------------------------------------
(* Properties.                                                             *)

(* Every variable stays in its type, and what was drained within the cap.  *)
TypeOK ==
    /\ log \in Seq(Sizes) /\ oldest \in Nat \ {0} /\ pos \in Nat
    /\ window \in Nat /\ elapsed \in 0..Deadline
    /\ pc \in {"closed", "kill", "clock", "read", "done"}
    /\ ended \in {"no", "killed", "deadline", "cap", "error"}
    /\ buf \in Seq(Nat) /\ bytes \in 0..MaxBytes
    /\ opened \in Nat \ {0} /\ reach \in Nat /\ late \in 0..2

(* The drain returns an unbroken run of records from the oldest one there  *)
(* was: records the kernel overwrites under the reader end the run, they   *)
(* never leave a hole in it (collectors_kmsg.go:174-181).                  *)
UnbrokenRun ==
    /\ \A k \in 1..Len(buf) : buf[k] = opened + k - 1
    /\ pc \notin {"closed"} => pos = opened + Len(buf)

(* However the kill and the deadline fall between the checks, at most one  *)
(* more read is begun, a kill is reported as such only if there was one,   *)
(* and no read goes past the cap, the last one included                    *)
(* (collectors_kmsg.go:148-173).                                           *)
StopsPromptly ==
    /\ late <= 1
    /\ bytes <= MaxBytes
    /\ ended = "killed" => kill
    /\ ended = "deadline" => elapsed >= Deadline

(* A drain that caught up with the kernel (an empty read) has returned     *)
(* every record from the one it opened at to the newest of that moment.    *)
NothingSkipped == \A k \in opened..reach : Contains(buf, k)

(* Every drain ends, though the kernel never stops logging and the stream  *)
(* has no end (collectors_kmsg.go:107-121).                                *)
DrainEnds == pc = "kill" ~> pc = "done"
=============================================================================
