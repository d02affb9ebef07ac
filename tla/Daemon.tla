------------------------------- MODULE Daemon -------------------------------
(***************************************************************************)
(* The headless collection loop of daemon.go: Run drives Refresh, Refresh  *)
(* reads every collector in turn, normalizes, prices, evaluates the gate   *)
(* and publishes an immutable State under d.mu; a cycle that produced      *)
(* nothing is booked by recordMetricsFailure.                              *)
(*                                                                         *)
(* One step of this module is the code between two points where another    *)
(* goroutine can observe or influence it: a ctx.Err() check, a collector   *)
(* call, a critical section of d.mu, the select of Run.  What a window     *)
(* contains is abstracted to what readers of it are told: its number, its  *)
(* collection time, whether it carries per-device metrics, how many        *)
(* sources failed, and whether a log drain in it was cut by the kill       *)
(* switch.                                                                 *)
(***************************************************************************)
EXTENDS Integers

CONSTANTS
    N,          \* number of configured collectors, called in the order 1..N
    Metrics,    \* collectors whose observation may carry DeviceWindows
    Fallible,   \* collectors whose Collect may return an error
    Killable,   \* collectors whose drain the kill switch can cut short
    MaxClock,   \* bound: the clock stops here
    MaxCycles   \* bound: booked cycles per behaviour

ASSUME NAssumption == N \in Nat
ASSUME SourcesAssumption ==
    Metrics \subseteq 1..N /\ Fallible \subseteq 1..N /\ Killable \subseteq 1..N
(* Every wiring of the repository puts the kmsg collector before ProcLink  *)
(* and NCCLLog (runtime_config.go:220, sources_gpu.go:161).                *)
ASSUME KillableNotLast == N \notin Killable
ASSUME BoundsAssumption == MaxClock \in Nat /\ MaxCycles \in Nat

VARIABLES
    state,        \* d.state:       the freshest published State
    costState,    \* d.costState:   the last State with per-device metrics
    errs,         \* d.errs:        cumulative refresh errors
    consecFails,  \* d.consecFails: cycles since the last metrics scrape
    lastReason,   \* d.lastReason:  why the last metrics collection failed
    clock,        \* d.now()
    cancelled,    \* ctx.Err() # nil
    ticker,       \* the channel t.C: "off", "empty" or "full" (capacity 1)
    pc,           \* where the goroutine of Run is
    cycles,       \* cycles booked so far (bounds the model)
    (* The local variables of the Refresh in progress.                     *)
    i,                \* index of the loop over d.collectors
    now,              \* the time read at its start
    nobs,             \* len(obs): how many collectors answered
    softErrs,
    firstCollectErr,
    metricsFresh,
    cut               \* an observation in obs was cut by the kill switch

mu == <<state, costState, errs, consecFails, lastReason>>
locals == <<i, now, nobs, softErrs, firstCollectErr, metricsFresh, cut>>
vars == <<state, costState, errs, consecFails, lastReason,
          clock, cancelled, ticker, pc,
          i, now, nobs, softErrs, firstCollectErr, metricsFresh, cut, cycles>>

-----------------------------------------------------------------------------
(* Data.                                                                   *)

(* "gate" stands for whatever the engine concluded, "nil" for a gate that   *)
(* was isolated after a panic.                                             *)
Verdict == {"nil", "gate"}

State == [refreshes : Nat, refreshAt : Nat, metrics : BOOLEAN,
          failed : Nat, soft : Nat, truncated : BOOLEAN, verdict : Verdict]

(* The nil *State.  No published State has number 0.                       *)
NoState == [refreshes |-> 0, refreshAt |-> 0, metrics |-> FALSE,
            failed |-> 0, soft |-> 0, truncated |-> FALSE, verdict |-> "nil"]

(* The error a reason string names; "none" is a nil error / no fallback.   *)
Cause == {"none", "source", "normalize", "cost", "no metrics"}

(* lastReason: the streak length it prints and its cause; "" is NoReason.  *)
Reason == [n : Nat, cause : Cause]
NoReason == [n |-> 0, cause |-> "none"]

stalenessReason(n, err, fallback) ==
    [n |-> n, cause |-> IF err # "none" THEN err ELSE fallback]

(* The answers collector c can give.  "metrics" carries DeviceWindows,     *)
(* "events" does not; "truncated" is a drain the kill switch ended: it     *)
(* returns its partial bytes and no error.                                 *)
Answers(c) ==
       {"events"}
  \cup (IF c \in Metrics THEN {"metrics"} ELSE {})
  \cup (IF c \in Killable /\ cancelled THEN {"truncated"} ELSE {})

Errors(c) ==
       (IF c \in Fallible THEN {"error"} ELSE {})
  \cup (IF c \in Fallible \cap Metrics THEN {"capped"} ELSE {})

softCollectErr(e) == e = "capped"

-----------------------------------------------------------------------------
Init ==
    /\ state = NoState
    /\ costState = NoState
    /\ errs = 0
    /\ consecFails = 0
    /\ lastReason = NoReason
    /\ clock = 0
    /\ cancelled = FALSE
    /\ ticker = "off"
    /\ pc = "start"
    /\ i = 1 /\ now = 0 /\ nobs = 0 /\ softErrs = 0
    /\ firstCollectErr = "none" /\ metricsFresh = FALSE /\ cut = FALSE
    /\ cycles = 0

(* After collector c the loop checks ctx again, or is done.                *)
NextPc(c) == IF c < N THEN "check" ELSE "finish"

BeginRefresh ==
    /\ now' = clock
    /\ i' = 1 /\ nobs' = 0 /\ softErrs' = 0
    /\ firstCollectErr' = "none" /\ metricsFresh' = FALSE /\ cut' = FALSE
    /\ pc' = NextPc(0)

(* Refresh returns to Run, which swallows the error.  NewTicker runs after *)
(* the first Refresh.                                                      *)
ReturnFromRefresh ==
    /\ pc' = "select"
    /\ ticker' = IF ticker = "off" THEN "empty" ELSE ticker

Run_Start ==
    /\ pc = "start"
    /\ BeginRefresh
    /\ UNCHANGED <<mu, clock, cancelled, ticker, cycles>>

(* The select of Run.  When both channels are ready Go picks either.       *)
Run_Tick ==
    /\ pc = "select"
    /\ ticker = "full"
    /\ cancelled \/ cycles < MaxCycles
    /\ ticker' = "empty"
    /\ BeginRefresh
    /\ UNCHANGED <<mu, clock, cancelled, cycles>>

(* Mutant: break leaves the select but not the loop.                       *)
Run_Done_BreaksSelect ==
    /\ pc = "select"
    /\ cancelled
    /\ ticker' = "off"
    /\ UNCHANGED <<mu, clock, cancelled, pc, locals, cycles>>

Run_Done ==
    /\ pc = "select"
    /\ cancelled
    /\ pc' = "stopped"
    /\ ticker' = "off"
    /\ UNCHANGED <<mu, clock, cancelled, locals, cycles>>

(* Mutant: the context is only checked by the collectors themselves.       *)
Refresh_Check_NoCtx ==
    /\ pc = "check"
    /\ pc' = "collect"
    /\ UNCHANGED <<mu, clock, cancelled, ticker, locals, cycles>>

(* The ctx.Err() check at the head of the loop: a cancelled cycle returns  *)
(* without any bookkeeping.                                                *)
Refresh_Check ==
    /\ pc = "check"
    /\ IF cancelled
       THEN ReturnFromRefresh
       ELSE pc' = "collect" /\ UNCHANGED ticker
    /\ UNCHANGED <<mu, clock, cancelled, locals, cycles>>

Refresh_Answer(a) ==
    /\ pc = "collect"
    /\ a \in Answers(i)
    /\ i' = i + 1
    /\ nobs' = nobs + 1
    /\ metricsFresh' = (metricsFresh \/ a = "metrics")
    /\ cut' = (cut \/ a = "truncated")
    /\ pc' = NextPc(i)
    /\ UNCHANGED <<mu, clock, cancelled, ticker, now, softErrs,
                   firstCollectErr, cycles>>

(* Mutant: a capped source is not counted as an error.                     *)
Refresh_CollectErr_SoftUncounted(e) ==
    /\ pc = "collect"
    /\ e \in Errors(i)
    /\ errs' = IF softCollectErr(e) THEN errs ELSE errs + 1
    /\ softErrs' = IF softCollectErr(e) THEN softErrs + 1 ELSE softErrs
    /\ firstCollectErr' = "source"
    /\ i' = i + 1
    /\ pc' = NextPc(i)
    /\ UNCHANGED <<state, costState, consecFails, lastReason, clock, cancelled,
                   ticker, now, nobs, metricsFresh, cut, cycles>>

Refresh_CollectErr(e) ==
    /\ pc = "collect"
    /\ e \in Errors(i)
    /\ errs' = errs + 1
    /\ softErrs' = IF softCollectErr(e) THEN softErrs + 1 ELSE softErrs
    /\ firstCollectErr' = "source"
    /\ i' = i + 1
    /\ pc' = NextPc(i)
    /\ UNCHANGED <<state, costState, consecFails, lastReason, clock, cancelled,
                   ticker, now, nobs, metricsFresh, cut, cycles>>

(* Mutant: a failure blanks the cost window.                               *)
recordMetricsFailure_Blanks(err) ==
    /\ errs' = errs + 1
    /\ consecFails' = consecFails + 1
    /\ lastReason' = stalenessReason(consecFails + 1, err, "none")
    /\ costState' = NoState
    /\ UNCHANGED state

recordMetricsFailure(err) ==
    /\ errs' = errs + 1
    /\ consecFails' = consecFails + 1
    /\ lastReason' = stalenessReason(consecFails + 1, err, "none")
    /\ UNCHANGED <<state, costState>>

(* No source answered: nothing is published over the previous State.       *)
AllFailed == nobs = 0 /\ N > 0

Refresh_AllFailed ==
    /\ pc = "finish"
    /\ AllFailed
    /\ recordMetricsFailure(firstCollectErr)
    /\ cycles' = cycles + 1
    /\ ReturnFromRefresh
    /\ UNCHANGED <<clock, cancelled, locals>>

(* Mutant: Run returns the error of Refresh instead of swallowing it.      *)
Refresh_HardErr_StopsRun(err) ==
    /\ pc = "finish"
    /\ ~AllFailed
    /\ \/ err = "normalize" /\ nobs > 0
       \/ err = "cost" /\ metricsFresh
    /\ recordMetricsFailure(err)
    /\ cycles' = cycles + 1
    /\ pc' = "stopped" /\ ticker' = "off"
    /\ UNCHANGED <<clock, cancelled, locals>>

(* Normalize fails on a device->job mapping it cannot resolve, CostWedge   *)
(* on a device sample it cannot price.                                     *)
Refresh_HardErr(err) ==
    /\ pc = "finish"
    /\ ~AllFailed
    /\ \/ err = "normalize" /\ nobs > 0
       \/ err = "cost" /\ metricsFresh
    /\ recordMetricsFailure(err)
    /\ cycles' = cycles + 1
    /\ ReturnFromRefresh
    /\ UNCHANGED <<clock, cancelled, locals>>

(* evalVerdict: the engine's verdict, or nil when the gate panicked.       *)
evalVerdict == Verdict

NewState(v) ==
    [refreshes |-> state.refreshes + 1, refreshAt |-> now,
     metrics |-> metricsFresh, failed |-> N - nobs, soft |-> softErrs,
     truncated |-> cut, verdict |-> v]

(* Mutants: a log-only window ends the streak; an isolated gate withholds  *)
(* the cost window.                                                        *)
Refresh_Publish_EndsStreak(v) ==
    /\ pc = "finish"
    /\ ~AllFailed
    /\ v \in evalVerdict
    /\ state' = NewState(v)
    /\ costState' = IF metricsFresh THEN NewState(v) ELSE costState
    /\ consecFails' = 0
    /\ lastReason' = NoReason
    /\ cycles' = cycles + 1
    /\ ReturnFromRefresh
    /\ UNCHANGED <<errs, clock, cancelled, locals>>

Refresh_Publish_GateHoldsCost(v) ==
    /\ pc = "finish"
    /\ ~AllFailed
    /\ v \in evalVerdict
    /\ state' = NewState(v)
    /\ IF metricsFresh
       THEN /\ costState' = IF v = "nil" THEN costState ELSE NewState(v)
            /\ consecFails' = 0
            /\ lastReason' = NoReason
       ELSE /\ consecFails' = consecFails + 1
            /\ lastReason' =
                 stalenessReason(consecFails + 1, firstCollectErr, "no metrics")
            /\ UNCHANGED costState
    /\ cycles' = cycles + 1
    /\ ReturnFromRefresh
    /\ UNCHANGED <<errs, clock, cancelled, locals>>

Refresh_Publish(v) ==
    /\ pc = "finish"
    /\ ~AllFailed
    /\ v \in evalVerdict
    /\ state' = NewState(v)
    /\ IF metricsFresh
       THEN /\ costState' = NewState(v)
            /\ consecFails' = 0
            /\ lastReason' = NoReason
       ELSE /\ consecFails' = consecFails + 1
            /\ lastReason' =
                 stalenessReason(consecFails + 1, firstCollectErr, "no metrics")
            /\ UNCHANGED costState
    /\ cycles' = cycles + 1
    /\ ReturnFromRefresh
    /\ UNCHANGED <<errs, clock, cancelled, locals>>

(* The environment: time passes, the ticker fires (its channel holds one   *)
(* tick, further ticks are dropped), the operator cancels the context.     *)
ClockTick ==
    /\ clock < MaxClock
    /\ clock' = clock + 1
    /\ UNCHANGED <<mu, cancelled, ticker, pc, locals, cycles>>

TickerFires ==
    /\ ticker = "empty"
    /\ ticker' = "full"
    /\ UNCHANGED <<mu, clock, cancelled, pc, locals, cycles>>

Cancel ==
    /\ ~cancelled
    /\ cancelled' = TRUE
    /\ UNCHANGED <<mu, clock, ticker, pc, locals, cycles>>

-----------------------------------------------------------------------------
Refresh ==
    \/ Refresh_Check
    \/ \E a \in {"metrics", "events", "truncated"} : Refresh_Answer(a)
    \/ \E e \in {"error", "capped"} : Refresh_CollectErr(e)
    \/ Refresh_AllFailed
    \/ \E err \in {"normalize", "cost"} : Refresh_HardErr(err)
    \/ \E v \in Verdict : Refresh_Publish(v)

Run == Run_Start \/ Run_Tick \/ Run_Done \/ Refresh

Next == Run \/ ClockTick \/ TickerFires \/ Cancel

Spec == Init /\ [][Next]_vars

-----------------------------------------------------------------------------
(* Properties.                                                             *)

Locations == {"start", "select", "check", "collect", "finish", "stopped"}

Flags == cancelled \in BOOLEAN /\ metricsFresh \in BOOLEAN /\ cut \in BOOLEAN

(* Every variable stays in its type; the loop index stays within one past  *)
(* the collectors.                                                         *)
TypeOK ==
    /\ Flags
    /\ state \in State
    /\ costState \in State
    /\ errs \in Nat
    /\ consecFails \in Nat
    /\ lastReason \in Reason
    /\ clock \in Nat
    /\ ticker \in {"off", "empty", "full"}
    /\ pc \in Locations
    /\ i \in 1..(N + 1) /\ now \in Nat /\ nobs \in Nat /\ softErrs \in Nat
    /\ firstCollectErr \in {"none", "source"}
    /\ cycles \in Nat

(* The failure streak measures how far the served cost window lags: every  *)
(* window published after it counts in consecFails, and every failure the  *)
(* streak counts is either such a window or a counted error.  In           *)
(* particular an unbroken streak of 0 means /cost serves the very window   *)
(* /signals serves (daemon.go:296-323, 333-339).                           *)
StreakMeasuresCost ==
    LET gap == state.refreshes - costState.refreshes IN
    /\ 0 <= gap
    /\ gap <= consecFails
    /\ consecFails <= gap + errs
    /\ gap = 0 => costState = state

(* costState is the newest published window that carried device metrics:   *)
(* a log-only cycle neither replaces it nor makes it look younger          *)
(* (daemon.go:86-93).                                                      *)
CostIsLastMetricsWindow ==
    /\ costState # NoState => costState.metrics
    /\ state.metrics => costState = state
    /\ costState.refreshAt <= state.refreshAt
    /\ state.refreshAt <= clock

(* The recorded reason prints the streak it explains and names a cause as  *)
(* soon as there is a failure (daemon.go:311, 322, 337).                   *)
ReasonExplainsStreak ==
    /\ lastReason.n = consecFails
    /\ consecFails > 0 <=> lastReason.cause # "none"

(* A log drain that shutdown cut short is never published: the collector   *)
(* returns its partial bytes without an error, and only the next ctx.Err() *)
(* check keeps them out of a window (daemon.go:223-226,                    *)
(* collectors_kmsg.go:209-221).                                            *)
NoTruncatedWindow == ~state.truncated

(* A published window was built from at least one source, and its          *)
(* provenance counts the failed ones: capped sources are among the failed, *)
(* and each failed one was counted in errs (daemon.go:256-281).            *)
PartialAccounted ==
    state # NoState =>
        /\ N > 0 => state.failed < N
        /\ state.soft <= state.failed
        /\ state.failed <= errs

(* Publication never goes back: window numbers advance by one, collection  *)
(* times never decrease, and the cost window, once there, is only ever     *)
(* replaced by a newer one that carries metrics: no cycle blanks it.       *)
PublicationMonotone ==
    [][ /\ state' # state => /\ state'.refreshes = state.refreshes + 1
                             /\ state'.refreshAt >= state.refreshAt
        /\ costState' # costState => /\ costState'.refreshes > costState.refreshes
                                     /\ costState'.refreshAt >= costState.refreshAt
                                     /\ costState' = state'
      ]_vars

(* The loop accounting the other invariants rest on: the captured now lies *)
(* between the published time and the clock, a collector that did not      *)
(* answer was counted and remembered, and a drain the kill switch cut is   *)
(* only ever held where the next step is a ctx.Err() check that fails.     *)
LoopAccounting ==
    /\ state.refreshAt <= now /\ now <= clock
    /\ pc \in {"check", "collect"} => i <= N
    /\ pc = "finish" => i = N + 1
    /\ nobs + softErrs <= i - 1
    /\ i - 1 - nobs <= errs
    /\ firstCollectErr = "none" => nobs = i - 1
    /\ cut => pc \notin {"collect", "finish"} /\ cancelled

(* The daemon implements the register pair its readers rely on.            *)
Store == INSTANCE SnapshotStore WITH
    latest   <- [seq |-> state.refreshes, at |-> state.refreshAt],
    lastGood <- [seq |-> costState.refreshes, at |-> costState.refreshAt],
    misses   <- consecFails

(* Every step of the daemon is a step of the store or invisible to it.     *)
ImplementsStore == Store!StoreSpec
=============================================================================
