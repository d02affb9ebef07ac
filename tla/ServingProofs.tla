---------------------------- MODULE ServingProofs ---------------------------
(***************************************************************************)
(* Proofs about the two parties around the daemon, for every wiring of it: *)
(* what a client of the local API is told while the daemon goes on         *)
(* publishing between the reads of a handler, for every staleness          *)
(* threshold; and that the exit code of the process tells the truth, in    *)
(* every mode, wherever a signal falls.                                    *)
(***************************************************************************)
EXTENDS API, Agent, DaemonProofs

(* A request is a record of these fields; windows in it have numbers.      *)
IsRequest(r) ==
    /\ r = [at |-> r.at, ep |-> r.ep, st |-> r.st, cost |-> r.cost,
            held |-> r.held, fr |-> r.fr]
    /\ r.st.refreshes \in Nat /\ r.st.refreshAt \in Nat
    /\ r.cost.refreshes \in Nat /\ r.cost.refreshAt \in Nat

(* What Freshness holds, and what it makes of it, are of one moment.       *)
Explained(h) ==
    /\ h.reason \in Reason /\ h.consec \in Nat
    /\ h.reason.n = h.consec
    /\ h.consec > 0 <=> h.reason.cause # "none"
Explains(fr) ==
    /\ fr.reason = "own" => fr.why.n = fr.consec /\ fr.consec > 0
    /\ fr.reason = "age" => fr.consec = 0

(* The window st may stamp a body with the devices of cost.                *)
Covers(st, cost) ==
    /\ st # NoState => cost.refreshAt <= st.refreshAt
    /\ st = NoState => ~cost.metrics

(* Where each endpoint may be, and how far the daemon is ahead of what its *)
(* handler has read.                                                       *)
Places ==
    /\ q.at = "idle" => q = Idle
    /\ q.at = "snapshot" => q.ep \in {"health", "signals", "verdict", "window"}
    /\ q.at = "cost" => q.ep \in {"cost", "window"}
    /\ q.at \in {"fresh", "clock"} => q.ep \in {"health", "cost", "window"}
LiveIsAhead ==
    q.at = "cost" =>
      /\ q.st.refreshAt <= state.refreshAt
      /\ q.st.metrics =>
           costState # NoState /\ q.st.refreshes <= costState.refreshes
CostIsAhead ==
    /\ q.at = "fresh" /\ q.ep \in {"cost", "window"} =>
         Covers(costState, q.cost) /\ q.cost.refreshAt <= state.refreshAt
    /\ q.at = "clock" /\ q.ep \in {"cost", "window"} => Covers(q.held.st, q.cost)
BlockKeepsUp ==
    q.at \in {"fresh", "clock"} /\ q.ep = "window" /\ q.st.metrics =>
        q.cost.refreshes >= q.st.refreshes

Serving ==
    /\ IsRequest(q) /\ Places
    /\ LiveIsAhead /\ CostIsAhead /\ BlockKeepsUp
    /\ Explained(q.held) /\ Explains(q.fr)
Answer == StampNeverOverstatesAge /\ WindowCostKeepsUp /\ ReasonMatchesCount

(* The inductive invariant: the daemon's, what the handler in progress     *)
(* knows, and what the client was told.                                    *)
AInv == IInv /\ Serving /\ Answer

-----------------------------------------------------------------------------
(* The fields of a Freshness that the answers depend on.                   *)
LEMMA FreshnessFields ==
  ASSUME NEW h, NEW t
  PROVE  /\ FreshnessAt(h, t).hasData <=> h.st # NoState
         /\ FreshnessAt(h, t).never <=> h.st = NoState
         /\ FreshnessAt(h, t).collectedAt = h.st.refreshAt
         /\ FreshnessAt(h, t).consec = h.consec
  BY DEF FreshnessAt

(* Whenever the clock is read, the reason given matches the count.         *)
LEMMA FreshnessExplains ==
  ASSUME NEW h, Explained(h), NEW t
  PROVE  Explains(FreshnessAt(h, t))
<1> DEFINE fr == FreshnessAt(h, t)
<1>1. ASSUME fr.reason = "own" PROVE h.reason # NoReason /\ fr.why = h.reason
  BY <1>1 DEF FreshnessAt
<1>2. ASSUME fr.reason = "age" PROVE h.reason = NoReason
  BY <1>2 DEF FreshnessAt
<1>3. ASSUME h.reason # NoReason PROVE h.consec > 0
  <2>1. h.reason = [n |-> h.reason.n, cause |-> h.reason.cause]
    BY DEF Explained, Reason
  <2>2. h.reason.n # 0 \/ h.reason.cause # "none"
    BY <1>3, <2>1 DEF NoReason
  <2> QED
    BY <2>2 DEF Explained
<1>4. ASSUME h.reason = NoReason PROVE h.consec = 0
  BY <1>4 DEF Explained, NoReason
<1>5. fr.consec = h.consec
  BY FreshnessFields
<1>6. ASSUME fr.reason = "own" PROVE fr.why.n = fr.consec /\ fr.consec > 0
  <2>1. h.reason.n = h.consec
    BY DEF Explained
  <2> HIDE DEF fr
  <2> QED
    BY <1>1, <1>3, <1>5, <1>6, <2>1
<1>7. ASSUME fr.reason = "age" PROVE fr.consec = 0
  <2> HIDE DEF fr
  <2> QED
    BY <1>2, <1>4, <1>5, <1>7
<1> QED
  BY <1>6, <1>7 DEF Explains

(* No request is in progress: nothing is known, nothing is promised.       *)
LEMMA IdleServing ==
  ASSUME q' = Idle
  PROVE  Serving'
<1>1. Idle.at = "idle" /\ Idle.held = NoHeld /\ Idle.fr = NoFreshness
      /\ Idle.st = NoState /\ Idle.cost = NoState /\ Idle.ep = "health"
  BY DEF Idle
<1>2. Explained(NoHeld)
  BY DEF Explained, NoHeld, NoReason, Reason, Cause
<1>3. Explains(NoFreshness)
  BY <1>2, FreshnessExplains DEF NoFreshness
<1>4. IsRequest(Idle)
  BY <1>1 DEF IsRequest, Idle, NoState
<1> QED
  BY <1>1, <1>2, <1>3, <1>4
  DEF Serving, Places, LiveIsAhead, CostIsAhead, BlockKeepsUp
-----------------------------------------------------------------------------
(* The initial state satisfies the invariant.                              *)
LEMMA InitAInv == APIInit => AInv
<1> SUFFICES ASSUME APIInit PROVE AInv
  OBVIOUS
<1>1. IInv
  BY InitIInv DEF APIInit
<1>2. Serving
  <2>1. Idle.at = "idle" /\ Idle.held = NoHeld /\ Idle.fr = NoFreshness
    BY DEF Idle
  <2>2. Explained(NoHeld)
    BY DEF Explained, NoHeld, NoReason, Reason, Cause
  <2>3. Explains(NoFreshness)
    BY <2>2, FreshnessExplains DEF NoFreshness
  <2>4. IsRequest(Idle)
    BY DEF IsRequest, Idle, NoState
  <2> QED
    BY <2>1, <2>2, <2>3, <2>4
    DEF APIInit, Serving, Places, LiveIsAhead, CostIsAhead, BlockKeepsUp
<1>3. Answer
  <2>1. resp.code = 0 /\ resp.fr = NoFreshness
    BY DEF APIInit, Response
  <2>2. Explained(NoHeld)
    BY DEF Explained, NoHeld, NoReason, Reason, Cause
  <2>3. Explains(NoFreshness)
    BY <2>2, FreshnessExplains DEF NoFreshness
  <2> QED
    BY <2>1, <2>3
    DEF Answer, StampNeverOverstatesAge, WindowCostKeepsUp, ReasonMatchesCount,
        CostBody, Explains
<1> QED
  BY <1>1, <1>2, <1>3 DEF AInv

(* How the daemon moves between two reads of a handler: collection times   *)
(* do not go back, and the cost window is only replaced by a newer one.    *)
LEMMA DaemonMoves ==
  ASSUME IInv, [Next]_vars
  PROVE  /\ state'.refreshAt >= state.refreshAt /\ state'.refreshAt \in Nat
         /\ \/ costState' = costState
            \/ /\ costState' # NoState
               /\ costState'.refreshAt >= state.refreshAt
               /\ costState'.refreshAt \in Nat
               /\ costState'.refreshes \in Nat
               /\ costState'.refreshes > costState.refreshes
<1>1. /\ state.refreshes \in Nat /\ state.refreshAt \in Nat
      /\ costState.refreshes \in Nat
      /\ costState.refreshes <= state.refreshes
  BY StateFields DEF IInv, StreakMeasuresCost
<1>2. CASE UNCHANGED <<state, costState, consecFails>>
  BY <1>1, <1>2
<1>3. ASSUME NEW err, recordMetricsFailure(err)
      PROVE  state' = state /\ costState' = costState
  BY <1>3 DEF recordMetricsFailure
<1>4. ASSUME NEW v \in Verdict, Refresh_Publish(v)
      PROVE  /\ state'.refreshAt >= state.refreshAt /\ state'.refreshAt \in Nat
             /\ \/ costState' = costState
                \/ /\ costState' # NoState
                   /\ costState'.refreshAt >= state.refreshAt
                   /\ costState'.refreshAt \in Nat
                   /\ costState'.refreshes \in Nat
                   /\ costState'.refreshes > costState.refreshes
  <2>1. /\ state'.refreshes = state.refreshes + 1
        /\ state'.refreshAt >= state.refreshAt
        /\ costState' = state' \/ costState' = costState
    BY <1>4, PublishStep
  <2>2. state'.refreshAt \in Nat
    BY <1>4, AtFinish DEF Refresh_Publish, NewState
  <2>3. NoState.refreshes = 0
    BY DEF NoState
  <2> QED
    BY <1>1, <2>1, <2>2, <2>3
<1> QED
  BY <1>1, <1>2, <1>3, <1>4, StepKinds

(* A step of the daemon between two reads.                                 *)
LEMMA DaemonKeepsServing ==
  ASSUME AInv, [Next]_vars, UNCHANGED readers
  PROVE  AInv'
<1>1. IInv'
  BY NextIInv DEF AInv
<1>2. q' = q /\ resp' = resp
  BY DEF readers
<1>3. Answer'
  BY <1>2
  DEF AInv, Answer, StampNeverOverstatesAge, WindowCostKeepsUp,
      ReasonMatchesCount, CostBody
<1>4. /\ state'.refreshAt >= state.refreshAt /\ state'.refreshAt \in Nat
      /\ \/ costState' = costState
         \/ /\ costState' # NoState
            /\ costState'.refreshAt >= state.refreshAt
            /\ costState'.refreshAt \in Nat
            /\ costState'.refreshes \in Nat
            /\ costState'.refreshes > costState.refreshes
  BY DaemonMoves DEF AInv
<1>5. /\ q.st.refreshAt \in Nat /\ q.st.refreshes \in Nat
      /\ q.cost.refreshAt \in Nat
      /\ state.refreshAt \in Nat
      /\ costState.refreshes \in Nat
  BY StateFields DEF AInv, IInv, Serving, IsRequest
<1>6. LiveIsAhead'
  BY <1>2, <1>4, <1>5 DEF AInv, Serving, LiveIsAhead
<1>7. CostIsAhead'
  BY <1>2, <1>4, <1>5 DEF AInv, Serving, CostIsAhead, Covers
<1>8. (IsRequest(q) /\ Places /\ BlockKeepsUp /\ Explained(q.held) /\ Explains(q.fr))'
  BY <1>2 DEF AInv, Serving, Places, BlockKeepsUp
<1> QED
  BY <1>1, <1>3, <1>6, <1>7, <1>8 DEF AInv, Serving

-----------------------------------------------------------------------------
(* The steps of the client and its handler.  They leave the daemon alone.  *)
LEMMA Untouched ==
  ASSUME AInv, UNCHANGED vars, Serving', Answer'
  PROVE  AInv'
  BY NextIInv DEF AInv

(* Without a new answer, what was answered stays right.                    *)
LEMMA SameResponse ==
  ASSUME Answer, UNCHANGED resp
  PROVE  Answer'
  BY DEF Answer, StampNeverOverstatesAge, WindowCostKeepsUp,
         ReasonMatchesCount, CostBody

(* An answer without a stamp: a refusal, a 503, /signals, /verdict.        *)
LEMMA Unstamped ==
  ASSUME NEW code, NEW ep, NEW st, NEW v,
         code # 200 \/ ep \in {"signals", "verdict"},
         Respond(Response(code, ep, st, NoState, NoFreshness, 0, v))
  PROVE  Serving' /\ Answer'
<1>1. /\ resp'.code = code /\ resp'.ep = ep /\ resp'.fr = NoFreshness
  BY DEF Respond, Response
<1>2. Explains(NoFreshness)
  <2>1. Explained(NoHeld)
    BY DEF Explained, NoHeld, NoReason, Reason, Cause
  <2> QED
    BY <2>1, FreshnessExplains DEF NoFreshness
<1>3. Answer'
  BY <1>1, <1>2
  DEF Answer, StampNeverOverstatesAge, WindowCostKeepsUp, ReasonMatchesCount,
      CostBody, Explains
<1> QED
  BY <1>3, IdleServing DEF Respond

(* readOnly: a refusal promises nothing.                                   *)
LEMMA RefuseKeeps ==
  ASSUME NEW ep, Refuse(ep)
  PROVE  Serving' /\ Answer'
  BY Unstamped DEF Refuse

(* A request starts with nothing read.                                     *)
LEMMA RequestKeeps ==
  ASSUME AInv, NEW ep \in Endpoints, Request(ep), UNCHANGED vars
  PROVE  Serving'
<1>1. q = Idle
  BY DEF Request, AInv, Serving, Places
<1>2. /\ q'.at = IF ep = "cost" THEN "cost" ELSE "snapshot"
      /\ q'.ep = ep /\ q'.st = NoState /\ q'.cost = NoState
      /\ q'.held = NoHeld /\ q'.fr = NoFreshness
      /\ q' = [at |-> q'.at, ep |-> q'.ep, st |-> q'.st, cost |-> q'.cost,
               held |-> q'.held, fr |-> q'.fr]
  BY <1>1 DEF Request, Idle
<1>3. NoState.refreshes = 0 /\ NoState.refreshAt = 0 /\ ~NoState.metrics
  BY DEF NoState
<1>4. Explained(NoHeld)
  BY DEF Explained, NoHeld, NoReason, Reason, Cause
<1>5. Explains(NoFreshness)
  BY <1>4, FreshnessExplains DEF NoFreshness
<1>6. IsRequest(q')
  BY <1>2, <1>3 DEF IsRequest
<1>7. Places'
  BY <1>2 DEF Places, Endpoints
<1>8. LiveIsAhead' /\ CostIsAhead' /\ BlockKeepsUp'
  <2>1. state'.refreshAt \in Nat
    BY StateFields DEF AInv, IInv, vars
  <2> QED
    BY <1>2, <1>3, <2>1 DEF LiveIsAhead, CostIsAhead, BlockKeepsUp
<1> QED
  BY <1>2, <1>4, <1>5, <1>6, <1>7, <1>8 DEF Serving

(* The state the handler sees, and the fields of it a proof needs.         *)
LEMMA SeenState ==
  ASSUME AInv, UNCHANGED vars
  PROVE  /\ state' = state /\ costState' = costState
         /\ state.refreshes \in Nat /\ state.refreshAt \in Nat
         /\ costState.refreshes \in Nat /\ costState.refreshAt \in Nat
         /\ costState.refreshes <= state.refreshes
         /\ costState.refreshAt <= state.refreshAt
         /\ costState # NoState => costState.metrics
         /\ state.metrics => costState = state
  BY StateFields
  DEF AInv, IInv, StreakMeasuresCost, CostIsLastMetricsWindow, vars

(* Snapshot: what the handler reads, the daemon is at.                     *)
LEMMA SnapshotKeeps ==
  ASSUME AInv, ReadSnapshot, UNCHANGED vars
  PROVE  Serving' /\ Answer'
<1>1. /\ q = [at |-> q.at, ep |-> q.ep, st |-> q.st, cost |-> q.cost,
              held |-> q.held, fr |-> q.fr]
      /\ q.cost.refreshes \in Nat /\ q.cost.refreshAt \in Nat
      /\ Explained(q.held) /\ Explains(q.fr)
  BY DEF AInv, Serving, IsRequest
<1>2. /\ q.at = "snapshot"
      /\ q.ep \in {"health", "signals", "verdict", "window"}
  BY DEF ReadSnapshot, AInv, Serving, Places
<1>3. CASE q.ep = "health"
  <2>1. q' = [q EXCEPT !.at = "fresh", !.st = state] /\ UNCHANGED resp
    BY <1>3 DEF ReadSnapshot
  <2>2. q' = [at |-> "fresh", ep |-> "health", st |-> state, cost |-> q.cost,
              held |-> q.held, fr |-> q.fr]
    BY <1>1, <1>3, <2>1
  <2>3. IsRequest(q')
    BY <1>1, <2>2, SeenState DEF IsRequest
  <2>4. Serving'
    BY <1>1, <2>2, <2>3
    DEF Serving, Places, LiveIsAhead, CostIsAhead, BlockKeepsUp
  <2> QED
    BY <2>1, <2>4, SameResponse DEF AInv
<1>4. CASE q.ep # "health" /\ state = NoState
  <2>1. Respond(Response(503, q.ep, NoState, NoState, NoFreshness, 0, "none"))
    BY <1>2, <1>4 DEF ReadSnapshot
  <2> QED
    BY <2>1, Unstamped
<1>5. CASE q.ep = "window" /\ state # NoState
  <2>1. q' = [q EXCEPT !.at = "cost", !.st = state] /\ UNCHANGED resp
    BY <1>5 DEF ReadSnapshot
  <2>2. q' = [at |-> "cost", ep |-> "window", st |-> state, cost |-> q.cost,
              held |-> q.held, fr |-> q.fr]
    BY <1>1, <1>5, <2>1
  <2>3. IsRequest(q')
    BY <1>1, <2>2, SeenState DEF IsRequest
  <2>4. LiveIsAhead'
    BY <1>5, <2>2, SeenState DEF LiveIsAhead
  <2>5. Serving'
    BY <1>1, <2>2, <2>3, <2>4
    DEF Serving, Places, CostIsAhead, BlockKeepsUp
  <2> QED
    BY <2>1, <2>5, SameResponse DEF AInv
<1>6. CASE q.ep = "signals" /\ state # NoState
  <2>1. Respond(Response(200, q.ep, state, NoState, NoFreshness, 0, "none"))
    BY <1>6 DEF ReadSnapshot
  <2> QED
    BY <1>6, <2>1, Unstamped
<1>7. CASE q.ep = "verdict" /\ state # NoState
  <2>1. Respond(Response(200, q.ep, state, NoState, NoFreshness, 0,
                         marshalVerdict(state)))
    BY <1>7 DEF ReadSnapshot
  <2> QED
    BY <1>7, <2>1, Unstamped
<1> QED
  BY <1>2, <1>3, <1>4, <1>5, <1>6, <1>7

(* CostSnapshot: the window read here is covered by any later cost window. *)
LEMMA CostKeeps ==
  ASSUME AInv, ReadCost, UNCHANGED vars
  PROVE  Serving' /\ Answer'
<1> DEFINE cost == IF costState = NoState THEN q.st ELSE costState
<1>1. /\ q = [at |-> q.at, ep |-> q.ep, st |-> q.st, cost |-> q.cost,
              held |-> q.held, fr |-> q.fr]
      /\ q.st.refreshes \in Nat /\ q.st.refreshAt \in Nat
      /\ Explained(q.held) /\ Explains(q.fr)
  BY DEF AInv, Serving, IsRequest
<1>2. /\ q.at = "cost" /\ q.ep \in {"cost", "window"}
      /\ q.st.refreshAt <= state.refreshAt
      /\ q.st.metrics =>
           costState # NoState /\ q.st.refreshes <= costState.refreshes
  BY DEF ReadCost, AInv, Serving, Places, LiveIsAhead
<1>3. q' = [at |-> "fresh", ep |-> q.ep, st |-> q.st, cost |-> cost,
            held |-> q.held, fr |-> q.fr]
  BY <1>1 DEF ReadCost
<1>4. /\ cost.refreshes \in Nat /\ cost.refreshAt \in Nat
      /\ cost.refreshAt <= state.refreshAt
      /\ Covers(costState, cost)
      /\ q.st.metrics => cost.refreshes >= q.st.refreshes
  BY <1>1, <1>2, SeenState DEF Covers
<1> HIDE DEF cost
<1>5. IsRequest(q')
  BY <1>1, <1>3, <1>4 DEF IsRequest
<1>6. CostIsAhead' /\ BlockKeepsUp'
  BY <1>3, <1>4, SeenState DEF CostIsAhead, BlockKeepsUp
<1>7. Serving'
  BY <1>1, <1>2, <1>3, <1>5, <1>6 DEF Serving, Places, LiveIsAhead
<1> QED
  BY <1>7, SameResponse DEF AInv, ReadCost

(* Freshness, under the lock: window, count and reason of one moment.      *)
LEMMA LockedKeeps ==
  ASSUME AInv, FreshnessLocked, UNCHANGED vars
  PROVE  Serving' /\ Answer'
<1> DEFINE held == [st |-> costState, consec |-> consecFails,
                    reason |-> lastReason]
<1>1. /\ q = [at |-> q.at, ep |-> q.ep, st |-> q.st, cost |-> q.cost,
              held |-> q.held, fr |-> q.fr]
      /\ IsRequest(q) /\ Explains(q.fr)
      /\ q.at = "fresh" /\ q.ep \in {"health", "cost", "window"}
      /\ q.ep \in {"cost", "window"} => Covers(costState, q.cost)
      /\ q.ep = "window" /\ q.st.metrics => q.cost.refreshes >= q.st.refreshes
  BY DEF AInv, Serving, IsRequest, FreshnessLocked, Places, CostIsAhead,
         BlockKeepsUp
<1>2. q' = [at |-> "clock", ep |-> q.ep, st |-> q.st, cost |-> q.cost,
            held |-> held, fr |-> q.fr]
  BY <1>1 DEF FreshnessLocked
<1>3. Explained(held)
  BY DEF AInv, IInv, TypeOK, ReasonExplainsStreak, Explained
<1>4. held.st = costState
  OBVIOUS
<1> HIDE DEF held
<1>5. IsRequest(q')
  BY <1>1, <1>2 DEF IsRequest
<1>6. Places' /\ LiveIsAhead' /\ CostIsAhead' /\ BlockKeepsUp'
  BY <1>1, <1>2, <1>4 DEF Places, LiveIsAhead, CostIsAhead, BlockKeepsUp
<1>7. Serving'
  <2>1. q'.held = held /\ q'.fr = q.fr
    BY <1>2
  <2> QED
    BY <1>1, <1>3, <1>5, <1>6, <2>1 DEF Serving
<1> QED
  BY <1>7, SameResponse DEF AInv, FreshnessLocked

(* Freshness, after the unlock: what was covered when the lock was held is *)
(* what the client is told.                                                *)
LEMMA VerdictKeeps ==
  ASSUME AInv, FreshnessVerdict, UNCHANGED vars
  PROVE  Serving' /\ Answer'
<1> DEFINE fr == FreshnessAt(q.held, clock)
<1>1. /\ q = [at |-> q.at, ep |-> q.ep, st |-> q.st, cost |-> q.cost,
              held |-> q.held, fr |-> q.fr]
      /\ IsRequest(q) /\ Explained(q.held)
      /\ q.at = "clock" /\ q.ep \in {"health", "cost", "window"}
      /\ q.ep \in {"cost", "window"} => Covers(q.held.st, q.cost)
      /\ q.ep = "window" /\ q.st.metrics => q.cost.refreshes >= q.st.refreshes
  BY DEF AInv, Serving, IsRequest, FreshnessVerdict, Places, CostIsAhead,
         BlockKeepsUp
<1>2. /\ Explains(fr)
      /\ fr.hasData <=> q.held.st # NoState
      /\ fr.never <=> q.held.st = NoState
      /\ fr.collectedAt = q.held.st.refreshAt
  BY <1>1, FreshnessExplains, FreshnessFields
<1>3. CASE q.ep = "health"
  <2>1. q' = [q EXCEPT !.at = "errs", !.fr = fr] /\ UNCHANGED resp
    BY <1>3 DEF FreshnessVerdict
  <2> HIDE DEF fr
  <2>2. q' = [at |-> "errs", ep |-> "health", st |-> q.st, cost |-> q.cost,
              held |-> q.held, fr |-> fr]
    BY <1>1, <1>3, <2>1
  <2>3. IsRequest(q')
    BY <1>1, <2>2 DEF IsRequest
  <2>4. Serving'
    BY <1>1, <1>2, <2>2, <2>3
    DEF Serving, Places, LiveIsAhead, CostIsAhead, BlockKeepsUp
  <2> QED
    BY <2>1, <2>4, SameResponse DEF AInv
<1>4. CASE q.ep = "cost"
  <2>1. Respond(Response(200, "cost", NoState, q.cost, fr, 0, "none"))
    BY <1>4 DEF FreshnessVerdict
  <2> HIDE DEF fr
  <2>2. /\ resp'.ep = "cost" /\ resp'.cost = q.cost /\ resp'.fr = fr
    BY <2>1 DEF Respond, Response
  <2>3. Answer'
    BY <1>1, <1>2, <1>4, <2>2
    DEF Answer, StampNeverOverstatesAge, WindowCostKeepsUp,
        ReasonMatchesCount, CostBody, Covers, Explains
  <2> QED
    BY <2>1, <2>3, IdleServing DEF Respond
<1>5. CASE q.ep = "window"
  <2>1. Respond(Response(200, "window", q.st, q.cost, fr, 0,
                         marshalVerdict(q.st)))
    BY <1>5 DEF FreshnessVerdict
  <2> HIDE DEF fr
  <2>2. /\ resp'.ep = "window" /\ resp'.st = q.st /\ resp'.cost = q.cost
        /\ resp'.fr = fr
    BY <2>1 DEF Respond, Response
  <2>3. Answer'
    BY <1>1, <1>2, <1>5, <2>2
    DEF Answer, StampNeverOverstatesAge, WindowCostKeepsUp,
        ReasonMatchesCount, CostBody, Covers, Explains
  <2> QED
    BY <2>1, <2>3, IdleServing DEF Respond
<1> QED
  BY <1>1, <1>3, <1>4, <1>5

(* Errs: /healthz passes on the stamp it computed.                         *)
LEMMA ErrsKeeps ==
  ASSUME AInv, ReadErrs
  PROVE  Serving' /\ Answer'
<1>1. Explains(q.fr)
  BY DEF AInv, Serving
<1>2. resp'.ep = "health" /\ resp'.fr = q.fr
  BY DEF ReadErrs, Respond, Response
<1>3. Answer'
  BY <1>1, <1>2
  DEF Answer, StampNeverOverstatesAge, WindowCostKeepsUp, ReasonMatchesCount,
      CostBody, Explains
<1> QED
  BY <1>3, IdleServing DEF ReadErrs, Respond

-----------------------------------------------------------------------------
(* Every step, of the daemon or of the client, preserves the invariant.    *)
LEMMA NextAInv == AInv /\ [APINext]_apiVars => AInv'
<1> SUFFICES ASSUME AInv, [APINext]_apiVars PROVE AInv'
  OBVIOUS
<1>1. CASE (Next \/ UNCHANGED vars) /\ UNCHANGED readers
  BY <1>1, DaemonKeepsServing
<1>2. ASSUME NEW ep \in Requested, Request(ep), UNCHANGED vars PROVE AInv'
  <2>1. ep \in Endpoints
    BY RequestedAssumption
  <2>2. Answer'
    BY <1>2, SameResponse DEF Request, AInv
  <2> QED
    BY <1>2, <2>1, <2>2, RequestKeeps, Untouched
<1>3. ASSUME NEW ep \in Requested, Refuse(ep), UNCHANGED vars PROVE AInv'
  BY <1>3, RefuseKeeps, Untouched
<1>4. CASE Handler /\ UNCHANGED vars
  BY <1>4, SnapshotKeeps, CostKeeps, LockedKeeps, VerdictKeeps, ErrsKeeps,
     Untouched DEF Handler
<1> QED
  BY <1>1, <1>2, <1>3, <1>4 DEF APINext, Client, apiVars, readers, vars

(* The invariant holds of every behaviour of daemon and client.            *)
LEMMA AlwaysAInv == APISpec => []AInv
  BY InitAInv, NextAInv, PTL DEF APISpec

(* Devices and stamp of /cost and /window come from two critical sections, *)
(* and the daemon publishes in between; still the stamp never makes the    *)
(* devices look older than they are.                                       *)
THEOREM StampIsNoOlder == APISpec => []StampNeverOverstatesAge
<1>1. AInv => StampNeverOverstatesAge
  BY DEF AInv, Answer
<1> QED
  BY <1>1, AlwaysAInv, PTL

(* /window never shows a device-bearing window above an older cost block.  *)
THEOREM BlockIsNoOlder == APISpec => []WindowCostKeepsUp
<1>1. AInv => WindowCostKeepsUp
  BY DEF AInv, Answer
<1> QED
  BY <1>1, AlwaysAInv, PTL

(* Count and reason of one answer are of one moment.                       *)
THEOREM ReasonIsOfTheCount == APISpec => []ReasonMatchesCount
<1>1. AInv => ReasonMatchesCount
  BY DEF AInv, Answer
<1> QED
  BY <1>1, AlwaysAInv, PTL

-----------------------------------------------------------------------------
(* A client that asks again.  The daemon is at least as far as the windows *)
(* st and cost and the collection time at, which an answer to ep carries.  *)
Behind(live, block, ep, st, cost, at) ==
    /\ st.refreshes \in Nat /\ st.refreshes <= live.refreshes
    /\ cost.refreshes \in Nat /\ cost.refreshes <= live.refreshes
    /\ block # NoState => cost.refreshes <= block.refreshes
    /\ cost.metrics => block # NoState
    /\ ep = "cost" => st = NoState /\ (block = NoState => cost = NoState)
    /\ at \in Nat /\ at <= block.refreshAt

(* What the client has been told, and what the handler has read, is behind *)
(* the daemon; what an endpoint does not report stays empty.               *)
Told ==
    resp.code = 200 =>
      /\ Behind(state, costState, resp.ep, resp.st, resp.cost, resp.fr.collectedAt)
      /\ resp.ep \in {"health", "signals", "verdict"} => resp.cost = NoState
      /\ resp.ep \in {"signals", "verdict"} => resp.fr.collectedAt = 0
      /\ resp.errors \in Nat /\ resp.errors <= errs
      /\ resp.ep # "health" => resp.errors = 0
Known ==
    /\ Behind(state, costState, q.ep, q.st, q.cost, q.fr.collectedAt)
    /\ q.held.st.refreshAt \in Nat /\ q.held.st.refreshAt <= costState.refreshAt
    /\ q.at = "errs" => q.ep = "health"

(* What the handler has read for an endpoint is not older than what the    *)
(* client was last told by it.                                             *)
Outdone ==
    resp.code = 200 /\ q.ep = resp.ep =>
      /\ q.at \in {"cost", "fresh", "clock", "errs"} =>
           q.st.refreshes >= resp.st.refreshes
      /\ q.at = "cost" /\ q.ep = "window" => q.st.refreshes >= resp.cost.refreshes
      /\ q.at \in {"fresh", "clock"} /\ q.ep \in {"cost", "window"} =>
           /\ q.cost.refreshes >= resp.cost.refreshes
           /\ resp.cost.metrics => q.cost.metrics
      /\ q.at = "clock" => q.held.st.refreshAt >= resp.fr.collectedAt
      /\ q.at = "errs" => q.fr.collectedAt >= resp.fr.collectedAt

RInv == AInv /\ Told /\ Known /\ Outdone

(* One answer after another.                                               *)
Monotone(old, new) ==
    new.code = 200 /\ old.code = 200 /\ new.ep = old.ep =>
      /\ new.st.refreshes >= old.st.refreshes
      /\ new.cost.refreshes >= old.cost.refreshes
      /\ new.fr.collectedAt >= old.fr.collectedAt
      /\ new.errors >= old.errors
      /\ old.cost.metrics => new.cost.metrics

(* Nothing is behind anything.                                             *)
LEMMA NothingIsBehind ==
  ASSUME IInv, NEW ep
  PROVE  Behind(state, costState, ep, NoState, NoState, 0)
<1>1. NoState.refreshes = 0 /\ NoState.refreshAt = 0 /\ ~NoState.metrics
  BY DEF NoState
<1> QED
  BY <1>1, StateFields DEF Behind, IInv

(* The daemon only gets further ahead.                                     *)
LEMMA DaemonAdvances ==
  ASSUME IInv, [Next]_vars
  PROVE  /\ state.refreshes \in Nat /\ state'.refreshes \in Nat
         /\ state'.refreshes >= state.refreshes
         /\ errs \in Nat /\ errs' \in Nat /\ errs' >= errs
         /\ costState.refreshAt \in Nat
         /\ \/ costState' = costState
            \/ /\ costState' # NoState
               /\ costState'.refreshes = state'.refreshes
               /\ costState'.refreshAt \in Nat
               /\ costState'.refreshAt >= costState.refreshAt
<1>1. /\ state.refreshes \in Nat /\ costState.refreshAt \in Nat
      /\ state.refreshAt \in Nat
      /\ costState.refreshAt <= state.refreshAt
      /\ errs \in Nat
  BY StateFields DEF IInv, TypeOK, CostIsLastMetricsWindow
<1>2. errs' \in Nat /\ errs' >= errs
  <2>1. CASE Refresh_AllFailed \/ \E err \in {"normalize", "cost"} : Refresh_HardErr(err)
    BY <1>1, <2>1 DEF Refresh_AllFailed, Refresh_HardErr, recordMetricsFailure
  <2>2. CASE \E e \in {"error", "capped"} : Refresh_CollectErr(e)
    BY <1>1, <2>2 DEF Refresh_CollectErr
  <2>3. CASE \/ Run_Start \/ Run_Tick \/ Run_Done \/ Refresh_Check
             \/ \E a \in {"metrics", "events", "truncated"} : Refresh_Answer(a)
             \/ \E v \in Verdict : Refresh_Publish(v)
             \/ ClockTick \/ TickerFires \/ Cancel \/ UNCHANGED vars
    <3>1. errs' = errs
      BY <2>3
      DEF Run_Start, Run_Tick, Run_Done, Refresh_Check, Refresh_Answer,
          Refresh_Publish, ClockTick, TickerFires, Cancel, vars, mu
    <3> QED
      BY <1>1, <3>1
  <2> QED
    BY <2>1, <2>2, <2>3 DEF Next, Run, Refresh
<1>3. CASE UNCHANGED <<state, costState, consecFails>>
  BY <1>1, <1>2, <1>3
<1>4. ASSUME NEW err, recordMetricsFailure(err)
      PROVE  state' = state /\ costState' = costState
  BY <1>4 DEF recordMetricsFailure
<1>5. ASSUME NEW v \in Verdict, Refresh_Publish(v)
      PROVE  /\ state'.refreshes \in Nat
             /\ state'.refreshes >= state.refreshes
             /\ \/ costState' = costState
                \/ /\ costState' # NoState
                   /\ costState'.refreshes = state'.refreshes
                   /\ costState'.refreshAt \in Nat
                   /\ costState'.refreshAt >= costState.refreshAt
  <2>1. /\ state'.refreshes = state.refreshes + 1
        /\ state'.refreshAt >= state.refreshAt
        /\ costState' = state' \/ costState' = costState
    BY <1>5, PublishStep
  <2>2. state'.refreshAt \in Nat
    BY <1>5, AtFinish DEF Refresh_Publish, NewState
  <2>3. NoState.refreshes = 0
    BY DEF NoState
  <2> QED
    BY <1>1, <2>1, <2>2, <2>3
<1> QED
  BY <1>1, <1>2, <1>3, <1>4, <1>5, StepKinds

(* What was behind the daemon stays behind it.                             *)
LEMMA BehindStays ==
  ASSUME IInv, [Next]_vars, NEW ep, NEW st, NEW cost, NEW at,
         Behind(state, costState, ep, st, cost, at)
  PROVE  Behind(state', costState', ep, st, cost, at)
  BY DaemonAdvances DEF Behind

(* A step of the daemon between two reads.                                 *)
LEMMA DaemonKeepsRead ==
  ASSUME RInv, [Next]_vars, UNCHANGED readers
  PROVE  Told' /\ Known' /\ Outdone'
<1>1. q' = q /\ resp' = resp
  BY DEF readers
<1>2. /\ errs \in Nat /\ errs' \in Nat /\ errs' >= errs
      /\ costState.refreshAt \in Nat /\ costState'.refreshAt \in Nat
      /\ costState'.refreshAt >= costState.refreshAt
  BY DaemonAdvances DEF RInv, AInv
<1>3. Told'
  BY <1>1, <1>2, BehindStays DEF RInv, AInv, Told
<1>4. Known'
  BY <1>1, <1>2, BehindStays DEF RInv, AInv, Known
<1>5. Outdone'
  BY <1>1 DEF RInv, Outdone
<1> QED
  BY <1>3, <1>4, <1>5

-----------------------------------------------------------------------------
(* The empty stamp and the empty request.                                  *)
LEMMA NothingRead ==
  /\ NoState.refreshes = 0 /\ NoState.refreshAt = 0 /\ ~NoState.metrics
  /\ NoFreshness.collectedAt = 0
  /\ Idle.at = "idle" /\ Idle.st = NoState /\ Idle.cost = NoState
  /\ Idle.held.st = NoState /\ Idle.fr = NoFreshness
<1>1. NoState.refreshes = 0 /\ NoState.refreshAt = 0 /\ ~NoState.metrics
  BY DEF NoState
<1>2. NoFreshness.collectedAt = 0
  BY <1>1, FreshnessFields DEF NoFreshness, NoHeld
<1> QED
  BY <1>1, <1>2 DEF Idle, NoHeld

(* An idle handler knows nothing.                                          *)
LEMMA IdleKnowsNothing ==
  ASSUME IInv, UNCHANGED vars, q' = Idle
  PROVE  Known' /\ Outdone'
<1>1. state' = state /\ costState' = costState
  BY DEF vars, mu
<1>2. costState.refreshAt \in Nat
  BY StateFields DEF IInv
<1>3. Known'
  BY <1>1, <1>2, NothingRead, NothingIsBehind DEF Known
<1> QED
  BY <1>3, NothingRead DEF Outdone

(* A refusal or a 503 tells nothing.                                       *)
LEMMA UnansweredRead ==
  ASSUME RInv, UNCHANGED vars, NEW code, code # 200, NEW ep,
         Respond(Response(code, ep, NoState, NoState, NoFreshness, 0, "none"))
  PROVE  Told' /\ Known' /\ Outdone' /\ Monotone(resp, resp')
<1>1. resp'.code # 200 /\ q' = Idle
  BY DEF Respond, Response
<1> QED
  BY <1>1, IdleKnowsNothing DEF RInv, AInv, Told, Monotone

(* A request starts with nothing read.                                     *)
LEMMA RequestRead ==
  ASSUME RInv, UNCHANGED vars, NEW ep \in Endpoints, Request(ep)
  PROVE  Told' /\ Known' /\ Outdone' /\ Monotone(resp, resp')
<1>1. q = Idle /\ resp' = resp
  BY DEF Request, RInv, AInv, Serving, Places
<1>2. /\ q'.at = IF ep = "cost" THEN "cost" ELSE "snapshot"
      /\ q'.ep = ep /\ q'.st = NoState /\ q'.cost = NoState
      /\ q'.held.st = NoState /\ q'.fr = NoFreshness
  BY <1>1 DEF Request, Idle, NoHeld
<1>3. /\ state' = state /\ costState' = costState /\ errs' = errs
      /\ costState.refreshAt \in Nat
  BY StateFields DEF RInv, AInv, IInv, vars, mu
<1>4. Told'
  BY <1>1, <1>3 DEF RInv, Told
<1>5. Known'
  BY <1>2, <1>3, NothingRead, NothingIsBehind DEF RInv, AInv, Known
<1>6. Outdone'
  <2>1. resp.code = 200 /\ resp.ep = "cost" => resp.st.refreshes = 0
    BY NothingRead DEF RInv, Told, Behind
  <2>2. q'.st.refreshes = 0
    BY <1>2, NothingRead
  <2> QED
    BY <1>1, <1>2, <2>1, <2>2 DEF Outdone
<1>7. Monotone(resp, resp')
  <2>1. resp.code = 200 => /\ resp.st.refreshes \in Nat /\ resp.cost.refreshes \in Nat
                          /\ resp.fr.collectedAt \in Nat /\ resp.errors \in Nat
    BY DEF RInv, Told, Behind
  <2> QED
    BY <1>1, <2>1 DEF Monotone
<1> QED
  BY <1>4, <1>5, <1>6, <1>7

(* The response does not change while a handler reads.                     *)
LEMMA SameTold ==
  ASSUME RInv, UNCHANGED vars, UNCHANGED resp
  PROVE  Told' /\ Monotone(resp, resp')
<1>1. state' = state /\ costState' = costState /\ errs' = errs
  BY DEF vars, mu
<1>2. resp.code = 200 => /\ resp.st.refreshes \in Nat /\ resp.cost.refreshes \in Nat
                        /\ resp.fr.collectedAt \in Nat /\ resp.errors \in Nat
  BY DEF RInv, Told, Behind
<1>3. Told'
  BY <1>1 DEF RInv, Told
<1> QED
  BY <1>2, <1>3 DEF Monotone

(* What the proofs below use of the last response.                         *)
LEMMA LastTold ==
  ASSUME RInv, resp.code = 200
  PROVE  /\ resp.st.refreshes \in Nat /\ resp.st.refreshes <= state.refreshes
         /\ resp.cost.refreshes \in Nat /\ resp.cost.refreshes <= state.refreshes
         /\ costState # NoState => resp.cost.refreshes <= costState.refreshes
         /\ resp.cost.metrics => costState # NoState
         /\ resp.ep = "cost" => /\ resp.st = NoState
                                /\ costState = NoState => resp.cost = NoState
         /\ resp.fr.collectedAt \in Nat
         /\ resp.fr.collectedAt <= costState.refreshAt
         /\ resp.errors \in Nat /\ resp.errors <= errs
         /\ resp.ep # "health" => resp.errors = 0
         /\ resp.ep \in {"health", "signals", "verdict"} => resp.cost = NoState
         /\ resp.ep \in {"signals", "verdict"} => resp.fr.collectedAt = 0
  BY DEF RInv, Told, Behind

(* Snapshot: the live window, which no answer was ahead of.                *)
LEMMA SnapshotRead ==
  ASSUME RInv, UNCHANGED vars, ReadSnapshot
  PROVE  Told' /\ Known' /\ Outdone' /\ Monotone(resp, resp')
<1>1. /\ state' = state /\ costState' = costState /\ errs' = errs
      /\ state.refreshes \in Nat /\ costState.refreshAt \in Nat
      /\ errs \in Nat
  BY StateFields DEF RInv, AInv, IInv, TypeOK, vars, mu
<1>2. /\ q = [at |-> q.at, ep |-> q.ep, st |-> q.st, cost |-> q.cost,
              held |-> q.held, fr |-> q.fr]
      /\ q.at = "snapshot"
      /\ q.ep \in {"health", "signals", "verdict", "window"}
  BY DEF ReadSnapshot, RInv, AInv, Serving, IsRequest, Places
<1>3. CASE q.ep = "health" \/ (q.ep = "window" /\ state # NoState)
  <2>1. /\ q' = [q EXCEPT !.at = IF q.ep = "health" THEN "fresh" ELSE "cost",
                          !.st = state]
        /\ UNCHANGED resp
    BY <1>3 DEF ReadSnapshot
  <2>2. /\ q'.at = IF q.ep = "health" THEN "fresh" ELSE "cost"
        /\ q'.ep = q.ep /\ q'.st = state /\ q'.cost = q.cost
        /\ q'.held = q.held /\ q'.fr = q.fr
    BY <1>2, <2>1
  <2>3. Known'
    BY <1>1, <1>3, <2>2 DEF RInv, Known, Behind
  <2>4. Outdone'
    BY <1>1, <1>3, <2>1, <2>2, LastTold DEF Outdone
  <2> QED
    BY <2>1, <2>3, <2>4, SameTold
<1>4. CASE q.ep # "health" /\ state = NoState
  <2>1. Respond(Response(503, q.ep, NoState, NoState, NoFreshness, 0, "none"))
    BY <1>2, <1>4 DEF ReadSnapshot
  <2> QED
    BY <2>1, UnansweredRead
<1>5. CASE q.ep \in {"signals", "verdict"} /\ state # NoState
  <2>1. \E v : Respond(Response(200, q.ep, state, NoState, NoFreshness, 0, v))
    BY <1>5 DEF ReadSnapshot
  <2>2. /\ q' = Idle
        /\ resp'.code = 200 /\ resp'.ep = q.ep /\ resp'.st = state
        /\ resp'.cost = NoState /\ resp'.fr = NoFreshness /\ resp'.errors = 0
    BY <2>1 DEF Respond, Response
  <2>3. Behind(state, costState, q.ep, state, NoState, 0)
    BY <1>1, <1>5, NothingRead, NothingIsBehind DEF RInv, AInv, Behind
  <2>4. Told'
    BY <1>1, <1>5, <2>2, <2>3, NothingRead DEF Told
  <2>5. Monotone(resp, resp')
    BY <1>1, <1>5, <2>2, LastTold, NothingRead DEF Monotone
  <2> QED
    BY <2>2, <2>4, <2>5, IdleKnowsNothing DEF RInv, AInv
<1> QED
  BY <1>2, <1>3, <1>4, <1>5

(* CostSnapshot: the held cost window, or the window read just before.     *)
LEMMA CostRead ==
  ASSUME RInv, UNCHANGED vars, ReadCost
  PROVE  Told' /\ Known' /\ Outdone' /\ Monotone(resp, resp')
<1> DEFINE cost == IF costState = NoState THEN q.st ELSE costState
<1>1. /\ state' = state /\ costState' = costState /\ errs' = errs
      /\ state.refreshes \in Nat /\ costState.refreshes \in Nat
      /\ costState.refreshAt \in Nat /\ costState.refreshes <= state.refreshes
      /\ costState # NoState => costState.metrics
  BY SeenState DEF RInv, AInv, IInv, TypeOK, vars, mu
<1>2. /\ q = [at |-> q.at, ep |-> q.ep, st |-> q.st, cost |-> q.cost,
              held |-> q.held, fr |-> q.fr]
      /\ q.at = "cost" /\ q.ep \in {"cost", "window"}
      /\ q.st.metrics => costState # NoState
  BY DEF ReadCost, RInv, AInv, Serving, IsRequest, Places, LiveIsAhead
<1>3. /\ q'.at = "fresh" /\ q'.ep = q.ep /\ q'.st = q.st /\ q'.cost = cost
      /\ q'.held = q.held /\ q'.fr = q.fr /\ resp' = resp
  BY <1>2 DEF ReadCost
<1>4. Behind(state, costState, q.ep, q.st, cost, q.fr.collectedAt)
  BY <1>1, <1>2 DEF RInv, Known, Behind
<1>5. ASSUME resp.code = 200, q.ep = resp.ep
      PROVE  /\ cost.refreshes >= resp.cost.refreshes
             /\ resp.cost.metrics => cost.metrics
  <2>1. q.ep = "window" => q.st.refreshes >= resp.cost.refreshes
    BY <1>2, <1>5 DEF RInv, Outdone
  <2>2. costState = NoState /\ q.ep = "cost" => resp.cost = NoState /\ q.st = NoState
    BY <1>5, LastTold DEF RInv, Known, Behind
  <2>3. costState # NoState => resp.cost.refreshes <= costState.refreshes
    BY <1>5, LastTold
  <2>4. resp.cost.metrics => costState # NoState
    BY <1>5, LastTold
  <2> QED
    BY <1>1, <1>2, <2>1, <2>2, <2>3, <2>4, NothingRead
<1> HIDE DEF cost
<1>6. Known'
  BY <1>1, <1>3, <1>4 DEF RInv, Known
<1>7. Outdone'
  BY <1>2, <1>3, <1>5 DEF RInv, Outdone
<1> QED
  BY <1>3, <1>6, <1>7, SameTold

(* Freshness, under the lock.                                              *)
LEMMA LockedRead ==
  ASSUME RInv, UNCHANGED vars, FreshnessLocked
  PROVE  Told' /\ Known' /\ Outdone' /\ Monotone(resp, resp')
<1>1. /\ state' = state /\ costState' = costState
      /\ costState.refreshAt \in Nat
  BY SeenState DEF RInv, AInv
<1>2. /\ q = [at |-> q.at, ep |-> q.ep, st |-> q.st, cost |-> q.cost,
              held |-> q.held, fr |-> q.fr]
      /\ q.at = "fresh"
  BY DEF FreshnessLocked, RInv, AInv, Serving, IsRequest
<1>3. /\ q'.at = "clock" /\ q'.ep = q.ep /\ q'.st = q.st /\ q'.cost = q.cost
      /\ q'.held.st = costState /\ q'.fr = q.fr /\ resp' = resp
  BY <1>2 DEF FreshnessLocked
<1>4. Known'
  BY <1>1, <1>3 DEF RInv, Known
<1>5. Outdone'
  BY <1>2, <1>3, LastTold DEF RInv, Outdone
<1> QED
  BY <1>3, <1>4, <1>5, SameTold

(* Freshness, after the unlock: /cost and /window are answered.            *)
LEMMA VerdictRead ==
  ASSUME RInv, UNCHANGED vars, FreshnessVerdict
  PROVE  Told' /\ Known' /\ Outdone' /\ Monotone(resp, resp')
<1> DEFINE fr == FreshnessAt(q.held, clock)
<1>1. /\ state' = state /\ costState' = costState /\ errs' = errs
      /\ errs \in Nat
  BY DEF RInv, AInv, IInv, TypeOK, vars, mu
<1>2. /\ q = [at |-> q.at, ep |-> q.ep, st |-> q.st, cost |-> q.cost,
              held |-> q.held, fr |-> q.fr]
      /\ q.at = "clock" /\ q.ep \in {"health", "cost", "window"}
  BY DEF FreshnessVerdict, RInv, AInv, Serving, IsRequest, Places
<1>3. fr.collectedAt = q.held.st.refreshAt
  BY FreshnessFields
<1>4. Behind(state, costState, q.ep, q.st, q.cost, fr.collectedAt)
  BY <1>3 DEF RInv, Known, Behind
<1>5. ASSUME resp.code = 200, q.ep = resp.ep
      PROVE  /\ q.st.refreshes >= resp.st.refreshes
             /\ q.ep \in {"cost", "window"} =>
                  /\ q.cost.refreshes >= resp.cost.refreshes
                  /\ resp.cost.metrics => q.cost.metrics
             /\ fr.collectedAt >= resp.fr.collectedAt
  BY <1>2, <1>3, <1>5 DEF RInv, Outdone
<1>6. CASE q.ep = "health"
  <2>1. q' = [q EXCEPT !.at = "errs", !.fr = fr] /\ UNCHANGED resp
    BY <1>6 DEF FreshnessVerdict
  <2> HIDE DEF fr
  <2>2. /\ q'.at = "errs" /\ q'.ep = q.ep /\ q'.st = q.st /\ q'.cost = q.cost
        /\ q'.held = q.held /\ q'.fr = fr
    BY <1>2, <2>1
  <2>3. Known'
    BY <1>1, <1>4, <1>6, <2>2 DEF RInv, Known
  <2>4. Outdone'
    BY <1>5, <1>6, <2>1, <2>2 DEF Outdone
  <2> QED
    BY <2>1, <2>3, <2>4, SameTold
<1>7. CASE q.ep \in {"cost", "window"}
  <2> DEFINE st == IF q.ep = "cost" THEN NoState ELSE q.st
  <2>1. \E v : Respond(Response(200, q.ep, st, q.cost, fr, 0, v))
    <3>1. CASE q.ep = "cost"
      <4>1. Respond(Response(200, "cost", NoState, q.cost, fr, 0, "none"))
        BY <3>1 DEF FreshnessVerdict
      <4> HIDE DEF fr
      <4> QED
        BY <3>1, <4>1
    <3>2. CASE q.ep = "window"
      <4>1. Respond(Response(200, "window", q.st, q.cost, fr, 0,
                             marshalVerdict(q.st)))
        BY <3>2 DEF FreshnessVerdict
      <4> HIDE DEF fr
      <4> QED
        BY <3>2, <4>1
    <3> QED
      BY <1>7, <3>1, <3>2
  <2>2. st = q.st
    BY DEF RInv, Known, Behind
  <2> HIDE DEF fr, st
  <2>3. /\ q' = Idle
        /\ resp'.code = 200 /\ resp'.ep = q.ep /\ resp'.st = q.st
        /\ resp'.cost = q.cost /\ resp'.fr = fr /\ resp'.errors = 0
    BY <2>1, <2>2 DEF Respond, Response
  <2>4. Told'
    BY <1>1, <1>4, <1>7, <2>3 DEF Told
  <2>5. Monotone(resp, resp')
    BY <1>5, <1>7, <2>3, LastTold DEF Monotone
  <2> QED
    BY <2>3, <2>4, <2>5, IdleKnowsNothing DEF RInv, AInv
<1> QED
  BY <1>2, <1>6, <1>7

(* Errs: /healthz is answered.                                             *)
LEMMA ErrsRead ==
  ASSUME RInv, UNCHANGED vars, ReadErrs
  PROVE  Told' /\ Known' /\ Outdone' /\ Monotone(resp, resp')
<1>1. /\ state' = state /\ costState' = costState /\ errs' = errs
      /\ errs \in Nat
  BY DEF RInv, AInv, IInv, TypeOK, vars, mu
<1>2. /\ q' = Idle
      /\ resp'.code = 200 /\ resp'.ep = "health" /\ resp'.st = q.st
      /\ resp'.cost = NoState /\ resp'.fr = q.fr /\ resp'.errors = errs
  BY DEF ReadErrs, Respond, Response
<1>3. q.at = "errs" /\ q.ep = "health"
  BY DEF ReadErrs, RInv, Known
<1>4. Behind(state, costState, "health", q.st, NoState, q.fr.collectedAt)
  BY NothingIsBehind DEF RInv, AInv, Known, Behind
<1>5. Told'
  BY <1>1, <1>2, <1>4 DEF Told
<1>6. Monotone(resp, resp')
  <2>1. ASSUME resp.code = 200, resp.ep = "health"
        PROVE  /\ q.st.refreshes >= resp.st.refreshes
               /\ q.fr.collectedAt >= resp.fr.collectedAt
               /\ errs >= resp.errors
               /\ resp.cost = NoState
    BY <1>1, <1>3, <2>1, LastTold DEF RInv, Outdone
  <2> QED
    BY <1>2, <2>1, NothingRead DEF Monotone
<1> QED
  BY <1>2, <1>5, <1>6, IdleKnowsNothing DEF RInv, AInv

(* Nothing has been told or read at the start.                             *)
LEMMA InitRInv == APIInit => RInv
<1> SUFFICES ASSUME APIInit PROVE RInv
  OBVIOUS
<1>1. AInv
  BY InitAInv
<1>2. resp.code # 200 /\ q = Idle
  BY DEF APIInit, Response
<1>3. costState.refreshAt \in Nat
  BY <1>1, StateFields DEF AInv, IInv
<1>4. Known
  BY <1>1, <1>2, <1>3, NothingRead, NothingIsBehind DEF AInv, Known
<1> QED
  BY <1>1, <1>2, <1>4 DEF RInv, Told, Outdone

(* Every step preserves the invariant and answers no older data.           *)
LEMMA NextRInv ==
  RInv /\ [APINext]_apiVars => RInv' /\ Monotone(resp, resp')
<1> SUFFICES ASSUME RInv, [APINext]_apiVars
             PROVE  RInv' /\ Monotone(resp, resp')
  OBVIOUS
<1>1. AInv'
  BY NextAInv DEF RInv
<1>2. CASE (Next \/ UNCHANGED vars) /\ UNCHANGED readers
  <2>1. Told' /\ Known' /\ Outdone'
    BY <1>2, DaemonKeepsRead
  <2>2. resp' = resp
    BY <1>2 DEF readers
  <2>3. Monotone(resp, resp')
    BY <2>2, LastTold DEF Monotone
  <2> QED
    BY <1>1, <2>1, <2>3 DEF RInv
<1>3. ASSUME NEW ep \in Requested, Request(ep) \/ Refuse(ep), UNCHANGED vars
      PROVE  RInv' /\ Monotone(resp, resp')
  <2>1. ep \in Endpoints
    BY RequestedAssumption
  <2>2. CASE Request(ep)
    BY <1>1, <1>3, <2>1, <2>2, RequestRead DEF RInv
  <2>3. CASE Refuse(ep)
    <3>1. Respond(Response(405, ep, NoState, NoState, NoFreshness, 0, "none"))
      BY <2>3 DEF Refuse
    <3> QED
      BY <1>1, <1>3, <3>1, UnansweredRead DEF RInv
  <2> QED
    BY <1>3, <2>2, <2>3
<1>4. CASE Handler /\ UNCHANGED vars
  BY <1>1, <1>4, SnapshotRead, CostRead, LockedRead, VerdictRead, ErrsRead
  DEF Handler, RInv
<1> QED
  BY <1>2, <1>3, <1>4 DEF APINext, Client, apiVars, readers, vars

(* A client that asks an endpoint again is never told less than before.    *)
THEOREM AnswersNeverGoBack == APISpec => ReadsMonotone
<1> DEFINE A == resp'.code = 200 /\ resp.code = 200 /\ resp'.ep = resp.ep =>
                  /\ resp'.st.refreshes >= resp.st.refreshes
                  /\ resp'.cost.refreshes >= resp.cost.refreshes
                  /\ resp'.fr.collectedAt >= resp.fr.collectedAt
                  /\ resp'.errors >= resp.errors
                  /\ resp.cost.metrics => resp'.cost.metrics
<1>1. RInv /\ [APINext]_apiVars => RInv' /\ [A]_apiVars
  BY NextRInv DEF Monotone
<1> QED
  BY <1>1, InitRInv, PTL DEF APISpec, ReadsMonotone

(* Beside its readers the daemon is still the daemon: what is proved of it *)
(* holds of every window a client is served.                               *)
LEMMA ReadersAreHarmless == APISpec => Spec
<1>1. APIInit => Init
  BY DEF APIInit
<1>2. [APINext]_apiVars => [Next]_vars
  BY DEF APINext, apiVars
<1> QED
  BY <1>1, <1>2, PTL DEF APISpec, Spec

-----------------------------------------------------------------------------
(* The process.                                                            *)

(* Where main may be in each mode; without main nothing exits.             *)
Kinds ==
    /\ mode \in {"oneshot", "serve", "library"}
    /\ mode = "library" => main = "none" /\ exit = Running
    /\ mode = "serve" => main \in {"wire", "listen", "serving"}
    /\ mode = "oneshot" => main \in {"refresh", "print"}

(* The server is shut down on a signal only; a success of a serving        *)
(* process is one, a failure is not.                                       *)
Served ==
    /\ shutdown = "called" => cancelled
    /\ mode = "serve" /\ exit = 0 => cancelled
    /\ mode = "serve" /\ exit = 1 => shutdown # "called"

(* A one-shot agent has published nothing while it refreshes, exactly one  *)
(* window when it prints, and counted an error when it gave up.            *)
OneShot ==
    mode = "oneshot" =>
      /\ main = "refresh" => state = NoState /\ exit # 0
      /\ main = "refresh" /\ exit = Running => cycles = 0
      /\ main = "refresh" /\ exit = 1 => errs > 0
      /\ main = "print" => state # NoState /\ cycles = 1

GInv == IInv /\ Kinds /\ Served /\ OneShot

-----------------------------------------------------------------------------
(* The process starts with nothing published and no exit code.             *)
LEMMA InitGInv == AgentInit => GInv
<1> SUFFICES ASSUME AgentInit PROVE GInv
  OBVIOUS
<1>1. IInv
  BY InitIInv DEF AgentInit
<1>2. Kinds
  BY DEF AgentInit, Kinds
<1>3. Served /\ OneShot
  BY DEF AgentInit, Init, Served, OneShot, Running
<1> QED
  BY <1>1, <1>2, <1>3 DEF GInv

(* The steps of a one-shot refresh are steps of the daemon.                *)
LEMMA OneShotSteps ==
  ASSUME OneShot_Refresh
  PROVE  [Next]_vars
  BY DEF OneShot_Refresh, Next, Run, Refresh

(* The steps of the process are steps of the daemon or leave it alone.     *)
LEMMA StepIsOfDaemon ==
  ASSUME [AgentNext]_agentVars
  PROVE  [Next]_vars
<1>1. CASE OneShot_Refresh
  BY <1>1, OneShotSteps
<1>2. CASE OneShot_Print \/ Main_Wire \/ Main_Listen \/ Main_Served \/ Shutdown
           \/ UNCHANGED agentVars
  BY <1>2
  DEF OneShot_Print, Main_Wire, Main_Listen, Main_Served, Shutdown, agentVars
<1>3. CASE \/ Alongside(Headless /\ Run)
           \/ Alongside(ClockTick \/ TickerFires)
           \/ Alongside(Headless /\ Cancel)
  BY <1>3 DEF Alongside, Next
<1> QED
  BY <1>1, <1>2, <1>3 DEF AgentNext

(* So the invariant of the daemon holds beside the process.                *)
LEMMA StepIInv ==
  ASSUME GInv, [AgentNext]_agentVars
  PROVE  IInv'
  BY StepIsOfDaemon, NextIInv DEF GInv

(* The one-shot refresh.                                                   *)
LEMMA RefreshKeeps ==
  ASSUME GInv, OneShot_Refresh
  PROVE  (Kinds /\ Served /\ OneShot)'
<1>1. /\ main = "refresh" /\ exit = Running /\ mode = "oneshot"
      /\ state = NoState /\ cycles = 0 /\ errs \in Nat
  BY DEF GInv, IInv, TypeOK, Kinds, OneShot, OneShot_Refresh, At, Alive
<1>2. ASSUME \/ Run_Start
             \/ Refresh_Check
             \/ \E a \in {"metrics", "events"} : Refresh_Answer(a)
             \/ \E e \in {"error", "capped"} : Refresh_CollectErr(e),
             UNCHANGED process
      PROVE  (Kinds /\ Served /\ OneShot)'
  <2>1. UNCHANGED <<state, cycles, cancelled>>
    BY <1>2
    DEF Run_Start, Refresh_Check, Refresh_Answer, Refresh_CollectErr, mu
  <2> QED
    BY <1>1, <1>2, <2>1 DEF GInv, Kinds, Served, OneShot, process, Running
<1>3. ASSUME NEW err, recordMetricsFailure(err), UNCHANGED cancelled, AfterFailure
      PROVE  (Kinds /\ Served /\ OneShot)'
  <2>1. errs' > 0 /\ state' = state
    BY <1>1, <1>3 DEF recordMetricsFailure
  <2>2. /\ exit' = 1 /\ mode' = mode /\ main' = main /\ shutdown' = shutdown
    BY <1>3 DEF AfterFailure, Exit
  <2> QED
    BY <1>1, <1>3, <2>1, <2>2 DEF GInv, Kinds, Served, OneShot, Running
<1>4. ASSUME NEW v \in Verdict, Refresh_Publish(v), Goto("print")
      PROVE  (Kinds /\ Served /\ OneShot)'
  <2>1. state'.refreshes = 1 /\ cycles' = 1 /\ cancelled' = cancelled
    <3>1. NoState.refreshes = 0
      BY DEF NoState
    <3>2. state'.refreshes = state.refreshes + 1
      BY <1>4 DEF Refresh_Publish, NewState
    <3>3. cycles' = cycles + 1 /\ cancelled' = cancelled
      BY <1>4 DEF Refresh_Publish
    <3> QED
      BY <1>1, <3>1, <3>2, <3>3
  <2>2. state' # NoState
    BY <2>1 DEF NoState
  <2>3. main' = "print" /\ exit' = exit /\ mode' = mode /\ shutdown' = shutdown
    BY <1>4 DEF Goto
  <2> QED
    BY <1>1, <2>1, <2>2, <2>3 DEF GInv, Kinds, Served, OneShot, Running
<1> QED
  BY <1>2, <1>3, <1>4
  DEF OneShot_Refresh, Refresh_AllFailed, Refresh_HardErr

(* Printing, serving and shutting down.                                    *)
LEMMA ProcessKeeps ==
  ASSUME GInv,
         OneShot_Print \/ Main_Wire \/ Main_Listen \/ Main_Served \/ Shutdown
  PROVE  (Kinds /\ Served /\ OneShot)'
<1>1. UNCHANGED <<state, cycles, cancelled, errs>>
  BY DEF OneShot_Print, Main_Wire, Main_Listen, Main_Served, Shutdown, vars
<1>2. CASE OneShot_Print
  BY <1>1, <1>2
  DEF GInv, Kinds, Served, OneShot, OneShot_Print, At, Alive, Exit, Running
<1>3. CASE Main_Wire
  BY <1>1, <1>3
  DEF GInv, Kinds, Served, OneShot, Main_Wire, At, Alive, Running
<1>4. CASE Main_Listen
  BY <1>1, <1>4
  DEF GInv, Kinds, Served, OneShot, Main_Listen, At, Alive, Exit, Goto, Running
<1>5. CASE Main_Served
  BY <1>1, <1>5
  DEF GInv, Kinds, Served, OneShot, Main_Served, At, Alive, Exit, Running
<1>6. CASE Shutdown
  BY <1>1, <1>6 DEF GInv, Kinds, Served, OneShot, Shutdown, Alive, Running
<1> QED
  BY <1>2, <1>3, <1>4, <1>5, <1>6

(* The daemon and its environment beside a living process.                 *)
LEMMA AlongsideKeeps ==
  ASSUME GInv,
         \/ Alongside(Headless /\ Run)
         \/ Alongside(ClockTick \/ TickerFires)
         \/ Alongside(Headless /\ Cancel)
  PROVE  (Kinds /\ Served /\ OneShot)'
<1>1. UNCHANGED process /\ exit = Running
  BY DEF Alongside, Alive
<1>2. CASE Alongside(Headless /\ Run)
  <2>1. mode # "oneshot" /\ Run
    BY <1>2 DEF Alongside, Headless
  <2>2. cancelled' = cancelled
    BY <2>1
    DEF Run, Run_Start, Run_Tick, Run_Done, Refresh, Refresh_Check,
        Refresh_Answer, Refresh_CollectErr, Refresh_AllFailed, Refresh_HardErr,
        Refresh_Publish
  <2> QED
    BY <1>1, <2>1, <2>2 DEF GInv, Kinds, Served, OneShot, process, Running
<1>3. CASE Alongside(ClockTick \/ TickerFires)
  <2>1. UNCHANGED <<state, cycles, cancelled, errs>>
    BY <1>3 DEF Alongside, ClockTick, TickerFires, mu
  <2> QED
    BY <1>1, <2>1 DEF GInv, Kinds, Served, OneShot, process, Running
<1>4. CASE Alongside(Headless /\ Cancel)
  <2>1. cancelled' /\ UNCHANGED <<state, cycles, errs>>
    BY <1>4 DEF Alongside, Cancel, mu
  <2> QED
    BY <1>1, <2>1 DEF GInv, Kinds, Served, OneShot, process, Running
<1> QED
  BY <1>2, <1>3, <1>4

(* Every step of the process or beside it preserves the invariant.         *)
LEMMA NextGInv == GInv /\ [AgentNext]_agentVars => GInv'
<1> SUFFICES ASSUME GInv, [AgentNext]_agentVars PROVE GInv'
  OBVIOUS
<1>1. CASE UNCHANGED agentVars
  BY <1>1, StepIInv
  DEF GInv, Kinds, Served, OneShot, agentVars, vars, process
<1>2. CASE AgentNext
  BY <1>2, StepIInv, RefreshKeeps, ProcessKeeps, AlongsideKeeps
  DEF AgentNext, GInv
<1> QED
  BY <1>1, <1>2

(* 0 is a window that was collected or a server that was asked to stop,    *)
(* and one that ends when it was told to is 0; a one-shot agent that gives *)
(* up has published nothing and counted an error.                          *)
THEOREM ExitIsTrue == AgentSpec => []ExitTellsTruth
<1>1. GInv => ExitTellsTruth
  BY DEF GInv, Kinds, Served, OneShot, ExitTellsTruth, Running
<1>2. AgentSpec => []GInv
  BY InitGInv, NextGInv, PTL DEF AgentSpec
<1> QED
  BY <1>1, <1>2, PTL

(* The process runs the daemon, with the refreshes of a one-shot agent and *)
(* the signals of an operator, and never anything else: what is proved of  *)
(* the daemon holds in every mode.                                         *)
THEOREM ProcessRunsTheDaemon == AgentSpec => Spec
<1>1. AgentInit => Init
  BY DEF AgentInit
<1>2. [AgentNext]_agentVars => [Next]_vars
  <2> SUFFICES ASSUME [AgentNext]_agentVars PROVE [Next]_vars
    OBVIOUS
  <2> QED
    BY StepIsOfDaemon
<1> QED
  BY <1>1, <1>2, PTL DEF AgentSpec, Spec
=============================================================================
