-------------------------------- MODULE API ---------------------------------
(***************************************************************************)
(* The local read-only HTTP API of api.go, reading the daemon while it     *)
(* runs.  Each handler is a sequence of separate critical sections of      *)
(* d.mu (Snapshot, CostSnapshot, Freshness, Errs), and Freshness reads the *)
(* clock after it has released the lock; the daemon may publish between    *)
(* any two of them.  One client is enough: handlers share nothing but the  *)
(* daemon, which they never write.                                         *)
(***************************************************************************)
EXTENDS Daemon

CONSTANTS
    StalenessAfter,   \* d.stalenessAfter, in clock units
    Requested         \* the endpoints the client requests in this instance

Endpoints == {"health", "signals", "verdict", "cost", "window"}

ASSUME StalenessAssumption == StalenessAfter \in Nat
ASSUME RequestedAssumption == Requested \subseteq Endpoints

VARIABLES
    q,      \* the request being served, with the locals of its handler
    resp    \* the last response the client received

readers == <<q, resp>>
apiVars == <<vars, q, resp>>

(* The part of the daemon Freshness copies while it holds the lock.        *)
Held == [st : State, consec : Nat, reason : Reason]
NoHeld == [st |-> NoState, consec |-> 0, reason |-> NoReason]

(* The Freshness struct.  A reason is "own" (the failure it recorded),     *)
(* "never" (neverCollectedReason), "age" (the generic one) or "" (fresh).  *)
FreshnessAt(h, t) ==
    LET never == h.st = NoState
        age   == t - (IF never THEN 0 ELSE h.st.refreshAt)
        aged  == IF age < 0 THEN 0 ELSE age
        stale == never \/ aged > StalenessAfter
    IN  [hasData |-> ~never, never |-> never,
         collectedAt |-> h.st.refreshAt, age |-> aged, stale |-> stale,
         reason |-> CASE never -> "never"
                      [] ~never /\ stale /\ h.reason = NoReason -> "age"
                      [] ~never /\ stale /\ h.reason # NoReason -> "own"
                      [] OTHER -> "",
         why |-> IF stale THEN h.reason ELSE NoReason,
         consec |-> h.consec]

NoFreshness == FreshnessAt(NoHeld, 0)

(* marshalVerdict: an isolated gate is served as an explicit ABSTAIN.      *)
marshalVerdict(st) == IF st.verdict = "nil" THEN "ABSTAIN" ELSE st.verdict

Idle == [at |-> "idle", ep |-> "health", st |-> NoState, cost |-> NoState,
         held |-> NoHeld, fr |-> NoFreshness]

(* st is the window whose metadata the body carries, cost the window whose *)
(* devices and jobs it carries (NoState: none).                            *)
Response(code, ep, st, cost, fr, e, v) ==
    [code |-> code, ep |-> ep, st |-> st, cost |-> cost, fr |-> fr,
     errors |-> e, verdict |-> v]

Respond(response) == resp' = response /\ q' = Idle

APIInit ==
    /\ Init
    /\ q = Idle
    /\ resp = Response(0, "health", NoState, NoState, NoFreshness, 0, "none")

-----------------------------------------------------------------------------
(* readOnly: any verb but GET and HEAD is refused before the handler runs. *)
Refuse(ep) ==
    /\ q.at = "idle"
    /\ Respond(Response(405, ep, NoState, NoState, NoFreshness, 0, "none"))

Request(ep) ==
    /\ q.at = "idle"
    /\ q' = [q EXCEPT !.ep = ep,
                      !.at = IF ep = "cost" THEN "cost" ELSE "snapshot"]
    /\ UNCHANGED resp

(* Snapshot.  /signals and /verdict answer from it alone; all but /healthz *)
(* answer 503 while nothing is published.                                  *)
ReadSnapshot ==
    /\ q.at = "snapshot"
    /\ CASE q.ep = "health" ->
              q' = [q EXCEPT !.at = "fresh", !.st = state] /\ UNCHANGED resp
         [] q.ep # "health" /\ state = NoState ->
              Respond(Response(503, q.ep, NoState, NoState, NoFreshness, 0, "none"))
         [] q.ep = "window" /\ state # NoState ->
              q' = [q EXCEPT !.at = "cost", !.st = state] /\ UNCHANGED resp
         [] q.ep = "signals" /\ state # NoState ->
              Respond(Response(200, q.ep, state, NoState, NoFreshness, 0, "none"))
         [] q.ep = "verdict" /\ state # NoState ->
              Respond(Response(200, q.ep, state, NoState, NoFreshness, 0,
                               marshalVerdict(state)))

(* Mutant: the cost block is taken from the live window.                   *)
ReadCost_Live ==
    /\ q.at = "cost"
    /\ q' = [q EXCEPT !.at = "fresh", !.cost = state]
    /\ UNCHANGED resp

(* CostSnapshot.  /window falls back to the window it already read.        *)
ReadCost ==
    /\ q.at = "cost"
    /\ q' = [q EXCEPT !.at = "fresh",
                      !.cost = IF costState = NoState THEN q.st ELSE costState]
    /\ UNCHANGED resp

(* Freshness, while it holds the lock.                                     *)
FreshnessLocked ==
    /\ q.at = "fresh"
    /\ q' = [q EXCEPT !.at = "clock",
                      !.held = [st |-> costState, consec |-> consecFails,
                                reason |-> lastReason]]
    /\ UNCHANGED resp

(* Mutant: lastReason is read after the unlock.                            *)
FreshnessVerdict_LateReason ==
    /\ q.at = "clock"
    /\ LET fr == FreshnessAt([q.held EXCEPT !.reason = lastReason], clock) IN
       CASE q.ep = "health" ->
              q' = [q EXCEPT !.at = "errs", !.fr = fr] /\ UNCHANGED resp
         [] q.ep = "cost" ->
              Respond(Response(200, "cost", NoState, q.cost, fr, 0, "none"))
         [] q.ep = "window" ->
              Respond(Response(200, "window", q.st, q.cost, fr, 0,
                               marshalVerdict(q.st)))

(* Freshness after the unlock: the clock is read and the verdict computed; *)
(* stampFreshness copies it into the body.                                 *)
FreshnessVerdict ==
    /\ q.at = "clock"
    /\ LET fr == FreshnessAt(q.held, clock) IN
       CASE q.ep = "health" ->
              q' = [q EXCEPT !.at = "errs", !.fr = fr] /\ UNCHANGED resp
         [] q.ep = "cost" ->
              Respond(Response(200, "cost", NoState, q.cost, fr, 0, "none"))
         [] q.ep = "window" ->
              Respond(Response(200, "window", q.st, q.cost, fr, 0,
                               marshalVerdict(q.st)))

(* Errs, the last read of /healthz.                                        *)
ReadErrs ==
    /\ q.at = "errs"
    /\ Respond(Response(200, "health", q.st, NoState, q.fr, errs, "none"))

Handler == ReadSnapshot \/ ReadCost \/ FreshnessLocked
             \/ FreshnessVerdict \/ ReadErrs

Client == \E ep \in Requested : Request(ep) \/ Refuse(ep)

APINext ==
    \/ Next /\ UNCHANGED readers
    \/ (Client \/ Handler) /\ UNCHANGED vars

APISpec == APIInit /\ [][APINext]_apiVars

-----------------------------------------------------------------------------
(* Properties of what a client is told.                                    *)

CostBody == resp.code = 200 /\ resp.ep \in {"cost", "window"}

(* A stamp never ages the data it covers: the devices in the body were     *)
(* collected no later than collected_at says, so stale=true is never a     *)
(* false alarm and never_collected comes with no devices, although body    *)
(* and stamp come from two critical sections (api.go:302-317, 337-372).    *)
StampNeverOverstatesAge ==
    CostBody => /\ resp.fr.hasData => resp.cost.refreshAt <= resp.fr.collectedAt
                /\ resp.fr.never => ~resp.cost.metrics

(* /window never shows a device-bearing window above an older cost block.  *)
WindowCostKeepsUp ==
    resp.code = 200 /\ resp.ep = "window" /\ resp.st.metrics =>
        resp.cost.refreshes >= resp.st.refreshes

(* One response explains itself: the reason of a stale verdict counts the  *)
(* consec_failures reported with it, and the generic age reason is given   *)
(* only when no failure was booked (daemon.go:411-454, api.go:95-123).     *)
ReasonMatchesCount ==
    /\ resp.fr.reason = "own" => resp.fr.why.n = resp.fr.consec /\ resp.fr.consec > 0
    /\ resp.fr.reason = "age" => resp.fr.consec = 0

(* A client that asks an endpoint again never sees it go back: window      *)
(* numbers, collection times and the error count do not decrease, and      *)
(* devices once served are not blanked.                                    *)
ReadsMonotone ==
    [][ resp'.code = 200 /\ resp.code = 200 /\ resp'.ep = resp.ep =>
          /\ resp'.st.refreshes >= resp.st.refreshes
          /\ resp'.cost.refreshes >= resp.cost.refreshes
          /\ resp'.fr.collectedAt >= resp.fr.collectedAt
          /\ resp'.errors >= resp.errors
          /\ resp.cost.metrics => resp'.cost.metrics
      ]_apiVars

(* "never present a held-stale window as current" (api.go:282-284): when   *)
(* stale=false the devices in the body are no older than the threshold.    *)
FreshMeansCurrent ==
    CostBody /\ resp.cost.metrics /\ ~resp.fr.stale =>
        resp.fr.collectedAt + resp.fr.age - resp.cost.refreshAt <= StalenessAfter
=============================================================================
