----------------------------- MODULE Investigate ----------------------------
(***************************************************************************)
(* The opt-in egress of cmd/agent: runInvestigateLoop watches the windows  *)
(* the daemon publishes and drives investigate.Client.Investigate for a    *)
(* new one in a goroutine of its own, guarded by a one-slot channel.  The  *)
(* control plane and the directive executor answer as they please.         *)
(***************************************************************************)
EXTENDS Directive, Sequences

CONSTANTS
    MaxRounds,      \* the round limit of the client (3 in the code)
    MaxWindows,     \* bound: windows the daemon publishes
    MaxEntries,     \* bound: timeline entries one execution returns
    DirectiveLists  \* the non-empty directive lists the server may send

ASSUME RoundsAssumption == MaxRounds \in Nat \ {0}
ASSUME WindowsAssumption == MaxWindows \in Nat /\ MaxEntries \in Nat
ASSUME DirectivesAssumption == DirectiveLists \subseteq Seq(Directives) \ {<<>>}

Windows == 1..MaxWindows

VARIABLES
    published,      \* Refreshes of the daemon's newest State, 0 when nil
    ticker,         \* t.C of the loop
    cancelled,      \* ctx of the loop
    lpc, seen,      \* the loop: its location and st.Refreshes
    lastRefreshes,
    inFlight,       \* the single-flight slot is taken
    at,             \* per window: where its goroutine is
    round,          \* per window: the client's round counter
    todo,           \* per window: directives of this round not yet handled
    added,          \* per window: entries added in this round
    timeline,       \* per window: length of the running pack's timeline
    posted,         \* per window: the timeline lengths POSTed, in order
    verdict,        \* per window: lastVerdict
    executed        \* the last directive executed, as asked and as run

loopVars == <<ticker, lpc, seen, lastRefreshes>>
clientVars == <<at, round, todo, added, timeline, posted, verdict, executed>>
vars == <<published, ticker, cancelled, lpc, seen, lastRefreshes, inFlight,
          at, round, todo, added, timeline, posted, verdict, executed>>

None == [asked |-> NilDirective, run |-> NoBudget]

Init ==
    /\ published = 0
    /\ ticker = "empty" /\ cancelled = FALSE
    /\ lpc = "select" /\ seen = 0 /\ lastRefreshes = 0
    /\ inFlight = FALSE
    /\ at = [w \in Windows |-> "none"]
    /\ round = [w \in Windows |-> 0]
    /\ todo = [w \in Windows |-> <<>>]
    /\ added = [w \in Windows |-> 0]
    /\ timeline = [w \in Windows |-> 0]
    /\ posted = [w \in Windows |-> <<>>]
    /\ verdict = [w \in Windows |-> "nil"]
    /\ executed = None

-----------------------------------------------------------------------------
(* The environment: the daemon publishes, the ticker fires, the operator   *)
(* cancels.                                                                *)
DaemonPublishes ==
    /\ published < MaxWindows
    /\ published' = published + 1
    /\ UNCHANGED <<loopVars, cancelled, inFlight, clientVars>>

TickerFires ==
    /\ ticker = "empty"
    /\ ticker' = "full"
    /\ UNCHANGED <<published, cancelled, lpc, seen, lastRefreshes, inFlight,
                   clientVars>>

Cancel ==
    /\ ~cancelled
    /\ cancelled' = TRUE
    /\ UNCHANGED <<published, loopVars, inFlight, clientVars>>

(* Mutants: the window of the last tick is not told from a new one; the    *)
(* loop remembers the window before it has the slot.                       *)
Loop_Tick_NoDedup ==
    /\ lpc = "select"
    /\ ticker = "full"
    /\ ticker' = "empty"
    /\ IF published = 0
       THEN UNCHANGED <<lpc, seen>>
       ELSE lpc' = "acquire" /\ seen' = published
    /\ UNCHANGED <<published, cancelled, lastRefreshes, inFlight, clientVars>>

Loop_Tick_MarksEarly ==
    /\ lpc = "select"
    /\ ticker = "full"
    /\ ticker' = "empty"
    /\ IF published = 0 \/ published = lastRefreshes
       THEN UNCHANGED <<lpc, seen, lastRefreshes>>
       ELSE lpc' = "acquire" /\ seen' = published /\ lastRefreshes' = published
    /\ UNCHANGED <<published, cancelled, inFlight, clientVars>>

(* The loop: a tick reads the newest State and goes on only if it is new.  *)
Loop_Tick ==
    /\ lpc = "select"
    /\ ticker = "full"
    /\ ticker' = "empty"
    /\ IF published = 0 \/ published = lastRefreshes
       THEN UNCHANGED <<lpc, seen>>
       ELSE lpc' = "acquire" /\ seen' = published
    /\ UNCHANGED <<published, cancelled, lastRefreshes, inFlight, clientVars>>

(* Mutant: break leaves the select but not the loop.                       *)
Loop_Done_BreaksSelect ==
    /\ lpc = "select"
    /\ cancelled
    /\ UNCHANGED vars

Loop_Done ==
    /\ lpc = "select"
    /\ cancelled
    /\ lpc' = "stopped"
    /\ ticker' = "off"
    /\ UNCHANGED <<published, cancelled, seen, lastRefreshes, inFlight,
                   clientVars>>

(* The slot is taken: skip this tick without advancing lastRefreshes.      *)
Loop_Busy ==
    /\ lpc = "acquire"
    /\ inFlight
    /\ lpc' = "select"
    /\ UNCHANGED <<published, ticker, cancelled, seen, lastRefreshes, inFlight,
                   clientVars>>

Loop_Launch ==
    /\ lpc = "acquire"
    /\ ~inFlight
    /\ inFlight' = TRUE
    /\ lastRefreshes' = seen
    /\ at' = [at EXCEPT ![seen] = "post"]
    /\ lpc' = "select"
    /\ UNCHANGED <<published, ticker, cancelled, seen,
                   round, todo, added, timeline, posted, verdict, executed>>

-----------------------------------------------------------------------------
(* The client, for window w.  Investigate returns: the deferred function   *)
(* of the goroutine frees the slot.                                        *)
Return(w) ==
    /\ at' = [at EXCEPT ![w] = "done"]
    /\ inFlight' = FALSE

(* hc.Do starts: it refuses a context that is already done.                *)
PostSend(w) ==
    /\ at[w] = "post" /\ ~cancelled
    /\ at' = [at EXCEPT ![w] = "wait"]
    /\ posted' = [posted EXCEPT ![w] = Append(@, timeline[w])]
    /\ UNCHANGED <<published, loopVars, cancelled, inFlight, round, todo, added,
                   timeline, verdict, executed>>

(* Mutants: the error path does not free the slot; it drops the verdict.   *)
PostFails_LeaksSlot(w) ==
    /\ at[w] = "wait" \/ (at[w] = "post" /\ cancelled)
    /\ at' = [at EXCEPT ![w] = "done"]
    /\ UNCHANGED <<published, loopVars, cancelled, inFlight, round, todo, added,
                   timeline, posted, verdict, executed>>

PostFails_DropsVerdict(w) ==
    /\ at[w] = "wait" \/ (at[w] = "post" /\ cancelled)
    /\ Return(w)
    /\ verdict' = [verdict EXCEPT ![w] = "nil"]
    /\ UNCHANGED <<published, loopVars, cancelled, round, todo, added, timeline,
                   posted, executed>>

(* The POST fails: transport, status, size, decoding, the 30 s timeout, a  *)
(* cancelled context or a response without a verdict.  Investigate returns *)
(* the verdict of the round before.                                        *)
PostFails(w) ==
    /\ at[w] = "wait" \/ (at[w] = "post" /\ cancelled)
    /\ Return(w)
    /\ UNCHANGED <<published, loopVars, cancelled, round, todo, added, timeline,
                   posted, verdict, executed>>

(* The server's answer ends the investigation: it names a fault class (and *)
(* any directives with it are ignored), or abstains and asks for nothing.  *)
PostConcludes(w, class) ==
    /\ at[w] = "wait"
    /\ verdict' = [verdict EXCEPT ![w] = class]
    /\ Return(w)
    /\ UNCHANGED <<published, loopVars, cancelled, round, todo, added, timeline,
                   posted, executed>>

(* The server abstains and sends directives.                               *)
PostDirects(w, list) ==
    /\ at[w] = "wait"
    /\ verdict' = [verdict EXCEPT ![w] = "ABSTAIN"]
    /\ at' = [at EXCEPT ![w] = "exec"]
    /\ todo' = [todo EXCEPT ![w] = list]
    /\ added' = [added EXCEPT ![w] = 0]
    /\ UNCHANGED <<published, loopVars, cancelled, inFlight, round, timeline,
                   posted, executed>>

(* executeDirectives: a directive that Validate refuses is skipped.        *)
SkipDirective(w) ==
    /\ at[w] = "exec" /\ todo[w] # <<>>
    /\ ~Accepted(Head(todo[w]))
    /\ todo' = [todo EXCEPT ![w] = Tail(@)]
    /\ UNCHANGED <<published, loopVars, cancelled, inFlight, at, round, added,
                   timeline, posted, verdict, executed>>

(* The executor runs the clamped directive and returns n entries (n = 0    *)
(* also stands for an execution error, which counts as no entries).        *)
ExecuteDirective(w, n) ==
    /\ at[w] = "exec" /\ todo[w] # <<>>
    /\ LET d == Head(todo[w]) IN
       /\ Accepted(d)
       /\ executed' = [asked |-> d, run |-> SafeBudget(d)]
    /\ todo' = [todo EXCEPT ![w] = Tail(@)]
    /\ added' = [added EXCEPT ![w] = @ + n]
    /\ timeline' = [timeline EXCEPT ![w] = @ + n]
    /\ UNCHANGED <<published, loopVars, cancelled, inFlight, at, round, posted,
                   verdict>>

(* Mutants: the round limit is not checked; a round without new evidence   *)
(* is POSTed again.                                                        *)
EndRound_NoLimit(w) ==
    /\ at[w] = "exec" /\ todo[w] = <<>>
    /\ IF added[w] = 0
       THEN Return(w) /\ UNCHANGED round
       ELSE /\ round' = [round EXCEPT ![w] = @ + 1]
            /\ at' = [at EXCEPT ![w] = "post"]
            /\ UNCHANGED inFlight
    /\ UNCHANGED <<published, loopVars, cancelled, todo, added, timeline, posted,
                   verdict, executed>>

EndRound_NoProgress(w) ==
    /\ at[w] = "exec" /\ todo[w] = <<>>
    /\ round' = [round EXCEPT ![w] = @ + 1]
    /\ IF round[w] + 1 < MaxRounds
       THEN at' = [at EXCEPT ![w] = "post"] /\ UNCHANGED inFlight
       ELSE Return(w)
    /\ UNCHANGED <<published, loopVars, cancelled, todo, added, timeline, posted,
                   verdict, executed>>

(* The round is over: without a new entry, or after the last round, the    *)
(* loop ends; else the grown pack is POSTed again.                         *)
EndRound(w) ==
    /\ at[w] = "exec" /\ todo[w] = <<>>
    /\ IF added[w] = 0
       THEN Return(w) /\ UNCHANGED round
       ELSE /\ round' = [round EXCEPT ![w] = @ + 1]
            /\ IF round[w] + 1 < MaxRounds
               THEN at' = [at EXCEPT ![w] = "post"] /\ UNCHANGED inFlight
               ELSE Return(w)
    /\ UNCHANGED <<published, loopVars, cancelled, todo, added, timeline, posted,
                   verdict, executed>>

-----------------------------------------------------------------------------
Client(w) ==
    \/ PostSend(w) \/ PostFails(w)
    \/ \E class \in {"FIRE", "ABSTAIN"} : PostConcludes(w, class)
    \/ \E list \in DirectiveLists : PostDirects(w, list)
    \/ SkipDirective(w)
    \/ \E n \in 0..MaxEntries : ExecuteDirective(w, n)
    \/ EndRound(w)

Loop == Loop_Tick \/ Loop_Done \/ Loop_Busy \/ Loop_Launch

Next ==
    \/ Loop
    \/ \E w \in Windows : Client(w)
    \/ DaemonPublishes \/ TickerFires \/ Cancel

Spec == Init /\ [][Next]_vars

(* The ticker fires, both goroutines are scheduled, a POST ends within its *)
(* timeout, executors return, and select does not pass over ctx.Done().    *)
FairSpec ==
    /\ Spec
    /\ WF_vars(DaemonPublishes)
    /\ WF_vars(TickerFires)
    /\ WF_vars(Loop_Tick \/ Loop_Busy \/ Loop_Launch)
    /\ SF_vars(Loop_Done)
    /\ \A w \in Windows : WF_vars(Client(w))

-----------------------------------------------------------------------------
(* Properties.                                                             *)

Active(w) == at[w] \in {"post", "wait", "exec"}

TypeOK ==
    /\ published \in 0..MaxWindows
    /\ ticker \in {"empty", "full", "off"}
    /\ lpc \in {"select", "acquire", "stopped"}
    /\ seen \in 0..MaxWindows /\ lastRefreshes \in 0..MaxWindows
    /\ at \in [Windows -> {"none", "post", "wait", "exec", "done"}]
    /\ round \in [Windows -> 0..MaxRounds]
    /\ todo \in [Windows -> Seq(Directives)]
    /\ added \in [Windows -> Nat] /\ timeline \in [Windows -> Nat]
    /\ posted \in [Windows -> Seq(Nat)]
    /\ verdict \in [Windows -> {"nil", "FIRE", "ABSTAIN"}]

(* At most one investigation is in flight, and the slot is held exactly    *)
(* while one is: neither a slow endpoint nor any exit path of Investigate  *)
(* piles up round-trips or leaks the slot.                                 *)
SingleFlight ==
    /\ \A v, w \in Windows : Active(v) /\ Active(w) => v = w
    /\ inFlight <=> \E w \in Windows : Active(w)

(* A window is launched at most once and never after a newer one, although *)
(* the State the loop read may be old by the time it takes the slot.       *)
LaunchedOnceInOrder ==
    [][\A w \in Windows : at'[w] # at[w] /\ ~Active(w) =>
          \A v \in w..MaxWindows : at[v] = "none"]_vars

(* Whatever the control plane answers, one window costs at most MaxRounds  *)
(* POSTs, and each carries more evidence than the one before.              *)
PostsBoundedAndGrowing ==
    \A w \in Windows :
        /\ Len(posted[w]) <= MaxRounds
        /\ \A k \in 2..Len(posted[w]) : posted[w][k - 1] < posted[w][k]

(* The executor only ever runs a catalog capability of an enabled tier,    *)
(* within the advertised ceiling, and never with a "default" (0) where the *)
(* ceiling is positive.                                                    *)
ExecutedVetted ==
    executed # None =>
        LET id == executed.asked.capability IN
        /\ Find(id) /\ builtin[id].tier = Unprivileged
        /\ \A f \in Fields :
              /\ executed.run[f] <= builtin[id].cap[f]
              /\ builtin[id].cap[f] > 0 => executed.run[f] > 0

(* A failure after the first round does not lose the last good verdict.    *)
VerdictKept ==
    \A w \in Windows :
        at[w] = "done" /\ verdict[w] = "nil" => Len(posted[w]) <= 1

(* The newest window is investigated in the end, though ticks are skipped  *)
(* while an older one is in flight.                                        *)
NewestInvestigated ==
    MaxWindows \in Windows => <>(cancelled \/ at[MaxWindows] # "none")

(* Cancelling stops the loop and ends the investigation in flight.         *)
CancelWindsDown ==
    cancelled ~> (lpc = "stopped" /\ \A w \in Windows : ~Active(w))
=============================================================================
