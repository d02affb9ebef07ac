-------------------------- MODULE InvestigateProofs -------------------------
(***************************************************************************)
(* The safety properties of Investigate, for any number of windows, any    *)
(* round limit and any directives of the server.                           *)
(***************************************************************************)
EXTENDS Investigate, SequenceTheorems, TLAPS

(* What the loop knows: lastRefreshes only grows, and no window above it   *)
(* was ever launched.                                                      *)
LaunchOrder ==
    /\ lastRefreshes <= published /\ seen <= published
    /\ lpc = "acquire" => lastRefreshes < seen
    /\ \A v \in Windows : at[v] # "none" => v <= lastRefreshes

(* What the client holds where it is: between two POSTs the number of      *)
(* POSTs is the round, and everything POSTed is smaller than the pack as   *)
(* soon as the round has added to it.                                      *)
PackIsAhead(w) ==
    /\ at[w] = "none" => round[w] = 0 /\ posted[w] = <<>>
    /\ at[w] = "post" =>
         /\ Len(posted[w]) = round[w] /\ round[w] < MaxRounds
         /\ \A k \in 1..Len(posted[w]) : posted[w][k] < timeline[w]
    /\ at[w] = "wait" =>
         /\ Len(posted[w]) = round[w] + 1 /\ round[w] < MaxRounds
         /\ \A k \in 1..Len(posted[w]) : posted[w][k] <= timeline[w]
    /\ at[w] = "exec" =>
         /\ Len(posted[w]) = round[w] + 1 /\ round[w] < MaxRounds
         /\ \A k \in 1..Len(posted[w]) : posted[w][k] + added[w] <= timeline[w]
    /\ Len(posted[w]) <= MaxRounds
    /\ \A k \in 2..Len(posted[w]) : posted[w][k - 1] < posted[w][k]

(* Only the first POST of a window can leave it without a verdict.         *)
VerdictKnown(w) ==
    verdict[w] = "nil" => round[w] = 0 /\ at[w] # "exec" /\ Len(posted[w]) <= 1

USE RoundsAssumption, WindowsAssumption, DirectivesAssumption

-----------------------------------------------------------------------------
(* Type correctness.                                                       *)

(* The loop and every window start well typed.                             *)
LEMMA InitTyped == Init => TypeOK
BY DEF Init, TypeOK, Windows

(* The round stays within MaxRounds because EndRound is only taken below.  *)
LEMMA ClientTyped ==
    ASSUME TypeOK, NEW w \in Windows, PackIsAhead(w), Client(w)
    PROVE  TypeOK'
<1> USE DEF TypeOK, Return, loopVars
<1>1. CASE PostSend(w)
  BY <1>1 DEF PostSend
<1>2. CASE PostFails(w)
  BY <1>2 DEF PostFails
<1>3. ASSUME NEW class \in {"FIRE", "ABSTAIN"}, PostConcludes(w, class)
      PROVE  TypeOK'
  BY <1>3 DEF PostConcludes
<1>4. ASSUME NEW list \in DirectiveLists, PostDirects(w, list)
      PROVE  TypeOK'
  <2>1. list \in Seq(Directives)
    OBVIOUS
  <2> QED
    BY <1>4, <2>1 DEF PostDirects
<1>5. CASE SkipDirective(w)
  <2>1. Tail(todo[w]) \in Seq(Directives)
    BY <1>5 DEF SkipDirective
  <2> QED
    BY <1>5, <2>1 DEF SkipDirective
<1>6. ASSUME NEW n \in 0..MaxEntries, ExecuteDirective(w, n)
      PROVE  TypeOK'
  <2>1. Tail(todo[w]) \in Seq(Directives)
    BY <1>6 DEF ExecuteDirective
  <2>2. /\ todo' = [todo EXCEPT ![w] = Tail(@)]
        /\ added' = [added EXCEPT ![w] = @ + n]
        /\ timeline' = [timeline EXCEPT ![w] = @ + n]
        /\ UNCHANGED <<published, loopVars, cancelled, inFlight, at, round, posted,
                       verdict>>
    BY <1>6 DEF ExecuteDirective
  <2>3. todo' \in [Windows -> Seq(Directives)]
    BY <2>1, <2>2
  <2>4. added' \in [Windows -> Nat] /\ timeline' \in [Windows -> Nat]
    BY <2>2
  <2> QED
    BY <2>2, <2>3, <2>4
<1>7. CASE EndRound(w)
  <2>1. round' = round \/ round' = [round EXCEPT ![w] = @ + 1]
    BY <1>7 DEF EndRound
  <2>2. at' = [at EXCEPT ![w] = "post"] \/ at' = [at EXCEPT ![w] = "done"]
    BY <1>7 DEF EndRound
  <2>3. UNCHANGED <<published, loopVars, todo, added, timeline, posted, verdict>>
    BY <1>7 DEF EndRound
  <2>4. round' \in [Windows -> 0..MaxRounds]
    <3>1. round \in [Windows -> 0..MaxRounds] /\ round[w] + 1 \in 0..MaxRounds
      BY <1>7 DEF EndRound, PackIsAhead
    <3> HIDE DEF TypeOK
    <3> QED
      BY <2>1, <3>1
  <2>5. at' \in [Windows -> {"none", "post", "wait", "exec", "done"}]
    BY <2>2
  <2> QED
    BY <2>3, <2>4, <2>5
<1> QED
  BY <1>1, <1>2, <1>3, <1>4, <1>5, <1>6, <1>7 DEF Client

(* Every step of the loop, of a client and of the environment keeps the    *)
(* types.                                                                  *)
LEMMA StepTyped ==
    ASSUME TypeOK, \A w \in Windows : PackIsAhead(w), [Next]_vars
    PROVE  TypeOK'
<1> USE DEF TypeOK, loopVars, clientVars, Windows
<1>1. CASE Loop_Tick
  BY <1>1 DEF Loop_Tick
<1>2. CASE Loop_Done
  BY <1>2 DEF Loop_Done
<1>3. CASE Loop_Busy
  BY <1>3 DEF Loop_Busy
<1>4. CASE Loop_Launch
  BY <1>4 DEF Loop_Launch
<1>5. CASE DaemonPublishes
  BY <1>5 DEF DaemonPublishes
<1>8. CASE TickerFires
  BY <1>8 DEF TickerFires
<1>9. CASE Cancel
  BY <1>9 DEF Cancel
<1>6. ASSUME NEW w \in Windows, Client(w)
      PROVE  TypeOK'
  BY <1>6, ClientTyped
<1>7. CASE UNCHANGED vars
  BY <1>7 DEF vars
<1> QED
  BY <1>1, <1>2, <1>3, <1>4, <1>5, <1>6, <1>7, <1>8, <1>9 DEF Next, Loop

-----------------------------------------------------------------------------
(* What any step of the client for window w leaves alone: the loop and the *)
(* other windows.                                                          *)

LEMMA ClientLocal ==
    ASSUME TypeOK, NEW w \in Windows, Client(w)
    PROVE  /\ Active(w)
           /\ UNCHANGED <<published, lpc, seen, lastRefreshes>>
           /\ at'[w] \in {"post", "wait", "exec", "done"}
           /\ \A v \in Windows \ {w} :
                 /\ at'[v] = at[v] /\ round'[v] = round[v]
                 /\ added'[v] = added[v] /\ timeline'[v] = timeline[v]
                 /\ posted'[v] = posted[v] /\ verdict'[v] = verdict[v]
<1> USE DEF TypeOK, Return, loopVars, Active
<1>1. CASE PostSend(w)
  BY <1>1 DEF PostSend
<1>2. CASE PostFails(w)
  BY <1>2 DEF PostFails
<1>3. CASE \E class \in {"FIRE", "ABSTAIN"} : PostConcludes(w, class)
  BY <1>3 DEF PostConcludes
<1>4. CASE \E list \in DirectiveLists : PostDirects(w, list)
  BY <1>4 DEF PostDirects
<1>5. CASE SkipDirective(w)
  BY <1>5 DEF SkipDirective
<1>6. CASE \E n \in 0..MaxEntries : ExecuteDirective(w, n)
  BY <1>6 DEF ExecuteDirective
<1>7. CASE EndRound(w)
  BY <1>7 DEF EndRound
<1> QED
  BY <1>1, <1>2, <1>3, <1>4, <1>5, <1>6, <1>7 DEF Client

(* The slot: a step that ends the investigation frees it, no other does.   *)
LEMMA ClientSlot ==
    ASSUME TypeOK, NEW w \in Windows, Client(w)
    PROVE  \/ at'[w] = "done" /\ inFlight' = FALSE
           \/ at'[w] # "done" /\ inFlight' = inFlight
<1> USE DEF TypeOK, Return
<1>1. CASE PostSend(w)
  BY <1>1 DEF PostSend
<1>2. CASE PostFails(w)
  BY <1>2 DEF PostFails
<1>3. CASE \E class \in {"FIRE", "ABSTAIN"} : PostConcludes(w, class)
  BY <1>3 DEF PostConcludes
<1>4. CASE \E list \in DirectiveLists : PostDirects(w, list)
  BY <1>4 DEF PostDirects
<1>5. CASE SkipDirective(w)
  BY <1>5 DEF SkipDirective
<1>6. CASE \E n \in 0..MaxEntries : ExecuteDirective(w, n)
  BY <1>6 DEF ExecuteDirective
<1>7. CASE EndRound(w)
  BY <1>7 DEF EndRound
<1> QED
  BY <1>1, <1>2, <1>3, <1>4, <1>5, <1>6, <1>7 DEF Client

-----------------------------------------------------------------------------
(* The loop and the slot.                                                  *)

(* Loop_Tick reads a newer window than the last launched one, Loop_Launch  *)
(* marks it, and nothing else launches.                                    *)
LEMMA LaunchOrderKept ==
    ASSUME TypeOK, LaunchOrder, [Next]_vars
    PROVE  LaunchOrder'
<1>1. ASSUME NEW w \in Windows, Client(w)
      PROVE  LaunchOrder'
  <2>1. /\ Active(w) /\ UNCHANGED <<published, lpc, seen, lastRefreshes>>
        /\ \A v \in Windows \ {w} : at'[v] = at[v]
    BY <1>1, ClientLocal
  <2> QED
    BY <2>1 DEF LaunchOrder, Active
<1>2. CASE Loop_Tick
  <2>1. published \in Nat /\ lastRefreshes \in Nat
    BY DEF TypeOK
  <2>2. /\ UNCHANGED <<published, lastRefreshes, at>>
        /\ \/ UNCHANGED <<lpc, seen>> /\ lpc = "select"
           \/ published # lastRefreshes /\ seen' = published
    BY <1>2 DEF Loop_Tick, clientVars
  <2> QED
    BY <2>1, <2>2 DEF LaunchOrder
<1> USE DEF LaunchOrder, TypeOK, Windows, loopVars, clientVars
<1>3. CASE Loop_Done
  BY <1>3 DEF Loop_Done
<1>4. CASE Loop_Busy
  BY <1>4 DEF Loop_Busy
<1>5. CASE Loop_Launch
  BY <1>5 DEF Loop_Launch
<1>6. CASE DaemonPublishes
  BY <1>6 DEF DaemonPublishes
<1>7. CASE TickerFires \/ Cancel
  BY <1>7 DEF TickerFires, Cancel
<1>8. CASE UNCHANGED vars
  BY <1>8 DEF vars
<1> QED
  BY <1>1, <1>2, <1>3, <1>4, <1>5, <1>6, <1>7, <1>8 DEF Next, Loop

(* The window the loop holds when it takes the slot was never launched.    *)
LEMMA LaunchesFresh ==
    ASSUME TypeOK, LaunchOrder, Loop_Launch
    PROVE  /\ seen \in Windows /\ at[seen] = "none"
           /\ \A v \in seen..MaxWindows : at[v] = "none"
BY DEF TypeOK, LaunchOrder, Loop_Launch, Windows

(* Loop_Launch takes a free slot for the only active window; the step that *)
(* ends it frees the slot.                                                 *)
LEMMA SingleFlightKept ==
    ASSUME TypeOK, LaunchOrder, SingleFlight, [Next]_vars
    PROVE  SingleFlight'
<1>1. CASE Loop_Launch
  <2>1. at' = [at EXCEPT ![seen] = "post"] /\ inFlight' = TRUE /\ ~inFlight
    BY <1>1 DEF Loop_Launch
  <2>2. \A v \in Windows : ~Active(v)
    BY <2>1 DEF SingleFlight
  <2>3. \A v \in Windows : Active(v)' <=> v = seen
    BY <2>1, <2>2 DEF TypeOK, Active
  <2> QED
    BY <1>1, <2>1, <2>3, LaunchesFresh DEF SingleFlight
<1>2. ASSUME NEW w \in Windows, Client(w)
      PROVE  SingleFlight'
  <2>1. Active(w) /\ \A v \in Windows \ {w} : ~Active(v)
    BY <1>2, ClientLocal DEF SingleFlight
  <2>2. \A v \in Windows \ {w} : ~Active(v)'
    BY <1>2, <2>1, ClientLocal DEF Active
  <2>3. inFlight
    BY <2>1 DEF SingleFlight
  <2>4. CASE at'[w] = "done" /\ inFlight' = FALSE
    BY <2>2, <2>4 DEF SingleFlight, Active
  <2>5. CASE at'[w] # "done" /\ inFlight' = inFlight
    <3>1. Active(w)'
      BY <1>2, <2>5, ClientLocal DEF Active
    <3> QED
      BY <2>2, <2>3, <2>5, <3>1 DEF SingleFlight
  <2> QED
    BY <1>2, <2>4, <2>5, ClientSlot
<1>3. CASE UNCHANGED <<at, inFlight>>
  BY <1>3 DEF SingleFlight, Active
<1>4. Next => Loop_Launch \/ (\E w \in Windows : Client(w))
                \/ UNCHANGED <<at, inFlight>>
  BY DEF Next, Loop, Loop_Tick, Loop_Done, Loop_Busy, DaemonPublishes,
         TickerFires, Cancel, clientVars
<1> QED
  BY <1>1, <1>2, <1>3, <1>4 DEF vars

-----------------------------------------------------------------------------
(* The running pack.  An investigation in its own steps, then the frame.   *)

(* The steps of Client.Investigate for w keep its pack ahead of what it    *)
(* POSTed: ExecuteDirective grows both sides alike, EndRound goes on only  *)
(* if the round added something.                                           *)
LEMMA PackKeptByClient ==
    ASSUME TypeOK, NEW w \in Windows, PackIsAhead(w), Client(w)
    PROVE  PackIsAhead(w)'
<1> USE DEF TypeOK, PackIsAhead
<1>1. CASE PostSend(w)
  <2> DEFINE s == posted[w]
             t == timeline[w]
  <2>1. s \in Seq(Nat) /\ t \in Nat /\ round[w] \in Nat
    OBVIOUS
  <2>2. posted'[w] = Append(s, t) /\ at'[w] = "wait" /\ at[w] = "post"
        /\ timeline'[w] = t /\ round'[w] = round[w]
    BY <1>1 DEF PostSend
  <2>3. /\ Len(s) = round[w] /\ round[w] < MaxRounds
        /\ \A k \in 1..Len(s) : s[k] < t
        /\ \A k \in 2..Len(s) : s[k - 1] < s[k]
    BY <2>2
  <2> HIDE DEF TypeOK, s, t
  <2>4. /\ Len(Append(s, t)) = Len(s) + 1
        /\ \A k \in 1..Len(s) : Append(s, t)[k] = s[k]
        /\ Append(s, t)[Len(s) + 1] = t
    BY <2>1
  <2>5. \A k \in 1..(Len(s) + 1) : Append(s, t)[k] <= t
    BY <2>1, <2>3, <2>4
  <2>6. ASSUME NEW k \in 2..(Len(s) + 1)
        PROVE  Append(s, t)[k - 1] < Append(s, t)[k]
    <3>1. Len(s) \in Nat /\ k - 1 \in 1..Len(s)
      BY <2>1
    <3>2. Append(s, t)[k - 1] = s[k - 1]
      BY <2>4, <3>1
    <3>3. CASE k \in 2..Len(s)
      <4>1. Append(s, t)[k] = s[k] /\ s[k - 1] < s[k]
        BY <2>3, <2>4, <3>1, <3>3
      <4> QED
        BY <3>2, <4>1
    <3>4. CASE k = Len(s) + 1
      <4>1. Append(s, t)[k] = t /\ s[k - 1] < t
        BY <2>3, <2>4, <3>1, <3>4
      <4> QED
        BY <3>2, <4>1
    <3> QED
      BY <3>1, <3>3, <3>4
  <2> QED
    BY <2>1, <2>2, <2>3, <2>4, <2>5, <2>6
<1>2. CASE PostFails(w)
  BY <1>2 DEF PostFails, Return
<1>3. CASE \E class \in {"FIRE", "ABSTAIN"} : PostConcludes(w, class)
  BY <1>3 DEF PostConcludes, Return
<1>4. CASE \E list \in DirectiveLists : PostDirects(w, list)
  <2>1. at[w] = "wait" /\ at'[w] = "exec" /\ added'[w] = 0
        /\ UNCHANGED <<round, timeline, posted>>
    BY <1>4 DEF PostDirects
  <2>2. \A k \in 1..Len(posted[w]) : posted[w][k] \in Nat
    OBVIOUS
  <2> QED
    BY <2>1, <2>2
<1>5. CASE SkipDirective(w)
  BY <1>5 DEF SkipDirective
<1>6. ASSUME NEW n \in 0..MaxEntries, ExecuteDirective(w, n)
      PROVE  PackIsAhead(w)'
  <2>1. at[w] = "exec" /\ UNCHANGED <<at, round, posted>>
        /\ added'[w] = added[w] + n /\ timeline'[w] = timeline[w] + n
    BY <1>6 DEF ExecuteDirective
  <2>2. /\ \A k \in 1..Len(posted[w]) : posted[w][k] \in Nat
        /\ added[w] \in Nat /\ timeline[w] \in Nat /\ n \in Nat
    OBVIOUS
  <2> HIDE DEF TypeOK
  <2>3. \A k \in 1..Len(posted[w]) : posted[w][k] + (added[w] + n) <= timeline[w] + n
    BY <2>1, <2>2
  <2> QED
    BY <2>1, <2>3
<1>7. CASE EndRound(w)
  <2>1. at[w] = "exec" /\ UNCHANGED <<timeline, posted>>
    BY <1>7 DEF EndRound
  <2>2. CASE at'[w] = "post"
    <3>1. added[w] # 0 /\ round'[w] = round[w] + 1 /\ round[w] + 1 < MaxRounds
      BY <1>7, <2>2 DEF EndRound, Return
    <3>2. \A k \in 1..Len(posted[w]) : posted[w][k] \in Nat
      OBVIOUS
    <3> QED
      BY <2>1, <2>2, <3>1, <3>2
  <2>3. CASE at'[w] = "done"
    BY <2>1, <2>3
  <2> QED
    BY <1>7, <2>2, <2>3 DEF EndRound, Return
<1> QED
  BY <1>1, <1>2, <1>3, <1>4, <1>5, <1>6, <1>7 DEF Client

(* A window without a verdict is before or at its first POST.              *)
LEMMA VerdictKeptByClient ==
    ASSUME TypeOK, NEW w \in Windows, PackIsAhead(w), VerdictKnown(w), Client(w)
    PROVE  VerdictKnown(w)'
<1> USE DEF TypeOK, VerdictKnown
<1>1. CASE PostSend(w)
  <2>1. /\ Len(posted[w]) = round[w]
        /\ posted'[w] = Append(posted[w], timeline[w])
        /\ at'[w] = "wait" /\ UNCHANGED <<round, verdict>>
    BY <1>1 DEF PostSend, PackIsAhead
  <2>2. Len(posted'[w]) = round[w] + 1
    BY <2>1
  <2> QED
    BY <2>1, <2>2
<1>2. CASE PostFails(w)
  BY <1>2 DEF PostFails, Return
<1>3. CASE \E class \in {"FIRE", "ABSTAIN"} : PostConcludes(w, class)
  BY <1>3 DEF PostConcludes
<1>4. CASE \E list \in DirectiveLists : PostDirects(w, list)
  BY <1>4 DEF PostDirects
<1>5. CASE SkipDirective(w)
  BY <1>5 DEF SkipDirective
<1>6. CASE \E n \in 0..MaxEntries : ExecuteDirective(w, n)
  BY <1>6 DEF ExecuteDirective
<1>7. CASE EndRound(w)
  BY <1>7 DEF EndRound
<1> QED
  BY <1>1, <1>2, <1>3, <1>4, <1>5, <1>6, <1>7 DEF Client

(* No step but those of its own client changes a window, except that the   *)
(* loop launches it.                                                       *)
LEMMA WindowFrame ==
    ASSUME TypeOK, LaunchOrder, [Next]_vars, NEW v \in Windows, ~Client(v)
    PROVE  /\ \/ at'[v] = at[v]
              \/ at[v] = "none" /\ at'[v] = "post"
           /\ round'[v] = round[v] /\ added'[v] = added[v]
           /\ timeline'[v] = timeline[v] /\ posted'[v] = posted[v]
           /\ verdict'[v] = verdict[v]
<1>1. CASE Loop_Launch
  <2>1. seen \in Windows /\ at[seen] = "none"
    BY <1>1, LaunchesFresh
  <2>2. /\ at' = [at EXCEPT ![seen] = "post"]
        /\ UNCHANGED <<round, added, timeline, posted, verdict>>
    BY <1>1 DEF Loop_Launch
  <2> QED
    BY <2>1, <2>2 DEF TypeOK
<1>2. ASSUME NEW w \in Windows, Client(w)
      PROVE  /\ at'[v] = at[v] /\ round'[v] = round[v]
             /\ added'[v] = added[v] /\ timeline'[v] = timeline[v]
             /\ posted'[v] = posted[v] /\ verdict'[v] = verdict[v]
  BY <1>2, ClientLocal
<1>3. CASE UNCHANGED clientVars
  BY <1>3 DEF clientVars
<1>4. Next => Loop_Launch \/ (\E w \in Windows : Client(w))
                \/ UNCHANGED clientVars
  BY DEF Next, Loop, Loop_Tick, Loop_Done, Loop_Busy, DaemonPublishes,
         TickerFires, Cancel, clientVars
<1> QED
  BY <1>1, <1>2, <1>3, <1>4 DEF vars, clientVars

(* No step of the system disturbs the pack of a window.                    *)
LEMMA PackKept ==
    ASSUME TypeOK, LaunchOrder, [Next]_vars, NEW v \in Windows, PackIsAhead(v)
    PROVE  PackIsAhead(v)'
<1>1. CASE Client(v)
  BY <1>1, PackKeptByClient
<1>2. CASE ~Client(v)
  <2>1. CASE at'[v] = at[v]
    BY <1>2, <2>1, WindowFrame DEF PackIsAhead
  <2>2. CASE at[v] = "none" /\ at'[v] = "post"
    <3>1. round'[v] = 0 /\ posted'[v] = <<>>
      BY <1>2, <2>2, WindowFrame DEF PackIsAhead
    <3>2. Len(posted'[v]) = 0
      BY <3>1
    <3> QED
      BY <2>2, <3>1, <3>2 DEF PackIsAhead
  <2> QED
    BY <1>2, <2>1, <2>2, WindowFrame
<1> QED
  BY <1>1, <1>2

(* No step of the system loses a verdict.                                  *)
LEMMA VerdictKnownKept ==
    ASSUME TypeOK, LaunchOrder, [Next]_vars, NEW v \in Windows, PackIsAhead(v),
           VerdictKnown(v)
    PROVE  VerdictKnown(v)'
<1>1. CASE Client(v)
  BY <1>1, VerdictKeptByClient
<1>2. CASE ~Client(v)
  BY <1>2, WindowFrame DEF VerdictKnown
<1> QED
  BY <1>1, <1>2

-----------------------------------------------------------------------------
(* Vetting.  The clamp, for every directive and every request.             *)

(* Every ceiling of the catalog is a natural number.                       *)
LEMMA CatalogCaps ==
    ASSUME NEW id, Find(id), NEW f \in Fields
    PROVE  builtin[id].cap[f] \in Nat
<1>1. id \in {"dcgm.fields", "prometheus.query", "dmesg.xid", "ebpf.nvlink.retrans"}
  BY DEF Find, builtin
<1>2. \E a, b, c, e \in Nat : builtin[id].cap = Budget(a, b, c, e)
  <2>1. CASE id = "dcgm.fields"
    <3>1. builtin[id].cap = Budget(600, 200, 0, 6000)
      BY <2>1 DEF builtin
    <3> QED
      BY <3>1
  <2>2. CASE id = "prometheus.query"
    <3>1. builtin[id].cap = Budget(300, 100, 0, 4000)
      BY <2>2 DEF builtin
    <3> QED
      BY <3>1
  <2>3. CASE id = "dmesg.xid"
    <3>1. builtin[id].cap = Budget(600, 50, 0, 2000)
      BY <2>3 DEF builtin
    <3> QED
      BY <3>1
  <2>4. CASE id = "ebpf.nvlink.retrans"
    <3>1. builtin[id].cap = Budget(120, 150, 4096, 2000)
      BY <2>4 DEF builtin
    <3> QED
      BY <3>1
  <2> QED
    BY <1>1, <2>1, <2>2, <2>3, <2>4
<1> QED
  BY <1>2 DEF Budget, Fields

(* clampBudget never exceeds the ceiling and never leaves a default where  *)
(* the ceiling is positive.                                                *)
LEMMA ClampWithin ==
    ASSUME NEW d \in Directives, Find(d.capability), NEW f \in Fields
    PROVE  LET c == builtin[d.capability].cap[f] IN
           /\ SafeBudget(d)[f] <= c
           /\ c > 0 => SafeBudget(d)[f] > 0
<1> DEFINE cap == builtin[d.capability].cap
<1>1. cap[f] \in Nat
  BY CatalogCaps
<1>2. SafeBudget(d) = clampBudget(d.budget, cap)
  BY DEF SafeBudget
<1> HIDE DEF cap
<1>3. CASE d.budget = NoBudget
  BY <1>1, <1>2, <1>3 DEF clampBudget, cap
<1>4. CASE d.budget # NoBudget
  <2>1. d.budget \in Requests
    BY <1>4 DEF Directives
  <2>2. d.budget[f] \in Int /\ (f # "MaxDuration" => d.budget[f] >= 0)
    BY <2>1 DEF Requests
  <2>3. SafeBudget(d)[f] = IF f = "MaxDuration"
                           THEN clampDuration(d.budget[f], cap[f])
                           ELSE clampU32(d.budget[f], cap[f])
    BY <1>2, <1>4 DEF clampBudget
  <2> QED
    BY <1>1, <2>2, <2>3 DEF clampDuration, clampU32, cap
<1> QED
  BY <1>3, <1>4

(* Only ExecuteDirective runs a directive, and it runs what Validate       *)
(* handed it.                                                              *)
LEMMA VettedKept ==
    ASSUME TypeOK, ExecutedVetted, [Next]_vars
    PROVE  ExecutedVetted'
<1>1. ASSUME NEW w \in Windows, NEW n \in 0..MaxEntries, ExecuteDirective(w, n)
      PROVE  ExecutedVetted'
  <2> DEFINE d == Head(todo[w])
  <2>1. d \in Directives
    BY <1>1 DEF ExecuteDirective, TypeOK
  <2>2. Accepted(d) /\ executed' = [asked |-> d, run |-> SafeBudget(d)]
    BY <1>1 DEF ExecuteDirective
  <2> HIDE DEF d
  <2>3. Find(d.capability) /\ builtin[d.capability].tier = Unprivileged
    BY <2>2 DEF Accepted, tier0Consent
  <2>4. executed'.asked = d /\ executed'.run = SafeBudget(d)
    BY <2>2
  <2>5. \A f \in Fields :
           /\ SafeBudget(d)[f] <= builtin[d.capability].cap[f]
           /\ builtin[d.capability].cap[f] > 0 => SafeBudget(d)[f] > 0
    BY <2>1, <2>3, ClampWithin
  <2> QED
    BY <2>3, <2>4, <2>5 DEF ExecutedVetted
<1>2. CASE UNCHANGED executed
  BY <1>2 DEF ExecutedVetted
<1>3. Next => (\E w \in Windows : \E n \in 0..MaxEntries : ExecuteDirective(w, n))
                \/ UNCHANGED executed
  BY DEF Next, Loop, Loop_Tick, Loop_Done, Loop_Busy, Loop_Launch,
         DaemonPublishes, TickerFires, Cancel, clientVars, Client, PostSend,
         PostFails, PostConcludes, PostDirects, SkipDirective, EndRound
<1> QED
  BY <1>1, <1>2, <1>3 DEF vars

-----------------------------------------------------------------------------
(* The inductive invariant and the theorems.                               *)

IInv ==
    /\ TypeOK /\ LaunchOrder /\ SingleFlight /\ ExecutedVetted
    /\ \A w \in Windows : PackIsAhead(w) /\ VerdictKnown(w)

(* The inductive invariant holds at the start.                             *)
LEMMA InitIInv == Init => IInv
<1> SUFFICES ASSUME Init PROVE IInv
  OBVIOUS
<1>1. TypeOK
  BY InitTyped
<1>2. LaunchOrder
  BY DEF Init, LaunchOrder
<1>3. SingleFlight
  BY DEF Init, SingleFlight, Active
<1>4. ExecutedVetted
  BY DEF Init, ExecutedVetted
<1>5. ASSUME NEW w \in Windows
      PROVE  PackIsAhead(w) /\ VerdictKnown(w)
  <2>1. /\ at[w] = "none" /\ round[w] = 0 /\ posted[w] = <<>>
    BY DEF Init
  <2>2. Len(posted[w]) = 0
    BY <2>1
  <2> QED
    BY <2>1, <2>2 DEF PackIsAhead, VerdictKnown
<1> QED
  BY <1>1, <1>2, <1>3, <1>4, <1>5 DEF IInv

(* Every step keeps the inductive invariant.                               *)
LEMMA StepIInv == IInv /\ [Next]_vars => IInv'
<1> SUFFICES ASSUME IInv, [Next]_vars PROVE IInv'
  OBVIOUS
<1>1. TypeOK' /\ LaunchOrder' /\ SingleFlight' /\ ExecutedVetted'
  BY StepTyped, LaunchOrderKept, SingleFlightKept, VettedKept DEF IInv
<1>2. ASSUME NEW w \in Windows
      PROVE  PackIsAhead(w)' /\ VerdictKnown(w)'
  BY <1>2, PackKept, VerdictKnownKept DEF IInv
<1> QED
  BY <1>1, <1>2 DEF IInv, Windows

(* IInv holds in every reachable state; it implies the safety properties.  *)
THEOREM Inductive == Spec => []IInv
BY InitIInv, StepIInv, PTL DEF Spec

(* Every reachable state of loop and client is well typed.                 *)
THEOREM TypeCorrect == Spec => []TypeOK
<1>1. IInv => TypeOK
  BY DEF IInv
<1> QED
  BY <1>1, Inductive, PTL

(* runInvestigateLoop never has two investigations in flight, and no exit  *)
(* of Investigate keeps the one-slot channel occupied.                     *)
THEOREM OneInFlight == Spec => []SingleFlight
<1>1. IInv => SingleFlight
  BY DEF IInv
<1> QED
  BY <1>1, Inductive, PTL

(* One window costs at most MaxRounds POSTs, each with a larger pack.      *)
THEOREM PostsBounded == Spec => []PostsBoundedAndGrowing
<1>1. IInv => PostsBoundedAndGrowing
  BY DEF IInv, PackIsAhead, PostsBoundedAndGrowing
<1> QED
  BY <1>1, Inductive, PTL

(* Investigate returns an error without a verdict after the first POST at  *)
(* the latest.                                                             *)
THEOREM VerdictSurvives == Spec => []VerdictKept
<1>1. IInv => VerdictKept
  BY DEF IInv, VerdictKnown, VerdictKept
<1> QED
  BY <1>1, Inductive, PTL

(* Whatever list of directives the control plane sends, Validate hands the *)
(* executor nothing outside the catalog, the enabled tier and the ceiling. *)
THEOREM OnlyVettedRuns == Spec => []ExecutedVetted
<1>1. IInv => ExecutedVetted
  BY DEF IInv
<1> QED
  BY <1>1, Inductive, PTL

(* The loop launches a window at most once, and never an older one.        *)
THEOREM LaunchesInOrder == Spec => LaunchedOnceInOrder
<1> DEFINE Launches ==
      \A w \in Windows : at'[w] # at[w] /\ ~Active(w) =>
          \A v \in w..MaxWindows : at[v] = "none"
<1>1. ASSUME IInv, [Next]_vars
      PROVE  Launches
  <2>0. TypeOK /\ LaunchOrder
    BY <1>1 DEF IInv
  <2>1. CASE Loop_Launch
    <3>1. at' = [at EXCEPT ![seen] = "post"] /\ at \in [Windows -> {"none", "post", "wait", "exec", "done"}]
      BY <2>0, <2>1 DEF Loop_Launch, TypeOK
    <3> QED
      BY <2>0, <2>1, <3>1, LaunchesFresh
  <2>2. ASSUME NEW w \in Windows, Client(w)
        PROVE  Launches
    BY <2>0, <2>2, ClientLocal
  <2>3. CASE UNCHANGED at
    BY <2>3
  <2>4. Next => Loop_Launch \/ (\E w \in Windows : Client(w)) \/ UNCHANGED at
    BY DEF Next, Loop, Loop_Tick, Loop_Done, Loop_Busy, DaemonPublishes,
           TickerFires, Cancel, clientVars
  <2> QED
    BY <1>1, <2>1, <2>2, <2>3, <2>4 DEF vars
<1>2. IInv /\ [Next]_vars => [Launches]_vars
  BY <1>1
<1> QED
  BY <1>2, Inductive, PTL DEF Spec, LaunchedOnceInOrder
=============================================================================
