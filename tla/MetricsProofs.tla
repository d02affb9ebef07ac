---------------------------- MODULE MetricsProofs ---------------------------
(***************************************************************************)
(* The load on the exporter, the conservation of ECC errors and the source *)
(* of what is returned, for any wirings, cap, series and number of errors  *)
(* and driver reloads.                                                     *)
(***************************************************************************)
EXTENDS Metrics, TLAPS

(* Every scrape the gate let through is a cap apart from the one before.   *)
GateSpacing ==
    /\ lastScrapeT <= clock
    /\ bursts > 0 => lastScrapeT # Never /\ (bursts - 1) * BurstCap <= lastScrapeT

(* What was reported and what the next scrape would report are covered by  *)
(* what happened; while the driver was not reloaded they are equal.        *)
EccLedger ==
    ~FieldFallback =>
        /\ prevDBE = Never => reported = 0
        /\ prevDBE # Never =>
              /\ reported <= total[Ecc] - baseline
              /\ reported + (counter[Ecc] - prevDBE) <= total[Ecc] - baseline
        /\ prevDBE # Never /\ reloads = 0 =>
              /\ prevDBE <= counter[Ecc]
              /\ reported + (counter[Ecc] - prevDBE) = total[Ecc] - baseline

USE CapAssumption, SeriesAssumption, BoundsAssumption

(* The ECC counter is one of the series.                                   *)
LEMMA EccIsASeries == Ecc \in Series
BY DEF Series

(* A counter read as a delta is never negative, and 0 the first time.      *)
LEMMA DeltaFacts ==
    ASSUME NEW prev \in {Never} \cup Nat, NEW cur \in Nat
    PROVE  /\ Delta(prev, cur) \in Nat
           /\ prev = Never => Delta(prev, cur) = 0
BY DEF Delta, Never

(* What a scrape that answers adds to the ledger: the delta of the ECC     *)
(* series if the scrape has it and the result is not a merged one.         *)
LEMMA ScrapeReports ==
    ASSUME TypeOK, NEW present, Scrape_Answers(present), ~FieldFallback
    PROVE  /\ Ecc \in present =>
                /\ reported' = reported + Delta(prevDBE, counter[Ecc])
                /\ prevDBE' = counter[Ecc]
                /\ baseline' = IF prevDBE = Never THEN total[Ecc] ELSE baseline
           /\ Ecc \notin present =>
                reported' = reported /\ prevDBE' = prevDBE /\ baseline' = baseline
<1>1. pc # "merge"
  BY DEF TypeOK
<1> DEFINE f == Exposition(present)
<1>2. reported' = reported + (IF f.eccBy = "DCGM" THEN f.ecc ELSE 0)
  BY <1>1 DEF Scrape_Answers
<1>3. /\ f.ecc = IF Ecc \in present THEN Delta(prevDBE, counter[Ecc]) ELSE Unknown
      /\ f.eccBy = IF Ecc \in present THEN "DCGM" ELSE "none"
  BY DEF Exposition, Window
<1>4. reported + 0 = reported
  BY DEF TypeOK
<1> HIDE DEF f
<1> QED
  BY <1>2, <1>3, <1>4 DEF Scrape_Answers, applyDBEDelta

-----------------------------------------------------------------------------
(* A step of the chain: what it does to the gate and to the ledger.        *)
LEMMA CollectStep ==
    ASSUME Collect
    PROVE  /\ UNCHANGED driver
           /\ pc' = "merge" => FieldFallback
           /\ \/ UNCHANGED <<lastScrapeT, bursts>>
              \/ ScrapeAllowed /\ ProfilingBurst
                 /\ lastScrapeT' = clock /\ bursts' = bursts + 1
           /\ \/ UNCHANGED <<prevDBE, baseline, reported>>
              \/ \E present : Scrape_Answers(present)
<1> USE DEF Return, FallbackError, history
<1>1. CASE Collect_Start
  BY <1>1 DEF Collect_Start
<1>2. CASE \E w \in PrimaryWindows : Primary_Devices(w)
  BY <1>2 DEF Primary_Devices
<1>3. CASE \E err \in {"none", "primary"} : Primary_Nothing(err)
  BY <1>3 DEF Primary_Nothing
<1>4. CASE NoFallback
  BY <1>4 DEF NoFallback
<1>5. CASE Scrape_Capped
  BY <1>5 DEF Scrape_Capped
<1>6. CASE Scrape_Fails
  BY <1>6 DEF Scrape_Fails, BeginScrape
<1>7. ASSUME NEW present \in Expositions, Scrape_Answers(present)
      PROVE  /\ UNCHANGED driver
             /\ pc' = "idle"
             /\ \/ UNCHANGED <<lastScrapeT, bursts>>
                \/ ScrapeAllowed /\ ProfilingBurst
                   /\ lastScrapeT' = clock /\ bursts' = bursts + 1
  BY <1>7 DEF Scrape_Answers, BeginScrape
<1> QED
  BY <1>1, <1>2, <1>3, <1>4, <1>5, <1>6, <1>7 DEF Collect

(* The wiring is the operator's choice at the start.                       *)
LEMMA WiringFixed ==
    ASSUME [Next]_vars
    PROVE  wired' = wired
BY CollectStep DEF Next, vars, driver, ClockTick, ErrorHappens, DriverReload

-----------------------------------------------------------------------------
(* The type invariant holds at the start.                                  *)
LEMMA InitTypes == Init => TypeOK
BY DEF Init, TypeOK, Zero, Never

(* Every step keeps it; what a scrape reports is a delta.                *)
LEMMA StepTypes ==
    ASSUME TypeOK, [Next]_vars
    PROVE  TypeOK'
<1>1. CASE Collect
  <2>1. /\ UNCHANGED <<wired, clock, counter, total, reloads>>
        /\ pc' = "merge" => FieldFallback
        /\ lastScrapeT' \in {Never} \cup Nat /\ bursts' \in Nat
    BY <1>1, CollectStep DEF driver, TypeOK
  <2>2. CASE UNCHANGED <<prevDBE, baseline, reported>>
    BY <2>1, <2>2 DEF TypeOK, FieldFallback
  <2>3. ASSUME NEW present, Scrape_Answers(present)
        PROVE  TypeOK'
    <3>1. prevDBE' \in {Never} \cup Nat /\ baseline' \in Nat
      BY <2>3, EccIsASeries DEF TypeOK, Scrape_Answers, applyDBEDelta
    <3>2. ASSUME ~FieldFallback
          PROVE  reported' \in Nat
      <4>1. Delta(prevDBE, counter[Ecc]) \in Nat
        BY DeltaFacts, EccIsASeries DEF TypeOK
      <4>2. reported' = reported + Delta(prevDBE, counter[Ecc]) \/ reported' = reported
        BY <2>3, <3>2, ScrapeReports
      <4> QED
        BY <3>2, <4>1, <4>2 DEF TypeOK
    <3> QED
      BY <2>1, <3>1, <3>2 DEF TypeOK, FieldFallback
  <2> QED
    BY <1>1, <2>2, <2>3, CollectStep
<1>2. CASE ClockTick
  BY <1>2 DEF ClockTick, TypeOK, history, FieldFallback
<1>3. ASSUME NEW s \in Series, ErrorHappens(s)
      PROVE  TypeOK'
  BY <1>3 DEF ErrorHappens, TypeOK, history, FieldFallback
<1>4. CASE DriverReload
  BY <1>4 DEF DriverReload, TypeOK, history, FieldFallback, Zero
<1>5. CASE UNCHANGED vars
  BY <1>5 DEF vars, TypeOK, history, driver, FieldFallback
<1> QED
  BY <1>1, <1>2, <1>3, <1>4, <1>5 DEF Next

-----------------------------------------------------------------------------
(* ScrapeAllowed keeps two scrapes a cap apart; the gate records the time  *)
(* before it scrapes.                                                      *)
LEMMA StepGate ==
    ASSUME TypeOK, GateSpacing, [Next]_vars
    PROVE  GateSpacing'
<1>1. CASE Collect
  <2>1. CASE UNCHANGED <<lastScrapeT, bursts>>
    BY <1>1, <2>1, CollectStep DEF GateSpacing, driver
  <2>2. CASE ScrapeAllowed /\ ProfilingBurst
             /\ lastScrapeT' = clock /\ bursts' = bursts + 1
    <3>1. clock' = clock
      BY <1>1, CollectStep DEF driver
    <3>2. CASE bursts = 0
      <4>1. bursts' - 1 = 0 /\ 0 * BurstCap = 0
        BY <2>2, <3>2
      <4> QED
        BY <2>2, <3>1, <4>1 DEF GateSpacing, TypeOK, Never
    <3>3. CASE bursts > 0
      <4>1. clock - lastScrapeT >= BurstCap /\ (bursts - 1) * BurstCap <= lastScrapeT
        BY <2>2, <3>3 DEF ScrapeAllowed, GateSpacing
      <4>2. (bursts' - 1) * BurstCap = (bursts - 1) * BurstCap + BurstCap
        BY <2>2 DEF TypeOK
      <4>3. (bursts - 1) * BurstCap \in Int /\ lastScrapeT \in Int /\ clock \in Nat
        BY DEF TypeOK, Never
      <4> QED
        BY <2>2, <3>1, <4>1, <4>2, <4>3 DEF GateSpacing, Never
    <3> QED
      BY <3>2, <3>3 DEF TypeOK
  <2> QED
    BY <1>1, <2>1, <2>2, CollectStep
<1>2. CASE ClockTick
  BY <1>2 DEF ClockTick, GateSpacing, TypeOK, Never
<1>3. CASE UNCHANGED <<clock, lastScrapeT, bursts>>
  BY <1>3 DEF GateSpacing
<1> QED
  BY <1>1, <1>2, <1>3 DEF Next, ErrorHappens, DriverReload, vars, driver

(* A scrape moves the delta from unread to reported, an error adds to both *)
(* sides, a reload only takes from the unread.                             *)
LEMMA StepLedger ==
    ASSUME TypeOK, EccLedger, [Next]_vars
    PROVE  EccLedger'
<1> SUFFICES ASSUME ~FieldFallback
             PROVE  /\ prevDBE' = Never => reported' = 0
                    /\ prevDBE' # Never =>
                          /\ reported' <= total'[Ecc] - baseline'
                          /\ reported' + (counter'[Ecc] - prevDBE') <= total'[Ecc] - baseline'
                    /\ prevDBE' # Never /\ reloads' = 0 =>
                          /\ prevDBE' <= counter'[Ecc]
                          /\ reported' + (counter'[Ecc] - prevDBE') = total'[Ecc] - baseline'
  BY WiringFixed DEF EccLedger, FieldFallback
<1>0. /\ counter[Ecc] \in Nat /\ total[Ecc] \in Nat /\ reported \in Nat
      /\ baseline \in Nat /\ reloads \in Nat /\ prevDBE \in {Never} \cup Nat
  BY EccIsASeries DEF TypeOK
<1>1. CASE Collect
  <2>1. UNCHANGED <<counter, total, reloads>>
    BY <1>1, CollectStep DEF driver
  <2>2. CASE UNCHANGED <<prevDBE, baseline, reported>>
    BY <2>1, <2>2 DEF EccLedger
  <2>3. ASSUME NEW present, Scrape_Answers(present)
        PROVE  Ecc \in present =>
                 /\ prevDBE' = counter[Ecc] /\ prevDBE' # Never
                 /\ reported' <= total[Ecc] - baseline'
                 /\ reloads = 0 => reported' = total[Ecc] - baseline'
    <3> SUFFICES ASSUME Ecc \in present
                 PROVE  /\ prevDBE' = counter[Ecc] /\ prevDBE' # Never
                        /\ reported' <= total[Ecc] - baseline'
                        /\ reloads = 0 => reported' = total[Ecc] - baseline'
      OBVIOUS
    <3>1. /\ reported' = reported + Delta(prevDBE, counter[Ecc])
          /\ prevDBE' = counter[Ecc]
          /\ baseline' = IF prevDBE = Never THEN total[Ecc] ELSE baseline
      BY <2>3, ScrapeReports
    <3>2. CASE prevDBE = Never
      <4>1. Delta(prevDBE, counter[Ecc]) = 0
        BY <1>0, <3>2, DeltaFacts
      <4> QED
        BY <1>0, <3>1, <3>2, <4>1 DEF EccLedger, Never
    <3>3. CASE prevDBE # Never
      <4>1. \/ prevDBE <= counter[Ecc]
               /\ Delta(prevDBE, counter[Ecc]) = counter[Ecc] - prevDBE
            \/ counter[Ecc] < prevDBE /\ Delta(prevDBE, counter[Ecc]) = 0
        BY <1>0, <3>3 DEF Delta, Never
      <4> QED
        BY <1>0, <3>1, <3>3, <4>1 DEF EccLedger, Never
    <3> QED
      BY <3>2, <3>3
  <2>4. ASSUME NEW present, Scrape_Answers(present)
        PROVE  Ecc \notin present => UNCHANGED <<prevDBE, baseline, reported>>
    BY <2>4, ScrapeReports
  <2>5. \/ UNCHANGED <<prevDBE, baseline, reported>>
        \/ /\ prevDBE' = counter[Ecc] /\ prevDBE' # Never
           /\ reported' <= total[Ecc] - baseline'
           /\ reloads = 0 => reported' = total[Ecc] - baseline'
    BY <1>1, <2>3, <2>4, CollectStep
  <2>6. baseline' \in Nat /\ reported' \in Nat
    BY WiringFixed, StepTypes DEF TypeOK, FieldFallback
  <2> QED
    BY <1>0, <2>1, <2>2, <2>5, <2>6
<1>2. CASE ClockTick
  BY <1>2 DEF ClockTick, EccLedger, history
<1>3. ASSUME NEW s \in Series, ErrorHappens(s)
      PROVE  /\ UNCHANGED <<prevDBE, baseline, reported, reloads>>
             /\ \/ counter'[Ecc] = counter[Ecc] /\ total'[Ecc] = total[Ecc]
                \/ counter'[Ecc] = counter[Ecc] + 1 /\ total'[Ecc] = total[Ecc] + 1
  BY <1>3, EccIsASeries DEF ErrorHappens, TypeOK, history
<1>4. CASE DriverReload
  <2>1. counter'[Ecc] = 0 /\ reloads' # 0
        /\ UNCHANGED <<total, prevDBE, baseline, reported>>
    BY <1>0, <1>4, EccIsASeries DEF DriverReload, Zero, history
  <2> QED
    BY <1>0, <2>1 DEF EccLedger, Never
<1>5. CASE UNCHANGED vars
  BY <1>5 DEF vars, driver, history, EccLedger
<1>6. ASSUME NEW s \in Series, ErrorHappens(s)
      PROVE  /\ prevDBE' = Never => reported' = 0
             /\ prevDBE' # Never =>
                   /\ reported' <= total'[Ecc] - baseline'
                   /\ reported' + (counter'[Ecc] - prevDBE') <= total'[Ecc] - baseline'
             /\ prevDBE' # Never /\ reloads' = 0 =>
                   /\ prevDBE' <= counter'[Ecc]
                   /\ reported' + (counter'[Ecc] - prevDBE') = total'[Ecc] - baseline'
  BY <1>0, <1>3, <1>6 DEF EccLedger, Never
<1> QED
  BY <1>1, <1>2, <1>4, <1>5, <1>6 DEF Next

-----------------------------------------------------------------------------
IInv == TypeOK /\ GateSpacing /\ EccLedger

(* The spacing of the gate and the ledger hold along every run.            *)
LEMMA Inductive == Spec => []IInv
<1>1. Init => IInv
  BY InitTypes DEF Init, IInv, GateSpacing, EccLedger, Never
<1>2. IInv /\ [Next]_vars => IInv'
  BY StepTypes, StepGate, StepLedger DEF IInv
<1> QED
  BY <1>1, <1>2, PTL DEF Spec

(* ScrapeAllowed keeps the exporter's load within the cap over any run,    *)
(* whatever fails and whoever asks for the scrape.                         *)
THEOREM LoadWithinCap == Spec => []LoadBounded
<1>1. ASSUME IInv
      PROVE  LoadBounded
  <2>1. /\ clock \in Int /\ bursts \in Nat /\ lastScrapeT \in Int
        /\ (bursts - 1) * BurstCap \in Int
    BY <1>1 DEF IInv, TypeOK, Never
  <2> QED
    BY <1>1, <2>1 DEF IInv, GateSpacing, LoadBounded
<1>2. IInv => LoadBounded
  BY <1>1
<1> QED
  BY <1>2, Inductive, PTL

(* applyDBEDelta neither loses nor invents an ECC error, through resets,   *)
(* failed scrapes and missing series.                                      *)
THEOREM EccErrorsConserved == Spec => []EccConserved
<1>1. IInv => EccConserved
  BY DEF IInv, EccLedger, EccConserved
<1> QED
  BY <1>1, Inductive, PTL

(* The counters stay numbers.                                              *)
THEOREM TypeCorrect == Spec => []TypeOK
<1>1. IInv => TypeOK
  BY DEF IInv
<1> QED
  BY <1>1, Inductive, PTL

-----------------------------------------------------------------------------
(* What the primary answered and a merge keeps for the exporter's answer.  *)
PrimaryHeld == primaryObs \in PrimaryWindows \cup {NoDevices}

(* A value the primary knows is its own; the exporter's is only taken when *)
(* the primary knows none.                                                 *)
LEMMA PrimaryEcc ==
    ASSUME NEW w \in PrimaryWindows \cup {NoDevices}
    PROVE  /\ w.ecc > 0 => w.eccBy = "PROMETHEUS"
           /\ \A f : /\ mergeFallback(w, f).ecc =
                            IF w.ecc # Unknown THEN w.ecc ELSE f.ecc
                    /\ mergeFallback(w, f).eccBy =
                            IF w.ecc # Unknown THEN w.eccBy ELSE f.eccBy
<1>1. w = [devices |-> w.devices, peak |-> w.peak, ecc |-> w.ecc,
           eccBy |-> w.eccBy, link |-> w.link]
  BY DEF PrimaryWindows, Window, NoDevices
<1>2. w.ecc > 0 => w.eccBy = "PROMETHEUS"
  BY DEF PrimaryWindows, Window, NoDevices, Unknown
<1>3. ASSUME NEW f
      PROVE  /\ mergeFallback(w, f).ecc = IF w.ecc # Unknown THEN w.ecc ELSE f.ecc
             /\ mergeFallback(w, f).eccBy =
                  IF w.ecc # Unknown THEN w.eccBy ELSE f.eccBy
  <2> DEFINE p == w.peak \/ f.peak
             e == IF w.ecc # Unknown THEN w.ecc ELSE f.ecc
             b == IF w.ecc # Unknown THEN w.eccBy ELSE f.eccBy
             l == IF w.link # Unknown THEN w.link ELSE f.link
  <2>1. mergeFallback(w, f) = [w EXCEPT !.peak = p, !.ecc = e, !.eccBy = b, !.link = l]
    BY DEF mergeFallback
  <2> HIDE DEF p, e, b, l
  <2>2. /\ [w EXCEPT !.peak = p, !.ecc = e, !.eccBy = b, !.link = l].ecc = e
        /\ [w EXCEPT !.peak = p, !.ecc = e, !.eccBy = b, !.link = l].eccBy = b
    BY <1>1
  <2> QED
    BY <2>1, <2>2 DEF e, b
<1> QED
  BY <1>2, <1>3

(* A Collect starts with nothing held and holds what Prometheus answered.  *)
LEMMA PrimaryHeldAlways == Spec => []PrimaryHeld
<1>1. Init => PrimaryHeld
  BY DEF Init, PrimaryHeld
<1>2. ASSUME PrimaryHeld, [Next]_vars
      PROVE  PrimaryHeld'
  <2>1. \/ primaryObs' \in {primaryObs, NoDevices}
        \/ \E w \in PrimaryWindows : Primary_Devices(w)
    BY <1>2 DEF Next, Collect, Collect_Start, Primary_Nothing, NoFallback,
                Scrape_Capped, Scrape_Fails, Scrape_Answers, ClockTick,
                ErrorHappens, DriverReload, vars
  <2> QED
    BY <1>2, <2>1 DEF PrimaryHeld, Primary_Devices
<1>3. PrimaryHeld /\ [Next]_vars => PrimaryHeld'
  BY <1>2
<1> QED
  BY <1>1, <1>3, PTL DEF Spec

(* A step that returns an observation records the source it names; a step  *)
(* that returns an error, or nothing yet, leaves the record alone.         *)
LEMMA StepSource ==
    ASSUME TypeOK, PrimaryHeld, SourceHonest, [Next]_vars
    PROVE  SourceHonest'
<1> DEFINE Honest(res) ==
               res.window.ecc > 0 =>
                 \/ res.window.eccBy = res.source
                 \/ /\ FieldFallback
                    /\ res.window.eccBy = "DCGM" /\ res.source = "PROMETHEUS"
           Kept == UNCHANGED <<selected, result, told>>
           Unanswered == /\ UNCHANGED <<selected, told>>
                         /\ result'.window = NoDevices
           Answered(src) == /\ selected' = src /\ told' = src
                            /\ Honest(result')
<1>0. wired' = wired
  BY WiringFixed
<1>1. Kept => SourceHonest'
  BY <1>0 DEF SourceHonest, Source, declaredSource, HasPrimary, HasFallback, FieldFallback
<1>2. Unanswered => SourceHonest'
  BY <1>0 DEF SourceHonest, Source, declaredSource, HasPrimary, HasFallback,
              NoDevices, Unknown
<1>3. ASSUME NEW src, Answered(src)
      PROVE  SourceHonest'
  BY <1>0, <1>3 DEF SourceHonest, Source, declaredSource, HasPrimary, HasFallback,
                    FieldFallback
<1> USE DEF Return, recordSelected, NoHistory, Result, FallbackError
<1>4. CASE Collect_Start
  BY <1>1, <1>4 DEF Collect_Start
<1>5. ASSUME NEW w \in PrimaryWindows, Primary_Devices(w)
      PROVE  Kept \/ Answered("PROMETHEUS")
  <2>1. w.ecc > 0 => w.eccBy = "PROMETHEUS"
    BY <1>5 DEF PrimaryWindows, Window, Unknown
  <2> QED
    BY <1>5, <2>1 DEF Primary_Devices
<1>6. ASSUME NEW err \in {"none", "primary"}, Primary_Nothing(err)
      PROVE  Kept
  BY <1>6 DEF Primary_Nothing
<1>7. CASE NoFallback
  <2>1. ~(NoDevices.ecc > 0)
    BY DEF NoDevices, Unknown
  <2>2. Unanswered \/ Answered(declaredSource)
    BY <1>7, <2>1 DEF NoFallback
  <2> QED
    BY <1>2, <1>3, <2>2
<1>8. CASE Scrape_Capped \/ Scrape_Fails
  <2>1. CASE pc = "merge"
    <3>1. Answered("PROMETHEUS")
      BY <1>8, <2>1, PrimaryEcc DEF PrimaryHeld, Scrape_Capped, Scrape_Fails
    <3> QED
      BY <1>3, <3>1
  <2>2. CASE pc # "merge"
    BY <1>2, <1>8, <2>2 DEF Scrape_Capped, Scrape_Fails
  <2> QED
    BY <2>1, <2>2
<1>9. ASSUME NEW present \in Expositions, Scrape_Answers(present)
      PROVE  SourceHonest'
  <2> DEFINE f == Exposition(present)
  <2>0. f.ecc > 0 => f.eccBy = "DCGM"
    BY DEF Exposition, Window, Unknown
  <2>1. CASE pc = "merge"
    <3>1. /\ selected' = "PROMETHEUS" /\ told' = "PROMETHEUS"
          /\ result'.source = "PROMETHEUS"
          /\ result'.window = mergeFallback(primaryObs, f)
      BY <1>9, <2>1 DEF Scrape_Answers
    <3> HIDE DEF f
    <3>2. /\ result'.window.ecc =
               IF primaryObs.ecc # Unknown THEN primaryObs.ecc ELSE f.ecc
          /\ result'.window.eccBy =
               IF primaryObs.ecc # Unknown THEN primaryObs.eccBy ELSE f.eccBy
          /\ primaryObs.ecc > 0 => primaryObs.eccBy = "PROMETHEUS"
      BY <3>1, PrimaryEcc DEF PrimaryHeld
    <3>3. FieldFallback
      BY <2>1 DEF TypeOK
    <3> QED
      BY <1>3, <2>0, <3>1, <3>2, <3>3
  <2>2. CASE pc # "merge"
    <3>2. result'.window = f /\ result'.source = "DCGM"
          /\ selected' = "DCGM" /\ told' = "DCGM"
      BY <1>9, <2>2 DEF Scrape_Answers
    <3> HIDE DEF f
    <3> QED
      BY <1>3, <2>0, <3>2
  <2> QED
    BY <2>1, <2>2
<1>10. CASE ClockTick \/ DriverReload \/ UNCHANGED vars
  BY <1>1, <1>10 DEF ClockTick, DriverReload, vars
<1>11. ASSUME NEW s \in Series, ErrorHappens(s)
       PROVE  Kept
  BY <1>11 DEF ErrorHappens
<1> QED
  BY <1>1, <1>3, <1>4, <1>5, <1>6, <1>7, <1>8, <1>9, <1>10, <1>11 DEF Next, Collect

(* At every moment, of every wiring, Source() names the source of the      *)
(* observation last returned without an error, also after a Collect that   *)
(* failed; a delta travels under the source that observed it, or under     *)
(* Prometheus when FieldFallback merged it into its observation.           *)
THEOREM SourceIsTold == Spec => []SourceHonest
<1>1. Init => SourceHonest
  BY DEF Init, SourceHonest, Source, Result, NoDevices, Unknown
<1>2. TypeOK /\ PrimaryHeld /\ SourceHonest /\ [Next]_vars => SourceHonest'
  BY StepSource
<1> QED
  BY <1>1, <1>2, TypeCorrect, PrimaryHeldAlways, PTL DEF Spec

-----------------------------------------------------------------------------
(* The link errors.  One baseline stands for the sum of the counters, so   *)
(* the delta is honest only of scrapes that carry all of them or none.     *)
WholeScrapes ==
    \A present \in Expositions :
        LinkSeries \subseteq present \/ present \cap LinkSeries = {}

(* What the next scrape would report has happened since the last reading.  *)
LinkLedger ==
    /\ prevLinkErr \in {Never} \cup Nat
    /\ lastRead \in [Series -> Nat]
    /\ \A s \in LinkSeries : lastRead[s] <= total[s]
    /\ primaryObs \in PrimaryWindows \cup {NoDevices}
    /\ prevLinkErr # Never =>
          LinkSum(counter, LinkSeries) - prevLinkErr
            <= LinkSum(total, LinkSeries) - LinkSum(lastRead, LinkSeries)

(* A sum of natural numbers is one, and every link series counts.          *)
LEMMA LinkSumFacts ==
    ASSUME NEW f \in [Series -> Nat]
    PROVE  /\ LinkSum(f, LinkSeries) \in Nat
           /\ \A present : LinkSeries \subseteq present =>
                 LinkSum(f, present) = LinkSum(f, LinkSeries)
<1>1. \A s \in LinkSeries : s \in Series /\ f[s] \in Nat
  BY DEF Series
<1>2. LinkSum(f, LinkSeries) \in Nat
  BY <1>1 DEF LinkSum
<1>3. ASSUME NEW present, LinkSeries \subseteq present
      PROVE  LinkSum(f, present) = LinkSum(f, LinkSeries)
  BY <1>3 DEF LinkSum
<1> QED
  BY <1>2, <1>3

(* Counter by counter, sums follow.                                        *)
LEMMA LinkSumDifference ==
    ASSUME NEW f \in [Series -> Nat], NEW g \in [Series -> Nat],
           NEW h \in [Series -> Int], \A s \in LinkSeries : h[s] = f[s] - g[s]
    PROVE  LinkSum(h, LinkSeries) = LinkSum(f, LinkSeries) - LinkSum(g, LinkSeries)
<1>1. \A s \in LinkSeries : f[s] \in Nat /\ g[s] \in Nat
  BY DEF Series
<1> QED
  BY <1>1 DEF LinkSum

(* One more error adds one to the sum, or to none of its terms.            *)
LEMMA LinkSumOneMore ==
    ASSUME NEW f \in [Series -> Nat], NEW s \in Series, NEW g,
           g = [f EXCEPT ![s] = f[s] + 1]
    PROVE  LinkSum(g, LinkSeries) =
             LinkSum(f, LinkSeries) + (IF s \in LinkSeries THEN 1 ELSE 0)
<1>1. \A t \in LinkSeries : /\ t \in Series /\ f[t] \in Nat
                            /\ g[t] = IF t = s THEN f[t] + 1 ELSE f[t]
  BY DEF Series
<1>2. CASE s \in LinkSeries
  BY <1>1, <1>2 DEF LinkSum, dcgmLinkErrSymbols
<1>3. CASE s \notin LinkSeries
  <2>1. \A t \in LinkSeries : g[t] = f[t]
    BY <1>1, <1>3
  <2> QED
    BY <1>1, <1>3, <2>1 DEF LinkSum
<1> QED
  BY <1>2, <1>3

(* Prometheus does not read the link counters, so a merge takes the        *)
(* exporter's reading.                                                     *)
LEMMA PrimaryLink ==
    ASSUME NEW w \in PrimaryWindows \cup {NoDevices}
    PROVE  /\ w.link = Unknown
           /\ \A f : mergeFallback(w, f).link = f.link
<1>1. /\ w = [devices |-> w.devices, peak |-> w.peak, ecc |-> w.ecc,
              eccBy |-> w.eccBy, link |-> w.link]
      /\ w.link = Unknown
  BY DEF PrimaryWindows, Window, NoDevices
<1>2. ASSUME NEW f
      PROVE  mergeFallback(w, f).link = IF w.link # Unknown THEN w.link ELSE f.link
  <2> DEFINE p == w.peak \/ f.peak
             e == IF w.ecc # Unknown THEN w.ecc ELSE f.ecc
             b == IF w.ecc # Unknown THEN w.eccBy ELSE f.eccBy
             l == IF w.link # Unknown THEN w.link ELSE f.link
  <2>1. mergeFallback(w, f) = [w EXCEPT !.peak = p, !.ecc = e, !.eccBy = b, !.link = l]
    BY DEF mergeFallback
  <2> HIDE DEF p, e, b, l
  <2>2. [w EXCEPT !.peak = p, !.ecc = e, !.eccBy = b, !.link = l].link = l
    BY <1>1
  <2> QED
    BY <2>1, <2>2 DEF l
<1> QED
  BY <1>1, <1>2

(* An answer without a link reading is never a spike.                      *)
LEMMA NoReading ==
    ASSUME result'.window.link = Unknown, result'.sinceRead = Zero
    PROVE  NoSpuriousSpike'
<1>1. LinkSum(Zero, LinkSeries) = 0
  <2>1. \A s \in LinkSeries : Zero[s] = 0
    BY DEF Zero, Series
  <2> QED
    BY <2>1 DEF LinkSum
<1> QED
  BY <1>1 DEF NoSpuriousSpike, Unknown

(* A scrape that answers: it reports what happened at most, and leaves     *)
(* nothing unread.                                                         *)
LEMMA ScrapeLink ==
    ASSUME TypeOK, LinkLedger, WholeScrapes,
           NEW present \in Expositions, Scrape_Answers(present)
    PROVE  LinkLedger' /\ NoSpuriousSpike'
<1> DEFINE now == LinkSum(counter, LinkSeries)
           since == LinkSum(Since(lastRead), LinkSeries)
           f == Exposition(present)
<1>1. /\ counter \in [Series -> Nat] /\ total \in [Series -> Nat]
      /\ lastRead \in [Series -> Nat]
      /\ UNCHANGED <<counter, total, primaryObs>>
  BY DEF TypeOK, LinkLedger, Scrape_Answers, driver
<1>2. now \in Nat /\ LinkSum(total, LinkSeries) \in Nat
      /\ LinkSum(lastRead, LinkSeries) \in Nat
  BY <1>1, LinkSumFacts
<1>3. since = LinkSum(total, LinkSeries) - LinkSum(lastRead, LinkSeries)
  <2>1. /\ Since(lastRead) \in [Series -> Int]
        /\ \A s \in LinkSeries : Since(lastRead)[s] = total[s] - lastRead[s]
    BY <1>1 DEF Since, Series
  <2> QED
    BY <1>1, <2>1, LinkSumDifference
<1>4. since \in Nat
  <2>1. \A s \in LinkSeries : Since(lastRead)[s] \in Nat
    BY <1>1 DEF Since, Series, LinkLedger
  <2> QED
    BY <2>1 DEF LinkSum
<1>5. lastRead' = [s \in Series |-> IF s \in present THEN total[s] ELSE lastRead[s]]
  BY DEF Scrape_Answers
<1>6. /\ lastRead' \in [Series -> Nat]
      /\ \A s \in LinkSeries : lastRead'[s] <= total'[s]
  <2>1. lastRead' \in [Series -> Nat]
    BY <1>1, <1>5
  <2>2. ASSUME NEW s \in LinkSeries PROVE lastRead'[s] <= total'[s]
    <3>1. s \in Series /\ total[s] \in Nat /\ lastRead[s] <= total[s]
      BY <1>1 DEF LinkLedger, Series
    <3>2. lastRead'[s] = IF s \in present THEN total[s] ELSE lastRead[s]
      BY <1>5, <3>1
    <3> QED
      BY <1>1, <3>1, <3>2
  <2> QED
    BY <2>1, <2>2
<1>7. /\ result'.window.link = f.link
      /\ result'.sinceRead = Since(lastRead)
  <2>1. CASE pc = "merge"
    <3>1. mergeFallback(primaryObs, f).link = f.link
      BY PrimaryLink DEF LinkLedger
    <3> QED
      BY <2>1, <3>1 DEF Scrape_Answers, Return, Result
  <2>2. CASE pc # "merge"
    BY <2>2 DEF Scrape_Answers, Return, Result
  <2> QED
    BY <2>1, <2>2
<1>8. CASE present \cap LinkSeries = {}
  <2>1. f.link = Unknown /\ prevLinkErr' = prevLinkErr
    BY <1>8 DEF Exposition, Window, Scrape_Answers, applyLinkErrDelta
  <2>2. LinkSum(lastRead', LinkSeries) = LinkSum(lastRead, LinkSeries)
    <3>1. \A s \in LinkSeries : lastRead'[s] = lastRead[s]
      BY <1>5, <1>8 DEF Series
    <3> QED
      BY <3>1 DEF LinkSum
  <2>3. NoSpuriousSpike'
    <3> HIDE DEF f
    <3>1. result'.window.link <= since
      BY <1>4, <1>7, <2>1 DEF Unknown
    <3> QED
      BY <1>7, <3>1 DEF NoSpuriousSpike
  <2> QED
    BY <1>1, <1>6, <2>1, <2>2, <2>3 DEF LinkLedger
<1>9. CASE present \cap LinkSeries # {}
  <2>1. LinkSum(counter, present) = now
    BY <1>1, <1>9, LinkSumFacts DEF WholeScrapes
  <2>2. f.link = Delta(prevLinkErr, now) /\ prevLinkErr' = now
    BY <1>9, <2>1 DEF Exposition, Window, Scrape_Answers, applyLinkErrDelta
  <2>3. Delta(prevLinkErr, now) <= since
    <3>1. prevLinkErr # Never => now - prevLinkErr <= since
      BY <1>3 DEF LinkLedger
    <3> HIDE DEF now, since
    <3> QED
      BY <1>4, <3>1 DEF Delta
  <2>4. LinkSum(lastRead', LinkSeries) = LinkSum(total', LinkSeries)
    <3>1. \A s \in LinkSeries : lastRead'[s] = total'[s]
      BY <1>1, <1>5, <1>9 DEF WholeScrapes, Series
    <3> QED
      BY <3>1 DEF LinkSum
  <2>5. NoSpuriousSpike'
    <3> HIDE DEF f
    <3>1. result'.window.link <= since
      BY <1>7, <2>2, <2>3
    <3> QED
      BY <1>7, <3>1 DEF NoSpuriousSpike
  <2>6. LinkSum(counter', LinkSeries) = prevLinkErr'
    BY <1>1, <2>2
  <2>7. LinkSum(total', LinkSeries) \in Nat
    BY <1>1, <1>2
  <2> HIDE DEF now
  <2> QED
    BY <1>1, <1>2, <1>6, <2>2, <2>4, <2>5, <2>6, <2>7 DEF LinkLedger
<1> QED
  BY <1>8, <1>9

(* An error adds to both sides, a reload takes from what is unread, and an *)
(* answer that is not a scrape has no link reading.                        *)
LEMMA StepLink ==
    ASSUME TypeOK, LinkLedger, NoSpuriousSpike, WholeScrapes, [Next]_vars
    PROVE  LinkLedger' /\ NoSpuriousSpike'
<1>0. /\ counter \in [Series -> Nat] /\ total \in [Series -> Nat]
      /\ lastRead \in [Series -> Nat]
  BY DEF TypeOK, LinkLedger
<1> DEFINE Quiet == UNCHANGED <<counter, total, prevLinkErr, lastRead>>
           Unread == \/ result' = result
                     \/ /\ result'.window.link = Unknown
                        /\ result'.sinceRead = Zero
<1>1. ASSUME Quiet, Unread, primaryObs' \in PrimaryWindows \cup {NoDevices}
      PROVE  LinkLedger' /\ NoSpuriousSpike'
  <2>1. NoSpuriousSpike'
    BY <1>1, NoReading DEF NoSpuriousSpike
  <2> QED
    BY <1>1, <2>1 DEF LinkLedger
<1> USE DEF Return, driver, history
<1>2. /\ NoDevices.link = Unknown
      /\ primaryObs.link = Unknown
      /\ primaryObs \in PrimaryWindows \cup {NoDevices}
  BY PrimaryLink DEF NoDevices, LinkLedger
<1>3. ASSUME NEW err, NEW src, NEW w, w.link = Unknown,
             result' = NoHistory(err, src, w)
      PROVE  Unread
  BY <1>3 DEF NoHistory, Result
<1>4. CASE Collect_Start \/ NoFallback
  <2>1. Quiet /\ primaryObs' \in PrimaryWindows \cup {NoDevices}
    BY <1>2, <1>4 DEF Collect_Start, NoFallback
  <2>2. Unread
    BY <1>2, <1>3, <1>4 DEF Collect_Start, NoFallback
  <2> QED
    BY <1>1, <2>1, <2>2
<1>5. ASSUME NEW w \in PrimaryWindows, Primary_Devices(w)
      PROVE  LinkLedger' /\ NoSpuriousSpike'
  <2>1. Quiet /\ primaryObs' \in PrimaryWindows \cup {NoDevices}
    BY <1>2, <1>5 DEF Primary_Devices
  <2>2. w.link = Unknown
    BY PrimaryLink
  <2>3. Unread
    BY <1>3, <1>5, <2>2 DEF Primary_Devices
  <2> QED
    BY <1>1, <2>1, <2>3
<1>6. ASSUME NEW err \in {"none", "primary"}, Primary_Nothing(err)
      PROVE  LinkLedger' /\ NoSpuriousSpike'
  <2>1. Quiet /\ Unread /\ primaryObs' = primaryObs
    BY <1>6 DEF Primary_Nothing
  <2> QED
    BY <1>1, <1>2, <2>1
<1>11. CASE Scrape_Capped \/ Scrape_Fails
  <2>1. Quiet /\ primaryObs' = primaryObs
    BY <1>11 DEF Scrape_Capped, Scrape_Fails
  <2>2. \E err, src, w : w.link = Unknown /\ result' = NoHistory(err, src, w)
    BY <1>2, <1>11 DEF Scrape_Capped, Scrape_Fails, FallbackError
  <2> QED
    BY <1>1, <1>2, <1>3, <2>1, <2>2
<1>7. ASSUME NEW present \in Expositions, Scrape_Answers(present)
      PROVE  LinkLedger' /\ NoSpuriousSpike'
  BY <1>7, ScrapeLink
<1>8. CASE ClockTick \/ UNCHANGED vars
  <2>1. Quiet /\ Unread /\ primaryObs' = primaryObs
    BY <1>8 DEF ClockTick, vars
  <2> QED
    BY <1>1, <1>2, <2>1
<1>9. ASSUME NEW s \in Series, ErrorHappens(s)
      PROVE  LinkLedger' /\ NoSpuriousSpike'
  <2>1. /\ counter' = [counter EXCEPT ![s] = counter[s] + 1]
        /\ total' = [total EXCEPT ![s] = total[s] + 1]
        /\ UNCHANGED <<prevLinkErr, lastRead, primaryObs, result>>
    BY <1>9 DEF ErrorHappens
  <2>2. /\ LinkSum(counter', LinkSeries) =
             LinkSum(counter, LinkSeries) + (IF s \in LinkSeries THEN 1 ELSE 0)
        /\ LinkSum(total', LinkSeries) =
             LinkSum(total, LinkSeries) + (IF s \in LinkSeries THEN 1 ELSE 0)
    BY <1>0, <2>1, LinkSumOneMore
  <2>3. \A t \in LinkSeries : lastRead'[t] <= total'[t]
    <3>1. ASSUME NEW t \in LinkSeries PROVE lastRead'[t] <= total'[t]
      <4>1. t \in Series /\ total[t] \in Nat /\ lastRead[t] \in Nat
            /\ lastRead[t] <= total[t]
        BY <1>0 DEF LinkLedger, Series
      <4>2. total'[t] \in {total[t], total[t] + 1}
        BY <1>0, <2>1, <4>1
      <4> QED
        BY <2>1, <4>1, <4>2
    <3> QED
      BY <3>1
  <2>4. /\ LinkSum(counter, LinkSeries) \in Nat
        /\ LinkSum(total, LinkSeries) \in Nat
        /\ LinkSum(lastRead, LinkSeries) \in Nat
    BY <1>0, LinkSumFacts
  <2>5. NoSpuriousSpike'
    BY <2>1 DEF NoSpuriousSpike
  <2>6. lastRead' = lastRead /\ prevLinkErr' = prevLinkErr /\ primaryObs' = primaryObs
    BY <2>1
  <2> QED
    BY <2>2, <2>3, <2>4, <2>5, <2>6 DEF LinkLedger, Never
<1>10. CASE DriverReload
  <2>1. counter' = Zero /\ UNCHANGED <<total, prevLinkErr, lastRead, primaryObs, result>>
    BY <1>10 DEF DriverReload
  <2>2. LinkSum(counter', LinkSeries) = 0
    <3>1. \A s \in LinkSeries : counter'[s] = 0
      BY <2>1 DEF Zero, Series
    <3> QED
      BY <3>1 DEF LinkSum
  <2>3. LinkSum(lastRead, LinkSeries) <= LinkSum(total, LinkSeries)
    <3>1. \A s \in LinkSeries : /\ lastRead[s] \in Nat /\ total[s] \in Nat
                                /\ lastRead[s] <= total[s]
      BY <1>0 DEF LinkLedger, Series
    <3> QED
      BY <3>1 DEF LinkSum
  <2>4. /\ LinkSum(total, LinkSeries) \in Nat
        /\ LinkSum(lastRead, LinkSeries) \in Nat
    BY <1>0, LinkSumFacts
  <2>5. NoSpuriousSpike'
    BY <2>1 DEF NoSpuriousSpike
  <2> QED
    BY <2>1, <2>2, <2>3, <2>4, <2>5 DEF LinkLedger, Never
<1> QED
  BY <1>4, <1>5, <1>6, <1>7, <1>8, <1>9, <1>10, <1>11 DEF Next, Collect

(* As long as no scrape comes with some link counters and without others,  *)
(* applyLinkErrDelta reports no link error that did not happen, through    *)
(* resets, failed scrapes, missing readings and merges.  (Without that     *)
(* condition it does: the run Metrics_spike.)                              *)
THEOREM NoSpikeFromWholeScrapes ==
    ASSUME WholeScrapes
    PROVE  Spec => []NoSpuriousSpike
<1>1. Init => LinkLedger /\ NoSpuriousSpike
  <2> SUFFICES ASSUME Init PROVE LinkLedger /\ NoSpuriousSpike
    OBVIOUS
  <2>1. LinkLedger
    BY DEF Init, LinkLedger, Zero, NoDevices, Series
  <2>2. LinkSum(Zero, LinkSeries) = 0
    BY DEF LinkSum, Zero, Series
  <2>3. result.window.link = Unknown /\ result.sinceRead = Zero
    BY DEF Init, Result, NoDevices
  <2> QED
    BY <2>1, <2>2, <2>3 DEF NoSpuriousSpike, Unknown
<1>2. TypeOK /\ LinkLedger /\ NoSpuriousSpike /\ [Next]_vars
        => LinkLedger' /\ NoSpuriousSpike'
  BY StepLink
<1> QED
  BY <1>1, <1>2, TypeCorrect, PTL DEF Spec
=============================================================================
