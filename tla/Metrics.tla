------------------------------ MODULE Metrics -------------------------------
(***************************************************************************)
(* The metrics source of a node: MetricsChain (collectors_chain.go), which *)
(* prefers Prometheus and falls back to the DCGM exporter, and the state   *)
(* DCGMExporterCollector (collectors_dcgm.go) keeps between bursts: the   *)
(* rate cap of profiling bursts and the baselines that turn the driver's   *)
(* lifetime error counters into the delta of a window.  One device; the    *)
(* baselines are kept per UUID and no device reads another's.              *)
(***************************************************************************)
EXTENDS Integers, FiniteSets, FiniteSetsExt

CONSTANTS
    Wirings,     \* the sets of endpoints and options an agent may run with
    BurstCap,    \* the rate gate, in clock units
    LinkSeries,  \* the link-error counters this exporter is configured with
    Vanishing,   \* series a scrape may come without
    MaxClock, MaxEvents, MaxReloads  \* bounds

(* NVLink CRC and replay errors and PCIe replays; double-bit ECC errors.   *)
dcgmLinkErrSymbols == {"crc", "replay", "pcie"}
Ecc == "ecc"
Series == LinkSeries \cup {Ecc}

ASSUME WiringAssumption ==
    Wirings \subseteq SUBSET {"PROMETHEUS", "DCGM", "FieldFallback", "ProfilingBurst"}
ASSUME CapAssumption == BurstCap \in Nat \ {0}
ASSUME SeriesAssumption ==
    LinkSeries \subseteq dcgmLinkErrSymbols /\ Vanishing \subseteq Series
ASSUME BoundsAssumption ==
    MaxClock \in Nat /\ MaxEvents \in Nat /\ MaxReloads \in Nat

VARIABLES
    wired,        \* the endpoints and options of this agent
    clock,
    counter,      \* the driver's cumulative counter of each series
    total,        \* errors that really happened, per series
    reloads,      \* driver reloads so far
    lastScrapeT, prevDBE, prevLinkErr,   \* DCGMExporterCollector
    selected,     \* the selectedSource cell of the chain
    pc, primaryErr, primaryObs,          \* the Collect of the chain in progress
    result,       \* what the last Collect returned
    told,         \* the source of the observation last returned without an error
    bursts,       \* scrapes the rate gate let through
    lastRead,     \* total at the last reading of each series
    baseline,     \* total at the first reading of the ECC counter
    reported      \* sum of the ECC deltas returned as observed by DCGM

driver == <<wired, clock, counter, total, reloads>>
history == <<lastRead, baseline>>
vars == <<wired, clock, counter, total, reloads, lastScrapeT, prevDBE, prevLinkErr,
          selected, pc, primaryErr, primaryObs, result, told, bursts,
          lastRead, baseline, reported>>

Never == -1     \* a zero time, a UUID without a baseline
Unknown == -1   \* a field no source supplied

(* A DeviceWindow, reduced to what this module is about, with the source   *)
(* whose reading the ECC value is.                                         *)
Window(peak, ecc, by, link) ==
    [devices |-> TRUE, peak |-> peak, ecc |-> ecc, eccBy |-> by, link |-> link]
NoDevices ==
    [devices |-> FALSE, peak |-> FALSE, ecc |-> Unknown, eccBy |-> "none",
     link |-> Unknown]

(* An Observation of the chain, or its error, and what really happened to  *)
(* the counters since they were last read.                                 *)
Result(err, source, w, sinceRead) ==
    [err |-> err, source |-> source, window |-> w, sinceRead |-> sinceRead]

Zero == [s \in Series |-> 0]
LinkSum(f, present) ==
    LET term(s) == IF s \in present \cap LinkSeries THEN f[s] ELSE 0
    IN  term("crc") + term("replay") + term("pcie")

Init ==
    /\ wired \in Wirings
    /\ clock = 0 /\ counter = Zero /\ total = Zero /\ reloads = 0
    /\ lastScrapeT = Never /\ prevDBE = Never /\ prevLinkErr = Never
    /\ selected = "unset"
    /\ pc = "idle" /\ primaryErr = "none" /\ primaryObs = NoDevices
    /\ result = Result("none", "unset", NoDevices, Zero) /\ told = "unset"
    /\ bursts = 0
    /\ lastRead = Zero /\ baseline = 0 /\ reported = 0

-----------------------------------------------------------------------------
(* The node: time passes, errors happen, a driver reload zeroes counters.  *)
ClockTick ==
    /\ clock < MaxClock
    /\ clock' = clock + 1
    /\ UNCHANGED <<wired, counter, total, reloads, lastScrapeT, prevDBE, prevLinkErr,
                   selected, pc, primaryErr, primaryObs, result, told, bursts,
                   history, reported>>

ErrorHappens(s) ==
    /\ MapThenSumSet(LAMBDA t : total[t], Series) < MaxEvents
    /\ counter' = [counter EXCEPT ![s] = @ + 1]
    /\ total' = [total EXCEPT ![s] = @ + 1]
    /\ UNCHANGED <<wired, clock, reloads, lastScrapeT, prevDBE, prevLinkErr,
                   selected, pc, primaryErr, primaryObs, result, told, bursts,
                   history, reported>>

DriverReload ==
    /\ reloads < MaxReloads
    /\ reloads' = reloads + 1
    /\ counter' = Zero
    /\ UNCHANGED <<wired, clock, total, lastScrapeT, prevDBE, prevLinkErr,
                   selected, pc, primaryErr, primaryObs, result, told, bursts,
                   history, reported>>

-----------------------------------------------------------------------------
(* MetricsChain.                                                           *)
HasPrimary == "PROMETHEUS" \in wired
HasFallback == "DCGM" \in wired
FieldFallback == "FieldFallback" \in wired
ProfilingBurst == "ProfilingBurst" \in wired

declaredSource == IF HasPrimary \/ ~HasFallback THEN "PROMETHEUS" ELSE "DCGM"

Source == IF selected = "unset" THEN declaredSource ELSE selected

(* Mutant: Source() keeps naming the preferred source.                     *)
recordSelected_Declared(src) == selected' = declaredSource

recordSelected(src) == selected' = src

(* Mutant: the observation is tagged with the preferred source.            *)
Return_Declared(res) ==
    /\ result' = [res EXCEPT !.source = declaredSource] /\ pc' = "idle"
    /\ told' = IF res.err = "none" THEN declaredSource ELSE told

Return(res) ==
    /\ result' = res /\ pc' = "idle"
    /\ told' = IF res.err = "none" THEN res.source ELSE told

NoHistory(err, source, w) == Result(err, source, w, Zero)

Collect_Start ==
    /\ pc = "idle"
    /\ pc' = IF HasPrimary THEN "primary" ELSE "fallback"
    /\ primaryErr' = "none" /\ primaryObs' = NoDevices
    /\ UNCHANGED <<driver, lastScrapeT, prevDBE, prevLinkErr, selected, result,
                   told, bursts, lastRead, baseline, reported>>

(* Prometheus answers with device windows: they are the observation,       *)
(* unless FieldFallback wants the peak they lack.                          *)
Primary_Devices(w) ==
    /\ pc = "primary"
    /\ w.devices
    /\ IF FieldFallback /\ HasFallback /\ ~w.peak
       THEN /\ pc' = "merge" /\ primaryObs' = w
            /\ UNCHANGED <<selected, result, told>>
       ELSE /\ recordSelected("PROMETHEUS")
            /\ Return(NoHistory("none", "PROMETHEUS", w))
            /\ UNCHANGED primaryObs
    /\ UNCHANGED <<driver, lastScrapeT, prevDBE, prevLinkErr, primaryErr,
                   bursts, history, reported>>

(* It fails (err), or answers without a device (err = "none").             *)
Primary_Nothing(err) ==
    /\ pc = "primary"
    /\ primaryErr' = err
    /\ pc' = "fallback"
    /\ UNCHANGED <<driver, lastScrapeT, prevDBE, prevLinkErr, selected,
                   primaryObs, result, told, bursts, history, reported>>

(* Without a fallback the chain returns the error of the primary, or the   *)
(* empty observation every field of which degrades.                        *)
NoFallback ==
    /\ pc = "fallback" /\ ~HasFallback
    /\ IF primaryErr # "none"
       THEN /\ Return(NoHistory(primaryErr, "unset", NoDevices))
            /\ UNCHANGED selected
       ELSE /\ recordSelected(declaredSource)
            /\ Return(NoHistory("none", declaredSource, NoDevices))
    /\ UNCHANGED <<driver, lastScrapeT, prevDBE, prevLinkErr, primaryErr,
                   primaryObs, bursts, history, reported>>

-----------------------------------------------------------------------------
(* DCGMExporterCollector.Collect, called as the fallback or for a merge.   *)
Scraping == pc = "merge" \/ (pc = "fallback" /\ HasFallback)

ScrapeAllowed ==
    \/ ~ProfilingBurst
    \/ lastScrapeT = Never
    \/ clock - lastScrapeT >= BurstCap

(* The gate records the scrape before it is sent, so a failed one counts.  *)
BeginScrape ==
    /\ ScrapeAllowed
    /\ lastScrapeT' = IF ProfilingBurst THEN clock ELSE lastScrapeT
    /\ bursts' = IF ProfilingBurst THEN bursts + 1 ELSE bursts

(* Mutant: the fallback is recorded before its error is looked at.         *)
FallbackError_Recorded(e) ==
    IF pc = "merge"
    THEN /\ recordSelected("PROMETHEUS")
         /\ Return(NoHistory("none", "PROMETHEUS", primaryObs))
    ELSE /\ recordSelected("DCGM")
         /\ Return(NoHistory(IF primaryErr # "none" THEN primaryErr ELSE e,
                             "unset", NoDevices))

(* What the chain makes of an error of the fallback.                       *)
FallbackError(e) ==
    IF pc = "merge"
    THEN /\ recordSelected("PROMETHEUS")
         /\ Return(NoHistory("none", "PROMETHEUS", primaryObs))
    ELSE /\ Return(NoHistory(IF primaryErr # "none" THEN primaryErr ELSE e,
                             "unset", NoDevices))
         /\ UNCHANGED selected

Scrape_Capped ==
    /\ Scraping /\ ~ScrapeAllowed
    /\ FallbackError("capped")
    /\ UNCHANGED <<driver, lastScrapeT, prevDBE, prevLinkErr, primaryErr,
                   primaryObs, bursts, history, reported>>

(* Mutant: only a scrape that succeeds is recorded by the gate.            *)
Scrape_Fails_Unrecorded ==
    /\ Scraping /\ ScrapeAllowed
    /\ bursts' = IF ProfilingBurst THEN bursts + 1 ELSE bursts
    /\ FallbackError("http")
    /\ UNCHANGED <<driver, lastScrapeT, prevDBE, prevLinkErr, primaryErr,
                   primaryObs, history, reported>>

Scrape_Fails ==
    /\ Scraping /\ BeginScrape
    /\ FallbackError("http")
    /\ UNCHANGED <<driver, prevDBE, prevLinkErr, primaryErr, primaryObs,
                   history, reported>>

(* Mutant: the first reading is a delta.                                   *)
Delta_LifetimeFirst(prev, cur) ==
    IF prev = Never THEN cur ELSE IF cur < prev THEN 0 ELSE cur - prev

(* applyDBEDelta and applyLinkErrDelta: the first reading is the baseline, *)
(* a counter that went down was reset.                                     *)
Delta(prev, cur) == IF prev = Never \/ cur < prev THEN 0 ELSE cur - prev

applyDBEDelta(present) ==
    prevDBE' = IF Ecc \in present THEN counter[Ecc] ELSE prevDBE

(* Mutant: the baseline stays at the first reading.                        *)
applyLinkErrDelta_KeepsFirst(present) ==
    prevLinkErr' = IF prevLinkErr = Never /\ present \cap LinkSeries # {}
                   THEN LinkSum(counter, present) ELSE prevLinkErr

applyLinkErrDelta(present) ==
    prevLinkErr' = IF present \cap LinkSeries # {}
                   THEN LinkSum(counter, present) ELSE prevLinkErr

(* parseDCGMExposition of a scrape that has the series of present.         *)
Exposition(present) ==
    Window(FALSE,
           IF Ecc \in present THEN Delta(prevDBE, counter[Ecc]) ELSE Unknown,
           IF Ecc \in present THEN "DCGM" ELSE "none",
           IF present \cap LinkSeries # {}
           THEN Delta(prevLinkErr, LinkSum(counter, present)) ELSE Unknown)

(* mergeFallback: a value the primary knows is kept.                       *)
mergeFallback(p, f) ==
    [p EXCEPT !.peak = p.peak \/ f.peak,
              !.ecc = IF p.ecc # Unknown THEN p.ecc ELSE f.ecc,
              !.eccBy = IF p.ecc # Unknown THEN p.eccBy ELSE f.eccBy,
              !.link = IF p.link # Unknown THEN p.link ELSE f.link]

Since(mark) == [s \in Series |-> total[s] - mark[s]]

Scrape_Answers(present) ==
    /\ Scraping /\ BeginScrape
    /\ applyDBEDelta(present) /\ applyLinkErrDelta(present)
    /\ LET f == Exposition(present)
           w == IF pc = "merge" THEN mergeFallback(primaryObs, f) ELSE f
           src == IF pc = "merge" THEN "PROMETHEUS" ELSE "DCGM"
       IN  /\ recordSelected(src)
           /\ Return(Result("none", src, w, Since(lastRead)))
           /\ reported' = reported + (IF w.eccBy = "DCGM" THEN w.ecc ELSE 0)
    /\ lastRead' = [s \in Series |-> IF s \in present THEN total[s] ELSE lastRead[s]]
    /\ baseline' = IF prevDBE = Never /\ Ecc \in present THEN total[Ecc] ELSE baseline
    /\ UNCHANGED <<driver, primaryErr, primaryObs>>

-----------------------------------------------------------------------------
(* Prometheus: any combination of a known peak and a known ECC increase.   *)
PrimaryWindows ==
    {Window(peak, Unknown, "none", Unknown) : peak \in BOOLEAN}
    \cup {Window(peak, n, "PROMETHEUS", Unknown) : peak \in BOOLEAN, n \in 0..1}

Expositions == {Series \ missing : missing \in SUBSET Vanishing}

Collect ==
    \/ Collect_Start
    \/ \E w \in PrimaryWindows : Primary_Devices(w)
    \/ \E err \in {"none", "primary"} : Primary_Nothing(err)
    \/ NoFallback
    \/ Scrape_Capped
    \/ Scrape_Fails
    \/ \E present \in Expositions : Scrape_Answers(present)

Next ==
    \/ Collect
    \/ ClockTick
    \/ \E s \in Series : ErrorHappens(s)
    \/ DriverReload

Spec == Init /\ [][Next]_vars

-----------------------------------------------------------------------------
(* Properties.                                                             *)

(* Every counter stays a number; a merge is only ever in progress with     *)
(* FieldFallback.                                                          *)
TypeOK ==
    /\ clock \in Nat /\ reloads \in Nat /\ bursts \in Nat /\ baseline \in Nat
    /\ ~FieldFallback => reported \in Nat
    /\ counter \in [Series -> Nat] /\ total \in [Series -> Nat]
    /\ lastScrapeT \in {Never} \cup Nat /\ prevDBE \in {Never} \cup Nat
    /\ pc = "merge" => FieldFallback

(* The exporter is scraped no more often than the cap allows over any run, *)
(* failed scrapes and field fallbacks included (collectors_dcgm.go:169).   *)
LoadBounded == bursts > 0 => (bursts - 1) * BurstCap <= clock

(* Every uncorrectable ECC error after the baseline is reported once: what *)
(* was reported and what was not read yet add up to what happened, through *)
(* failed scrapes, cycles Prometheus answered and missing series.  After a *)
(* driver reload errors may go unreported but none is invented.  (With     *)
(* FieldFallback a known value of Prometheus takes the place of a delta.)  *)
EccConserved ==
    prevDBE # Never /\ ~FieldFallback =>
        /\ reported <= total[Ecc] - baseline
        /\ reloads = 0 =>
             reported + (counter[Ecc] - prevDBE) = total[Ecc] - baseline

(* Source() is read apart from Collect.  At every moment it names the      *)
(* source of the observation that was last returned without an error, the  *)
(* declared one before there is any: a Collect in progress, or one that    *)
(* failed after the fallback was tried, does not change its answer.  And   *)
(* an error delta travels under the source that observed it, with one      *)
(* exception: with FieldFallback a delta the exporter observed may be part *)
(* of an observation of Prometheus, never the other way round              *)
(* (collectors_chain.go:76-99, 114-186).                                   *)
SourceHonest ==
    /\ Source = IF told = "unset" THEN declaredSource ELSE told
    /\ result.window.ecc > 0 =>
         \/ result.window.eccBy = result.source
         \/ /\ FieldFallback
            /\ result.window.eccBy = "DCGM" /\ result.source = "PROMETHEUS"

(* "delta (not the lifetime total)": a link-error delta is never more than *)
(* the link errors that happened since the counters were last read.        *)
NoSpuriousSpike ==
    result.window.link <= LinkSum(result.sinceRead, LinkSeries)
=============================================================================
