# gpufleet-agent in TLA+

A verification development for the gpufleet agent: a node-local, read-only
collector that gathers GPU metrics and fault events, folds them into a *signal
window*, prices waste, adjudicates faults with a local gate, serves the result
on a local HTTP API, and (only when asked) drives an escalation loop with a
control plane.

The modules model the control of the program: every guard, early return, error
path and the order of state changes. Data is reduced to what the properties
tell apart. `PROJECT.json` ties each definition to the source lines it stands
for.

## 1. Inventory

| Part | State | Operations | Hard behaviour |
|---|---|---|---|
| Daemon (`daemon.go`) | `state`, `costState`, `errs`, `consecFails`, `lastReason` under `mu` | `Run`, `Refresh`, `recordMetricsFailure`, the getters | partial failure, shutdown in mid-cycle, long mixes of good, log-only and failed cycles |
| API (`api.go`) | none | five GET handlers | each answer joins several critical sections of a daemon that goes on publishing |
| Normalize (`normalize.go`) | local to one call | fold, legs, mapping, degrade marks | who may mint a gate leg; completion across sources |
| Metrics chain, DCGM collector (`collectors_chain.go`, `collectors_dcgm.go`) | selected source; `lastScrapeT`, `prevDBE`, `prevLinkErr` | `Collect`, `ScrapeAllowed`, the deltas | counters read irregularly, resets, missing series, failed scrapes |
| Prometheus collector (`collectors_prometheus.go`) | local to one `Collect` | six queries, one deadline | any query fails alone; several samples of a device |
| Operator spec and peak table (`device_spec.go`, `gpu_peak_table.go`) | none | `ParseDeviceSpec`, `lookup`, the two fills | one entry per device, tolerant names, traceability |
| Kernel log drain (`collectors_kmsg.go`, `sources_gpu.go`) | local to one drain; `killCell` | `boundedReadStream`, `Kmsg` | a stream without end, overwritten while it is read; kill, deadline and cap race |
| Log, NCCL, PROC collectors (`collectors_logs.go`, `collectors_nccl.go`, `collectors_proc.go`) | local to one `Collect` | `Collect`, the parsers | split and cut records, a link that changes during the scan, a log longer than the read |
| Investigate client (`internal/investigate`) | running pack, last verdict | `Investigate`, `executeDirectives`, `post` | any answer of the server; failure in a later round |
| Directive vetting (`internal/directive`, `internal/capability`) | none | `Validate`, clamps, catalog | zero, at-cap and over-cap budgets |
| Main (`cmd/agent/main.go`) | `lastRefreshes`, the one-slot channel, the server | `main`, `runInvestigateLoop`, `overrideQueries`, `buildDeviceSpec` | stale reads, a slow endpoint, a signal at any moment, exit codes |
| Wiring, mocks, evidence, reflow, cost wedge | none | pure functions | see section 8 |

`Run` calls the collectors one after the other in one goroutine and publishes an
immutable `State`; handlers and the investigate loop read it from other
goroutines. Shutdown is one context: it ends `Run`, closes the kill channel of a
drain, ends the investigation in flight and has the server shut down, whereupon
`main` returns and the process with it.

## 2. Modules

```
Directive <- Investigate <- MCInvestigate       Normalize <- MCNormalize
SnapshotStore <-(refines)- Daemon <- API        Metrics        KmsgDrain
                           Daemon <- Agent
Prometheus <- Fill <- MCFill                    EventSources <- MCEventSources
proofs: DaemonProofs, InvestigateProofs, MetricsProofs, KmsgDrainProofs,
        EventSourcesProofs, NormalizeProofs, FillProofs (each extends the module
        of its name), ServingProofs (extends API, Agent and DaemonProofs)
```

**SnapshotStore** is what the daemon promises its readers: a register with the
newest window, one with the last window that carried metrics, and a miss count.

**Daemon.** One step is the code between two points where another goroutine can
observe or influence it. `pc` is the position of `Run`/`Refresh`:
`check` (the `ctx.Err()` at the head of the loop), `collect` (inside a
collector), `finish` (after the loop), `select`. A window is reduced to its
number, its time, whether it carries device metrics, how many sources failed,
and whether a drain in it was cut by the kill switch. `Refresh_Answer` and
`Refresh_CollectErr` are the outcomes of `Collect`; `Refresh_AllFailed`,
`Refresh_HardErr` and `Refresh_Publish` are the three ways a cycle is booked.
The ticker channel holds one tick.

**API** extends Daemon with one request in progress. Each handler is the
sequence of its calls to `Snapshot`, `CostSnapshot`, `Freshness` and `Errs`;
`Freshness` is two steps because it reads the clock after the unlock. One client
is enough: handlers share nothing but the daemon, which they never write.
`StalenessAfter` is `d.stalenessAfter`; time unit 0 is the start of the daemon.

**Agent** extends Daemon with the process around it. `mode` tells the one-shot
agent, the serving one, and a program that uses the package as a library and has
no `main`. Without `-serve` the actions of one `Refresh` are those of Daemon, and
where `Refresh` returns an error the same step exits (`AfterFailure`). With it,
`main` is at `wire` (the goroutines are started), `listen` or `serving`;
`Shutdown` is the goroutine that waits for the signal. `Alongside` says that
nothing of the daemon runs in a process that ended. A one-shot refresh runs under
`context.Background()`, so no signal reaches it.

**Directive** has the catalog, `Validate` (`Accepted`, `SafeBudget`) and the
clamp as operators. **Investigate** has `runInvestigateLoop` and one
`Client.Investigate` per window; the server's answers and the executor's entries
are free. `wait` is a POST in flight, during which everything else goes on.

**Metrics** has one device. `counter` is the driver's lifetime counter,
`total` what really happened; the difference between them is a driver reload.
The baselines of the code are per UUID and never mix. `dcgmLinkErrSymbols` are the
counters whose sum is the link errors.

**Prometheus** is one `Collect`: `next` is the position in the list of queries,
each of which is skipped (`Skip`), fails (`Fail`) or is applied (`Answer`);
`expired` is the deadline all of them share. A sample is a device, a model label,
a value and a job label; an ECC value is in tenths because an increase is
extrapolated and then rounded. `wiredQueries` and `overrideQueries` decide which
expressions are asked.

**Fill** extends it with what the agent wires around it: the choice between
Prometheus and the exporter, then `SpecFill` and `TableFill`, the wrappers that
complete what no source gave. A normalized model name is the sequence of its
tokens, and `normModel` is a table of spellings; `builtinGPUPeaks` is the table
of the code. Where the code iterates a map the model chooses: `ParseDeviceSpec`
is the set of specs a file may become (for each name that is in the map and at
the top level one of the two entries, name by name), `lookup` the set of entries a
device may get. `Datasheet`, which only a property uses, is written from the names in the
tests of the repository and is independent of the matching rules.

**EventSources** has one `Collect` of one of three collectors. Kernel text is
lines of tokens; what the regular expressions find are the tokens `Xid` before a
number, and GPU names. A PCIe scan is one step per check
(`Check_Lost`, `Check_Width`, `Check_Speed`), devices being numbered in the
order of the directory, while `LinkChanges` lets the link
of any device change between two checks. A check reads up to three files
(`vendor`, the current value, the maximum): only the current value can change
during a scan, so one step is one look at it, and a maximum that is missing or not
positive is folded into `Unreadable`, on which every check says nothing. The NCCL log is lines with a kind and the
offsets they span. `Stat_NCCL` takes its size, `Collect_NCCL` reads from `SeekTo`
up to the cap, and `JobLogs` may add lines before and between the two; `Touched`
are the lines the read touches, and one that is not `Whole` may have lost the words
it was recognized by (`Cut`).

**KmsgDrain** has the kernel's ring (`log`, `oldest`) and one drain: `kill`,
`clock` and `read` are the three looks at the world in an iteration of
`boundedReadStream`. `Read_Empty` is EAGAIN or EINTR; `Read_Error` is EPIPE (the
record was overwritten) or EINVAL (it does not fit the buffer).

**Normalize** admits one observation per step, as the outer loop of `Normalize`
does; `Timeline`, `Samples`, `Degraded` and `edges` are what would be built if
the loop ended there, so the invariants hold for every list of observations.
Timelines are sets: order, timestamps and labels are left out.

Definitions named `X_Something` next to a definition `X` are mutants: `X` with a
plausible bug. Each checked property is known to fail for one of them.

## 3. Runs

| Run | Checks | Result |
|---|---|---|
| `Daemon_any` | the safety of the loop with three collectors of every ability: streak and reason measure the lag of the cost window, failed sources add up, no truncated drain is published; `ImplementsStore` | holds |
| `Agent_process` | the binary's wiring (metrics, kmsg, proc, NCCL), one-shot, serving and as a library: a signal at any moment ends it (`CancelEnds`), failing sources do not (`KeepsCollecting`), the exit code tells which it was, both ways: 0 was asked for, and what was asked for is 0 (`ExitTellsTruth`) | holds |
| `API_read` | the four answers while the daemon publishes, fails and recovers: a stamp never makes data look older than it is, `/window` never shows a device-bearing window above an older cost block, count and reason agree, answers never go back | holds |
| `API_torn` | `/cost` never serves held data as current | **violated** |
| `Investigate_loop` | single flight, launch order, bounded and growing POSTs, vetting, verdict kept; the newest window is reached, cancel winds down | holds |
| `Metrics_chain` | exporter load, ECC conservation, no spurious link spike while scrapes are complete in the link series, `Source()` names the source of the last observation also after a `Collect` that failed | holds |
| `Metrics_spike` | no spurious spike when a link series is missing from a scrape | **violated** |
| `Fill_pipeline` | peak and price are readings, else of the one entry that speaks for the device, else of the table; achieved FLOPs never over a measured value, a failed query degrades its field only, every fill is in the list of its collector and has its stamp, ECC increases of Prometheus reach the window | holds |
| `Fill_ecc` | the same ECC property, with the configurations `main.go` can pass | **violated** |
| `Sources_read` | XID events are the records of the kernel text; link legs were true at some moment, and a steady link gets exactly its own; the NCCL timeouts that were recent when the size was taken are reported, and nothing else is | holds |
| `KmsgDrain_bounds` | an unbroken run of records, prompt stop, nothing skipped, every drain ends | holds |
| `Normalize_fold` | leg provenance, nothing observed is lost but a masked counter delta (section 4), pricing, first known wins | holds |

## 4. Findings

Each has a run whose property is a sentence of the repository.

1. *Torn `/cost`* (`API_torn`). Devices and freshness stamp come from two
   critical sections. A window published in between gives old devices
   `stale=false` (`api.go:302`, against `api.go:282-284`). The opposite never
   happens (`StampNeverOverstatesAge`).
2. *Link-error spike* (`Metrics_spike`). The baseline is the sum of the series a
   scrape had. One scrape without a series, and the next reports its lifetime
   count (`collectors_dcgm.go:264-271`).
3. *ECC query never asked* (`Fill_ecc`). `overrideQueries` copies the defaults
   field by field and leaves `ECCDoubleBit` out, against its comment
   (`cmd/agent/main.go:323-327`). The result is never the zero `PromQueries`, so
   the default of the package is not taken either.

Divergences met while modelling, which the modules show but no run refutes. The
first two are exceptions in the statement of a property that holds:

- *A masked counter delta.* The merge keeps the first known value of a counter
  and the record of who saw an increase keeps the others (`normalize.go:235`,
  `385-387`). A collector that knows a 0 therefore drops the delta of every later
  one, where `collector.go:124-125` says that a delta > 0 is emitted; and
  `collectors_chain.go:25-27` advises to wire two metrics collectors. The wiring
  of the binary has one. `NothingObservedIsLost` names the exception (`Masked`);
  without it TLC finds two observations that break it, DCGM with 0 and then DCGM
  (or PROMETHEUS with 0 and then DCGM) with 1.
- *One entry decides both fields.* `lookup` returns the most specific entry that
  gives any number (`device_spec.go:77-101`), and what it leaves open is not looked
  for in a less specific one. An entry with a price alone for a UUID thus hides the
  peak of the entry of its model, or `--peak-tflops`, and the table fills the peak:
  where a peak was given by the operator, the datasheet's is used, against
  "operator-explicit > built-in table" (`gpu_peak_table.go:29-30`, `217-218`) read
  of the whole spec. `FilledByPrecedence` states what the code does; its last
  conjunct says that only an entry with a number of its own passes one over.

- The exporter is scraped only while Prometheus does not answer, so a delta
  spans every window since the last scrape, where the comment has "DELTA over
  the window" (`collectors_dcgm.go:127-133`).
- Each cycle reopens `/dev/kmsg` at its oldest record, so an old XID is an event
  of every later window, where the comments have events "for the window"
  (`collectors_logs.go:30`, `normalize.go:344-345`).
- `last_success_at` is documented as `refresh_at` of the live window
  (`api.go:65-67`); it is the time of the cost window.
- When both metrics sources fail the doc promises the fallback's error
  (`collectors_chain.go:112-113`); the code returns the primary's.
- With `FieldFallback` a DCGM delta travels under the PROMETHEUS source, and a
  known value of Prometheus takes the place of one. No wiring of the binary
  enables the option. `EccConserved` excepts it; `SourceHonest` allows just that.
- Over-budget directives are rejected according to `client.go:146-148`;
  `validate.go` clamps them. What is executed is within the ceiling either way
  (`ExecutedVetted`).
- "Timeout bounds each query": the queries share one deadline
  (`collectors_prometheus.go:206-211`), so a slow one takes the time of the
  later ones. And "We surface the FIRST transport error" (`242-245`) holds only
  when no query named a device.
- The spec's `filled_devices` stands for peaks and prices together, and the peak
  table overwrites the stamp of derived FLOPs the spec wrote
  (`gpu_peak_table.go:305`). So when the FLOPs of one device were derived from a
  peak of the spec and those of another from the table's, the observation says
  "derived:tensor-active*builtin-table-peak" of both. `FillsAreListed` states this
  as it is; the lists still tell the devices apart. `Fill_pipeline` reaches it: a
  price alone for one UUID and `--peak-tflops` for the rest.
- On the mock path the spec wraps each metrics collector by itself
  (`runtime_config.go:252`), so it may win over a later source's reading.
- A line over the Scanner's limit (1 MiB) ends a parse without an error
  (`collectors_logs.go:129`, `221`). "Recent events are always in-window"
  (`collectors_nccl.go:71-73`) needs that there is none, and
  `RecentTimeoutsReported` assumes it.
- On the gpu build with `GPUFLEET_NCCL_LOG` set the NCCL log is read in the log
  source and in the dedicated collector (`runtime_config.go:202-207`).
- The process ends as soon as `Shutdown` begins, since `ListenAndServe` returns
  then: the wait for handlers in flight is cut short (`cmd/agent/main.go:237-246`).

## 5. Bounds

Three collectors suffice for the loop: one failing before, at and after another;
`Agent_process` has the four of the binary. The clock and the number of cycles
are bounded (`MaxClock`, `MaxCycles`) far enough for a good cycle, a log-only one
and a failing one in any order. `API_read` has a clock of two instants and
`StalenessAfter` 0, so that one instant of age is stale already; what its
properties compare are two ages, not their size. Three rounds are the code's own
limit. Two windows show every interleaving of loop and client, since at most one
is in flight: a tick skipped, a window superseded before its launch. Metrics uses
a cap of two clock units, two errors and one reload: enough for a first reading,
a delta, a reset and a capped scrape. A ring of two records is overwritten under
the reader within four. Four observations cover two metrics sources and two log
sources in any order.

`Fill_pipeline` has two devices, since fills look at one device at a time and the
stamps and lists only tell whether there is one or more. Its answers name both
devices, one, none, or no device; its specs name a device by UUID, by two
spellings that normalize alike, by the wildcard, or not; its boards are an exact
key of the table, a family decided by a token, a prefix dropped, and none. The
queries may fail in all 64 combinations. `Sources_read` has kernel texts of four
lines (a record, a continuation, another record and a continuation of it), two
devices of which one is not a GPU, and two link changes: one before and one after
an attribute is read. Its read cap is less than the five lines of the log are
long, and the job may log any of them after the size was taken, so the read starts
and ends at, before and within a line, and touches lines that were not there yet.

The configuration files set `CHECK_DEADLOCK FALSE` where the system stops: the
daemon and the loop when they are cancelled, the process when it exits, one
`Collect` when it returns, the others at their bounds.

## 6. Fairness

Assumed: goroutines are scheduled (weak fairness on their steps), tickers keep
firing, a collector, a POST and an executor return (each has a timeout, a
deadline or a cap; a refused context ends a POST), and Go's `select` does not
pass over a ready `ctx.Done()` for ever (strong fairness on `Run_Done` and
`Loop_Done`: a pseudo-random choice among ready cases). In Agent,
`ListenAndServe` is only assumed to return once the server is shut down; it need
not fail, and no signal need come. `DrainEnds` assumes only the goroutine and the
clock, nothing of the kernel. `NewestInvestigated` also assumes that the daemon
publishes (weak fairness on `DaemonPublishes`).

## 7. Proofs

`DaemonProofs` proves the safety properties of Daemon for any number of
collectors, any wiring and no bound but those in the guards. Assumed are
`NAssumption`, `SourcesAssumption`, `BoundsAssumption` and `KillableNotLast`: the
collector whose drain the kill switch can cut is not the last one, as in both
wirings of the repository.

The properties are not inductive by themselves. `IInv` adds `LoopAccounting`:
the captured `now` lies between the published time and the clock; at `finish`
the index is `N + 1`; an unanswered collector was counted and remembered; and a
cut drain is only ever held where the next step is a `ctx` check that fails,
which is what `NoTruncation` rests on. The proof has one lemma for the initial
state and one step per action. Theorems: `TypeCorrect`, `StreakIsLag`,
`CostIsLastMetrics`, `ReasonIsCurrent`, `NoTruncation`, `PartialAddsUp`,
`PublicationNeverGoesBack`, and `DaemonImplementsStore`, the refinement of
SnapshotStore. No run repeats `LoopAccounting`, `ReasonExplainsStreak` and
`PublicationMonotone`, which are proved for every instance.

`InvestigateProofs` assumes only that the server's lists hold directives
(`DirectivesAssumption`: any string as capability, any budget). `IInv` adds
`LaunchOrder` (no window above `lastRefreshes` was ever launched, which needs
that the loop holds a window above it when it takes the slot), `PackIsAhead`
(where the client is, how many POSTs it made by this round, and how the pack has
outgrown what was POSTed; type correctness needs it too, for the bound on the
round) and `VerdictKnown`. `ClientLocal` and `WindowFrame` are
the frame: a step of one investigation leaves the others alone. `ClampWithin` is
the clamp for every request, durations of any sign included. Theorems:
`TypeCorrect`, `OneInFlight`, `LaunchesInOrder`, `PostsBounded`,
`VerdictSurvives`, `OnlyVettedRuns`.

`NormalizeProofs` proves all four properties of the fold for arbitrary
observations, assuming `JobAssumption` (no owner is not the name of a job) of
the constants. `LegProvenance` rests on `Provenance`, which says of every set the
fold keeps where its members came from: each leg is a member of one of these
sets under its source. `NoFaultLost` is the other direction, for all five kinds of
legs: what was observed is kept (`Kept`), and an up-counter is emitted if the merged
value is up. That it is, unless `Masked`, takes the least observation that knows the
counter (`Smallest`): its value is the merged one. `PricedIfSupplied`
follows a device's window, FLOPs and peak through the merge, and
`FirstKnownDecides` needs to know which position of the list supplied a field:
`AdmitAppends` reduces a step to what one more observation adds.

`MetricsProofs` proves `TypeCorrect`, `LoadWithinCap` from `GateSpacing` (the
n-th scrape is at least n - 1 caps after the start), `SourceIsTold`, for every wiring
and after a failed `Collect` too (`told` remembers the last observation returned
without an error; `PrimaryHeld` says that what the chain holds for a merge is an answer
of Prometheus, `PrimaryEcc` that a merge takes the exporter's delta only where
Prometheus knows none), and
`EccErrorsConserved` from `EccLedger`: what was reported plus what the next
scrape would report is at most what happened, with equality until the driver is
reloaded. `EccConserved` alone is not inductive, since after a reload it does not
bound the next delta. `NoSpikeFromWholeScrapes` is `NoSpuriousSpike` under
`WholeScrapes`: a scrape carries all link counters of the configuration or none.
`LinkLedger` says that what the next scrape would report has happened since each
counter was last read. Without the hypothesis the property is false, as
`Metrics_spike` shows, so the theorem says what exactly the code relies on;
`Metrics_chain` satisfies it.

`KmsgDrainProofs` proves `TypeCorrect` (which has the byte cap in it),
`RunIsUnbroken`, `PromptStop` and `CaughtUp`. `OneLateRead` is the argument for
the prompt stop: after a read that began too late the kill switch or the
deadline is already visible to the checks before the next one. No bound on log,
ring or record sizes is used.

`ServingProofs` is about the two parties around the daemon. For API it proves
`StampIsNoOlder`, `BlockIsNoOlder` and `ReasonIsOfTheCount` on top of the invariant
of the daemon. `Serving` says at each place of a handler how far the daemon is ahead
of what the handler has read: `LiveIsAhead` after `Snapshot`, `CostIsAhead` after
`CostSnapshot` (its second part is about the window `Freshness` holds, not the
current one), `BlockKeepsUp` between the two blocks of `/window`. `DaemonMoves` is
all it needs of a step of the daemon in between: times do not go back, and a cost
window is only replaced by a newer one. `AnswersNeverGoBack` compares two answers of
one endpoint, so its invariant `RInv` remembers the last one: `Told` (that answer is
behind the daemon), `Known` (what the handler in progress has read is behind the
daemon too), `Outdone` (what it has read for the same endpoint is not behind that
answer).

For Agent it proves `ExitIsTrue` and `ProcessRunsTheDaemon`: every step of the
process, in every mode, is a step of the daemon or leaves it alone, so the theorems
of `DaemonProofs` hold of the process. `OneShot` relates the location of `main` to
what was published and counted.

`FillProofs` proves all five properties of `Fill_pipeline`, for any devices, servers,
exporters, specs, wirings and settings. `FInv` follows one `Collect`: `Routed` (which
part of the chain may have answered, and whom it named), `Gathering` (until then a
window is what the answers so far make of it, `Gathered`), `AsReported` after the
chain, `AfterSpec` and `AfterTable` after the fills: the window of each device is
the one its source reported with one entry of the spec and one peak of the table put
in, and the lists and stamps are exactly the differences (`Stamped`). That the table
changes no device the spec gave a peak to (`FilledOnce`) is what attributes each
difference to one of the two collectors, the derived FLOPs included. `CollectInvariant` is
`Spec => []FInv`, and `FailuresStayLocal`, `DerivedFlopsAreHonest` and
`EveryFillIsListed` follow from it without a further assumption.
`SourcesTakePrecedence`, about the one entry found for a device, assumes `TableIsRight`, that the peak the matching rules find
for a name is that of its datasheet: data, which TLC compares for the names of the
tests. `AskedEccIsReported` assumes `EccIsAsked`, which the empty configuration of
`Fill_pipeline` satisfies and `main.go` does not (finding 3).

`EventSourcesProofs` proves all four properties of `Sources_read`. `LegsAreTrue` and
`SteadyIsReported` hold for any number of PCIe devices. `Reported` is the induction
along the directory: the devices behind have their verdict, and of the one at hand
the checks already made have failed if it is steady. That a device is steady is
`Cardinality(had[a]) = 1`, which a change makes false for good.
`RecentTimeoutsAreReported` holds for any log and cap, of reads without a line over the
Scanner's limit (the premise of its property): `Contiguous` says that each
line ends at or before the place the next one begins, and `RecentIsWhole` does the arithmetic of the read from it.
`EventsAreTheRecords` is about a recursive parse. `Scanning` is what the scan has
made of the first k lines: the record that is open is the concatenation of its lines
(`Raw`), and the events are those of the records before it (`Told`); `LineKeeps` is
its step and `Closing` the end of a record.

The assumptions on constants that these modules use (`LabelAssumption`,
`ExporterAssumption`, `EntryAssumption`, `AnswerAssumption`, `TextAssumption`,
`LineAssumption`) are types: labels are names, values are numbers, a kernel text is a
sequence of lines, and no line of a log is empty (a newline is a byte).

*Recursion.* The induction theorems of the library take an operator as a parameter,
which the provers do not instantiate. `Smallest` is used instead: a set of naturals
has a least element, because less-than is well founded. A property of every k is
then proved of a least counterexample, and so is that the recursive function a
definition chooses exists at all (`ScanExists`, `FlatExists`).

Only model-checked: the five liveness properties (`CancelEnds`, `KeepsCollecting`,
`NewestInvestigated`, `CancelWindsDown`, `DrainEnds`), which are out of the prover's
reach. Every other property of a passing run is stated by a theorem.

## 8. Not modelled

- The rca engine, the semantics library and the wire types are other modules;
  the daemon sees a verdict or a panic, an edge list or an error.
- Decoding: the exposition format, Prometheus' JSON, regular expressions and
  label names. Samples, tokens and kinds of lines stand for what they yield; the
  rates of the exporter's profiling metrics are not there.
- Flag parsing and printing; mocks and fixtures, and the mock wiring.
- Reflow (nothing but its tests calls it) and the evidence adapter (a stateless
  projection of a window) are pure functions whose definition would restate them.
- NVML: on this build the collector is a stub that knows nothing.

## 9. Plan

Done: Daemon and SnapshotStore, API, Agent, Directive, Investigate, Metrics,
Prometheus and Fill, EventSources, KmsgDrain, Normalize, and the proof modules of
section 7.

Next, in this order:
1. Daemon and Metrics composed (a delta consumed by a cycle that publishes
   nothing); Daemon and Investigate composed (`DaemonPublishes` replaced by the
   daemon).
2. An abstract specification of one `Collect` of the chain that Fill and Metrics
   both implement.
3. Reflow: the signed bucket as operators.
