-------------------------------- MODULE Fill -------------------------------
(***************************************************************************)
(* The metrics collector the agent wires for real telemetry                *)
(* (runtime_config.go): Prometheus with the DCGM exporter as fallback,     *)
(* wrapped in SpecFillCollector (device_spec.go), which fills missing      *)
(* peaks and prices from the operator's table, wrapped in                  *)
(* PeakTableCollector (gpu_peak_table.go), which fills the peaks still     *)
(* missing from a table of datasheet peaks.  One Collect, from the first   *)
(* query to the observation the daemon normalizes.                         *)
(***************************************************************************)
EXTENDS Prometheus

CONSTANTS
    Spellings,    \* the model names labels and spec keys may hold
    normModel,    \* per spelling: its normalized name, a sequence of tokens
    Wildcard,     \* the ByModel key "*"
    Files,        \* the device-spec files an operator may supply
    Flags,        \* the entries --peak-tflops and --cost-usd-per-hour may give
    Exposed,      \* the windows a scrape of the exporter may yield, per device
    Wirings,      \* which of "PROMETHEUS", "DCGM", "PeakTable" are configured
    Datasheet     \* per spelling: the peak of the board it names, 0 for none

ASSUME SpellingAssumption ==
    /\ NoModel \notin Spellings /\ Wildcard \notin Spellings
    /\ DOMAIN normModel = Spellings
ASSUME LabelAssumption ==
    \A s \in Servers, q \in Queries : \A i \in DOMAIN s[q] :
        s[q][i].model \in Spellings \cup {NoModel}
ASSUME ExporterAssumption ==
    \A x \in Exposed :
        DOMAIN x \subseteq Uuids
        /\ \A u \in DOMAIN x : x[u].model \in Spellings \cup {NoModel}
ASSUME EntryAssumption ==
    /\ \A e \in Flags : e.peak \in Int /\ e.cost \in Int
    /\ \A file \in Files : \A m \in {file.byUUID, file.byModel, file.flat} :
          \A k \in DOMAIN m : m[k].peak \in Int /\ m[k].cost \in Int

VARIABLES
    wired,         \* the wiring of this agent
    exporter,      \* what a scrape of the exporter yields: per device, a window
    spec,          \* its device spec: [byUUID, byModel] of entries
    pc,            \* "prometheus", "chain", "spec", "table", "done"
    source,        \* the source of the observation, or "error"
    stamps,        \* the provenance keys of the fills that are set
    filledBySpec,  \* the devices spec.filled_devices lists
    filledByTable  \* the devices builtin.filled_devices lists

config == <<wired, exporter, spec>>
provenance == <<stamps, filledBySpec, filledByTable>>
vars == <<prom, windows, config, pc, source, provenance>>

(* A DeviceSpecEntry; a number that is not positive is "not specified".    *)
NoEntry == [peak |-> 0, cost |-> 0]
empty(e) == ~(e.peak > 0) /\ ~(e.cost > 0)

(* Entries under "by_model" and flat ones share a map: a flat one of a     *)
(* model that is named there too is lost if "by_model" is read after it,   *)
(* and the order in which the keys of the file are read is any.            *)
ParseDeviceSpec(file) ==
    {[byUUID |-> file.byUUID,
      byModel |-> [k \in DOMAIN file.byModel \cup DOMAIN file.flat |->
                     IF k \in DOMAIN file.flat \ lost THEN file.flat[k]
                     ELSE file.byModel[k]]] :
        lost \in SUBSET (DOMAIN file.byModel \cap DOMAIN file.flat)}

(* The flags become the wildcard, in place of one the file gave.           *)
buildDeviceSpec(s, flags) ==
    IF empty(flags) THEN s
    ELSE [s EXCEPT !.byModel = [k \in DOMAIN @ \cup {Wildcard} |->
                                  IF k = Wildcard THEN flags ELSE @[k]]]

Init ==
    /\ PromInit
    /\ wired \in Wirings
    /\ exporter \in Exposed
    /\ spec \in {buildDeviceSpec(s, flags) :
                   s \in UNION {ParseDeviceSpec(f) : f \in Files}, flags \in Flags}
    /\ pc = IF "PROMETHEUS" \in wired THEN "prometheus" ELSE "chain"
    /\ source = "none"
    /\ stamps = {} /\ filledBySpec = {} /\ filledByTable = {}

-----------------------------------------------------------------------------
(* The chain.                                                              *)
AskPrometheus ==
    /\ pc = "prometheus" /\ Query
    /\ pc' = IF next' > Len(Order) THEN "chain" ELSE pc
    /\ UNCHANGED <<config, source, provenance>>

PrimaryAnswered == "PROMETHEUS" \in wired /\ seen # {}

UsePrimary ==
    /\ pc = "chain" /\ PrimaryAnswered
    /\ source' = "PROMETHEUS" /\ pc' = "spec"
    /\ UNCHANGED <<prom, windows, config, provenance>>

(* The exporter knows the model, the tensor time and the ECC delta of a    *)
(* device, never a peak or a price.                                        *)
UseFallback ==
    /\ pc = "chain" /\ ~PrimaryAnswered /\ "DCGM" \in wired
    /\ seen' = DOMAIN exporter
    /\ win' = [u \in Uuids |->
                 IF u \in DOMAIN exporter
                 THEN [NoWindow EXCEPT !["tensor"] = exporter[u].tensor,
                                       !["ecc"] = exporter[u].ecc]
                 ELSE NoWindow]
    /\ model' = [u \in Uuids |->
                   IF u \in DOMAIN exporter THEN exporter[u].model ELSE NoModel]
    /\ job' = [u \in Uuids |-> "none"]
    /\ source' = "DCGM" /\ pc' = "spec"
    /\ UNCHANGED <<prom, config, provenance>>

(* Neither answered: an error, or without a fallback and without a failed  *)
(* query the empty observation.                                            *)
NothingAnswered ==
    /\ pc = "chain" /\ ~PrimaryAnswered
    /\ IF "DCGM" \in wired \/ HardError
       THEN source' = "error" /\ pc' = "done"
       ELSE source' = "PROMETHEUS" /\ pc' = "spec"
    /\ UNCHANGED <<prom, windows, config, provenance>>

-----------------------------------------------------------------------------
(* SpecFillCollector.                                                      *)
(* Mutant: an entry that gives neither number is found as well.            *)
Entries_EmptyToo(f, keys) == {f[k] : k \in keys \cap DOMAIN f}

Entries(f, keys) == {f[k] : k \in {l \in keys \cap DOMAIN f : ~empty(f[l])}}

(* The keys that spell the model of u some way.                            *)
Alike(m) ==
    {k \in DOMAIN spec.byModel \ {Wildcard} :
        m # NoModel /\ normModel[k] = normModel[m]}

(* The first of these that has an entry is what lookup returns; with       *)
(* several keys alike it is whichever the map yields first.                *)
Candidates(u) ==
    LET m == model[u]
    IN  << Entries(spec.byUUID, {u}),
           IF m = NoModel THEN {} ELSE Entries(spec.byModel, {m}),
           Entries(spec.byModel, Alike(m)),
           Entries(spec.byModel, {Wildcard}) >>

(* Mutant: the wildcard is consulted before the names.                     *)
lookup_WildcardFirst(u) ==
    LET c == Candidates(u)
    IN  IF c[4] # {} THEN c[4] ELSE UNION {c[i] : i \in 1..3}

lookup(u) ==
    LET c == Candidates(u)
        hits == {i \in 1..4 : c[i] # {}}
    IN  IF hits = {} THEN {NoEntry} ELSE c[Min(hits)]

(* Mutant: achieved is derived from the peak even when it was measured.    *)
FillPeak_Rederives(w, peak) ==
    IF peak > 0 /\ w["peak"] = Unknown
    THEN [w EXCEPT !["peak"] = peak,
                   !["achieved"] = IF w["tensor"] # Unknown
                                   THEN w["tensor"] * peak ELSE @]
    ELSE w

(* A missing peak is filled, and with it the FLOPs the tensor time yields  *)
(* at that peak, if they were not measured.                                *)
FillPeak(w, peak) ==
    IF peak > 0 /\ w["peak"] = Unknown
    THEN [w EXCEPT !["peak"] = peak,
                   !["achieved"] = IF w["tensor"] # Unknown /\ @ = Unknown
                                   THEN w["tensor"] * peak ELSE @]
    ELSE w

FillCost(w, cost) ==
    IF cost > 0 /\ w["cost"] = Unknown THEN [w EXCEPT !["cost"] = cost] ELSE w

(* The devices whose field f the step changes.                             *)
Changed(f) == {u \in seen : win'[u][f] # win[u][f]}

(* Mutant: a device whose price only is filled is not listed.              *)
Touched_PeaksOnly == Changed("peak")

Touched == Changed("peak") \cup Changed("cost")

(* The stamps a fill from the spec leaves, and the field each is about.    *)
StampedFor ==
    [s \in {"peak=static-spec", "cost=static-spec", "achieved=spec-peak"} |->
       IF s = "peak=static-spec" THEN "peak"
       ELSE IF s = "cost=static-spec" THEN "cost" ELSE "achieved"]

(* One entry per device: each looks the spec up for itself.                *)
SpecFill(entry) ==
    /\ pc = "spec"
    /\ win' = [u \in Uuids |->
                 IF u \in seen
                 THEN FillCost(FillPeak(win[u], entry[u].peak), entry[u].cost)
                 ELSE win[u]]
    /\ filledBySpec' = Touched
    /\ stamps' = {s \in DOMAIN StampedFor : Changed(StampedFor[s]) # {}}
    /\ pc' = "table"
    /\ UNCHANGED <<prom, seen, model, job, config, source, filledByTable>>

-----------------------------------------------------------------------------
(* PeakTableCollector.  A normalized name is the sequence of its tokens.   *)
Boards ==   \* name and peak, in tenths of a TFLOP/s
    { <<<<"a10">>, 1250>>, <<<<"a100", "40gb">>, 3120>>, <<<<"a100", "80gb">>, 3120>>,
      <<<<"h100", "sxm">>, 9894>>, <<<<"h100", "pcie">>, 7560>>, <<<<"h100", "nvl">>, 8350>>,
      <<<<"h200">>, 9894>>, <<<<"gh200">>, 9894>>, <<<<"l4">>, 1210>>, <<<<"l40">>, 1810>>,
      <<<<"l40s">>, 3620>>, <<<<"v100">>, 1250>>, <<<<"t4">>, 650>>, <<<<"a6000">>, 1550>>,
      <<<<"b200">>, 22500>> }

builtinGPUPeaks ==
    [n \in {b[1] : b \in Boards} |-> (CHOOSE b \in Boards : b[1] = n)[2]]

Without(n, prefix) == IF n # <<>> /\ n[1] = prefix THEN Tail(n) ELSE n

(* The names of a board that start as n does, and whether n has a token.   *)
LeadingKeys(n) ==
    {k \in DOMAIN builtinGPUPeaks : Len(k) <= Len(n) /\ SubSeq(n, 1, Len(k)) = k}
Has(n, token) == \E i \in 1..Len(n) : n[i] = token

(* Mutant: every H100 is an SXM board.                                     *)
matchModelPeak_NoVariant(name) ==
    LET n == Without(Without(Without(name, "tesla"), "rtx"), "quadro")
    IN  IF n \in DOMAIN builtinGPUPeaks THEN builtinGPUPeaks[n]
        ELSE IF n # <<>> /\ n[1] = "h100" THEN builtinGPUPeaks[<<"h100", "sxm">>]
        ELSE 0

(* 0 when no board is known by this name: the peak degrades.  The family   *)
(* boards are told apart by a token anywhere; an unknown A100 counts as    *)
(* 40GB (same die), an unknown H100 as SXM.  Others go by the longest key. *)
matchModelPeak(name) ==
    LET n == Without(Without(Without(name, "tesla"), "rtx"), "quadro")
        family == IF n = <<>> THEN "" ELSE n[1]
        variant ==
            IF family = "a100" THEN IF Has(n, "80gb") THEN "80gb" ELSE "40gb"
            ELSE IF Has(n, "nvl") THEN "nvl"
            ELSE IF Has(n, "pcie") THEN "pcie" ELSE "sxm"
        leading == LeadingKeys(n)
        longest == CHOOSE k \in leading : \A l \in leading : Len(l) <= Len(k)
    IN  IF n \in DOMAIN builtinGPUPeaks THEN builtinGPUPeaks[n]
        ELSE IF family \in {"a100", "h100"} THEN builtinGPUPeaks[<<family, variant>>]
        ELSE IF leading # {} THEN builtinGPUPeaks[longest] ELSE 0

TablePeak(u) ==
    IF "PeakTable" \in wired /\ model[u] # NoModel
    THEN matchModelPeak(normModel[model[u]]) ELSE 0

(* Mutant: the stamp of derived FLOPs is set only where there is none.     *)
TableFill_KeepsStamp ==
    /\ pc = "table"
    /\ win' = [u \in Uuids |->
                 IF u \in seen THEN FillPeak(win[u], TablePeak(u)) ELSE win[u]]
    /\ filledByTable' = Changed("peak")
    /\ stamps' =
         stamps
         \cup (IF Changed("achieved") # {} /\ "achieved=spec-peak" \notin stamps
               THEN {"achieved=table-peak"} ELSE {})
         \cup (IF Changed("peak") # {} THEN {"peak=builtin-table"} ELSE {})
    /\ pc' = "done"
    /\ UNCHANGED <<prom, seen, model, job, config, source, filledBySpec>>

TableFill ==
    /\ pc = "table"
    /\ win' = [u \in Uuids |->
                 IF u \in seen THEN FillPeak(win[u], TablePeak(u)) ELSE win[u]]
    /\ filledByTable' = Changed("peak")
    /\ stamps' =
         (IF Changed("achieved") # {}
          THEN (stamps \ {"achieved=spec-peak"}) \cup {"achieved=table-peak"}
          ELSE stamps)
         \cup (IF Changed("peak") # {} THEN {"peak=builtin-table"} ELSE {})
    /\ pc' = "done"
    /\ UNCHANGED <<prom, seen, model, job, config, source, filledBySpec>>

-----------------------------------------------------------------------------
Next ==
    \/ AskPrometheus
    \/ UsePrimary
    \/ UseFallback
    \/ NothingAnswered
    \/ \E entry \in [Uuids -> UNION {lookup(u) : u \in Uuids}] :
          (\A u \in Uuids : entry[u] \in lookup(u)) /\ SpecFill(entry)
    \/ TableFill

Spec == Init /\ [][Next]_vars

-----------------------------------------------------------------------------
(* Properties.                                                             *)

Done == pc = "done" /\ source # "error"

(* The queries that were answered, and the devices they named.             *)
Answered == queries \ failed
DevicesAnswered == UNION {Named(q, server[q]) : q \in Answered}

(* What the source itself reported of a field of u.                        *)
Reading(u, q) ==
    IF source = "PROMETHEUS"
    THEN IF q \in Answered /\ u \in Named(q, server[q])
         THEN Field(q, server[q], u, Unknown) ELSE Unknown
    ELSE IF q = "TensorActive" THEN exporter[u].tensor
    ELSE IF q = "ECCDoubleBit" THEN exporter[u].ecc
    ELSE Unknown

(* The entries the operator's documentation promises u: of its UUID, else  *)
(* of its model under any spelling, else of the wildcard.                  *)
PromisedEntries(u) ==
    LET own == Entries(spec.byUUID, {u})
        named == Entries(spec.byModel, Alike(model[u]))
        rest == Entries(spec.byModel, {Wildcard})
    IN  IF own # {} THEN own ELSE IF named # {} THEN named
        ELSE IF rest # {} THEN rest ELSE {NoEntry}

DatasheetPeak(u) ==
    IF "PeakTable" \in wired /\ model[u] # NoModel THEN Datasheet[model[u]] ELSE 0

(* Everything the operator gave for u, the less specific included.         *)
EntriesOf(u) ==
    Entries(spec.byUUID, {u})
        \cup Entries(spec.byModel, Alike(model[u]) \cup {Wildcard})

(* A number that d gives is not in e.                                      *)
PassesOver(e, d) ==
    (d.peak > 0 /\ ~(e.peak > 0)) \/ (d.cost > 0 /\ ~(e.cost > 0))

(* A reading wins over what is offered, and that over the rest.            *)
Preferred(reading, offered, rest) ==
    IF reading # Unknown THEN reading ELSE IF offered > 0 THEN offered ELSE rest

(* The peak and the price of every device are its own readings, else those *)
(* of ONE entry of the spec, the most specific that gives a number at all, *)
(* else the datasheet's peak, else unknown, whatever queries failed.  The  *)
(* one entry decides both fields: what it leaves open is not looked for in *)
(* a less specific one.  So "operator-explicit > built-in table"           *)
(* (gpu_peak_table.go:30,217) holds of the entry that is found, not of the *)
(* spec: when the entry of a UUID gives a price alone, the datasheet wins  *)
(* over the peak of its model's entry or of --peak-tflops.  The last       *)
(* conjunct bounds that: only an entry that gives the other number passes  *)
(* one over, an empty one never does (device_spec.go:77, 180).             *)
FilledByPrecedence ==
    Done => \A u \in seen :
      \E e \in PromisedEntries(u) :
        /\ win[u]["peak"] =
             Preferred(Reading(u, "PeakFLOPS"), e.peak,
                       Preferred(Unknown, DatasheetPeak(u), Unknown))
        /\ win[u]["cost"] = Preferred(Reading(u, "CostPerHour"), e.cost, Unknown)
        /\ \A d \in EntriesOf(u) : PassesOver(e, d) => ~empty(e)

(* Achieved FLOPs are the source's own, or the tensor time it measured     *)
(* times a peak that was filled; and they are derived whenever that can be *)
(* (device_spec.go:225, gpu_peak_table.go:275).                            *)
DerivedHonestly ==
    Done => \A u \in seen :
      LET own == Reading(u, "AchievedFLOPs")
          tensor == Reading(u, "TensorActive")
          filled == Reading(u, "PeakFLOPS") = Unknown /\ win[u]["peak"] # Unknown
      IN  win[u]["achieved"] =
            IF own # Unknown THEN own
            ELSE IF tensor # Unknown /\ filled THEN tensor * win[u]["peak"]
            ELSE Unknown

(* A query that fails degrades its own field only: every device any query  *)
(* named is in the observation, Prometheus is not given up for the         *)
(* exporter, and an error is returned only when no query named a device    *)
(* (collectors_prometheus.go:242,343).                                     *)
PartialAnswerKept ==
    pc = "done" /\ "PROMETHEUS" \in wired =>
      /\ DevicesAnswered # {} => source = "PROMETHEUS" /\ seen = DevicesAnswered
      /\ source = "PROMETHEUS" /\ seen = {} => failed = {}
      /\ source = "error" => failed # {} \/ "DCGM" \in wired

(* Every number that is not the source's own is traceable.  A device is in *)
(* the table's list exactly if the table filled its peak, and in the       *)
(* spec's exactly if the spec filled its peak or its price; a stamp for    *)
(* the peaks or prices of a collector is there exactly if it filled one.   *)
(* FLOPs that were derived carry one stamp per observation, and the        *)
(* table's replaces the spec's (gpu_peak_table.go:305): it is the table's  *)
(* if any were derived from a peak of the table, those of other devices    *)
(* from a peak of the spec unmarked then, and the spec's only if all were  *)
(* derived from the spec (device_spec.go:224, gpu_peak_table.go:273).      *)
FillsAreListed ==
    Done =>
      LET supplied(q, f) == {u \in seen : Reading(u, q) = Unknown /\ win[u][f] # Unknown}
          peaks == supplied("PeakFLOPS", "peak")
          costs == supplied("CostPerHour", "cost")
          derived == supplied("AchievedFLOPs", "achieved")
          peaksBySpec == peaks \ filledByTable
      IN  /\ filledByTable \subseteq peaks
          /\ filledBySpec = peaksBySpec \cup costs
          /\ \A u \in peaksBySpec : \E e \in PromisedEntries(u) : win[u]["peak"] = e.peak
          /\ \A u \in filledByTable :
               /\ win[u]["peak"] = TablePeak(u)
               /\ \E e \in PromisedEntries(u) : ~(e.peak > 0)
          /\ "peak=static-spec" \in stamps <=> peaksBySpec # {}
          /\ "cost=static-spec" \in stamps <=> costs # {}
          /\ "peak=builtin-table" \in stamps <=> filledByTable # {}
          /\ "achieved=table-peak" \in stamps <=> derived \cap filledByTable # {}
          /\ "achieved=spec-peak" \in stamps <=>
               derived # {} /\ derived \cap filledByTable = {}

(* "an increase>0 over the window": when Prometheus answers, an increase   *)
(* of the uncorrectable ECC counter it holds is in the window of its       *)
(* device, to the nearest whole number, unless that query failed; one that *)
(* is nearest to 0 is not (collectors_prometheus.go:49).                   *)
EccIncreaseReported ==
    Done /\ "PROMETHEUS" \in wired /\ source = "PROMETHEUS"
         /\ "ECCDoubleBit" \notin failed =>
      LET held == server["ECCDoubleBit"]
      IN  \A u \in Named("ECCDoubleBit", held) :
            LET tenths == {held[i].value : i \in Of("ECCDoubleBit", held, u)}
            IN  IF \A t \in tenths : t < 5 THEN win[u]["ecc"] = Unknown
                ELSE /\ win[u]["ecc"] >= 1
                     /\ \E t \in tenths : 10 * win[u]["ecc"] \in t - 4 .. t + 5
=============================================================================
